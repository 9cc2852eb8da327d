--------------------------- MODULE IwaCircleProofs ---------------------------
(***************************************************************************)
(* The circle contract, the helper that settles for it and what the client *)
(* tells people about a circle: for every set of members, tokens, nonces,  *)
(* configurations and funds.                                               *)
(*                                                                         *)
(* History: types; what a step may do to a circle, an obligation, a cure   *)
(* and a claim (StepFacts, one lemma per entry point); and the invariant   *)
(* of histories and claims that follows (ClaimsInv).                       *)
(*                                                                         *)
(* Money: the ledger of every round agrees with its history and its claim  *)
(* (RoundConservation), every claim that can be settled is backed in full  *)
(* by its own round (ClaimsBacked), a step moves one round's ledger        *)
(* (OneRoundPerStep), and the books of a token are the sum over all rounds *)
(* (TokenTotals).  The invariant adds to ClaimsInv what ties the money to  *)
(* the history: who can be recorded as having paid or cured (Owned,        *)
(* CuresOfDefaults), and what a claim says of its round when it leaves the *)
(* deferred state (WholeClaims, RecoveriesFixed).                          *)
(*                                                                         *)
(* Rounds: they are claimed and opened in order (RoundsInOrder), none of   *)
(* them is ever stranded (FinalizeNeverRefused), and seen from their pots  *)
(* each step is one of module RoundPots (ImplementsPots).                  *)
(*                                                                         *)
(* The helper: every step of the two together is a step of the circle      *)
(* contract or leaves it alone, so what is proved of the circle holds      *)
(* behind the helper; their books agree; the tokens cover the books; and   *)
(* every record is matched by a movement of tokens.                        *)
(*                                                                         *)
(* The client: what members and organizers are told of a circle is what    *)
(* its entry points accept (ClientTold), and a member's record only grows  *)
(* (StandingOnlyGrows).  The invariant adds how many have taken their      *)
(* place, what a locked or recovering claim says of its circle, and that   *)
(* grace periods end after deadlines (SeatsInv).                           *)
(*                                                                         *)
(* No circle is stuck: whoever defaults, it has a next call that needs     *)
(* nobody who owes (NeverStuck).  The invariant adds that only a circle in *)
(* final settlement has been prepared for it (PreparedOnce).               *)
(*                                                                         *)
(* The circle's screen: nobody with a right to pay, to join or to be paid  *)
(* is refused (NobodyRefused).  The invariant adds that an obligation      *)
(* which was never recorded reads as empty (Blank), that money is behind a *)
(* round only once the helper is wired (Wired), and that a nonce spent on  *)
(* contributions is the number of a round its member paid (NoncesSpent).   *)
(***************************************************************************)
EXTENDS IwaCirclePage, SumTheorems

-----------------------------------------------------------------------------
(* What create_circle checked stays true of the stored circle.  The type    *)
(* of a recorded claim needs it: its member is a slot of the payout order.  *)

Established(rec) ==
  rec.status # "Absent" =>
    /\ rec.asset \in Tokens
    /\ rec.contribution_amount > 0
    /\ rec.member_limit >= 2 /\ rec.member_limit <= MAX_MEMBER_LIMIT
    /\ validate_payout_order(rec.payout_order, rec.member_limit)
    /\ rec.contribution_amount * rec.member_limit <= U128_MAX

ConfigsKept == \A c \in CircleIds : Established(circles[c])

TypeInv == TypeOK /\ ConfigsKept

-----------------------------------------------------------------------------
(* Types of records and their updates *)

LEMMA EmptyRecordTypes ==
  /\ NoCircle \in CircleRecord /\ NoObligation \in Obligation
  /\ NoPayout \in PayoutState  /\ NoLiability \in RoundLiability
BY DEF NoCircle, CircleRecord, CircleStatus, NoObligation, Obligation, ContributionStatus,
       NoPayout, PayoutState, PayoutStatus, NoLiability, RoundLiability

LEMMA CircleUpdates ==
  ASSUME NEW rec \in CircleRecord, NEW n \in Nat, NEW s \in CircleStatus
  PROVE  /\ [rec EXCEPT !.joined_count = n, !.status = s] \in CircleRecord
         /\ [rec EXCEPT !.current_round = n] \in CircleRecord
         /\ [rec EXCEPT !.status = s] \in CircleRecord
BY DEF CircleRecord

LEMMA PayoutUpdate ==
  ASSUME NEW p \in PayoutState, NEW s \in PayoutStatus
  PROVE  [p EXCEPT !.status = s] \in PayoutState
BY DEF PayoutState

LEMMA ObligationUpdate ==
  ASSUME NEW o \in Obligation, NEW s \in ContributionStatus
  PROVE  [o EXCEPT !.status = s] \in Obligation
BY DEF Obligation

LEMMA LiabilityUpdates ==
  ASSUME NEW l \in RoundLiability, NEW a \in Nat, NEW b \in Nat
  PROVE  /\ [l EXCEPT !.inflows = a, !.outstanding = b] \in RoundLiability
         /\ [l EXCEPT !.outflows = a, !.outstanding = b] \in RoundLiability
BY DEF RoundLiability

\* The order of a valid configuration lists members only.
LEMMA ValidOrder ==
  ASSUME NEW cfg \in Configs, validate_payout_order(cfg.payout_order, cfg.member_limit)
  PROVE  cfg.payout_order \in Seq(MemberRefs)
<1>1. cfg.payout_order \in Seq(MemberRefs \cup {NoMember})
  BY ConfigsAssumption
<1>2. \A i \in 1..Len(cfg.payout_order) : cfg.payout_order[i] \in MemberRefs
  BY <1>1 DEF validate_payout_order, Range
<1>3. QED
  BY <1>1, <1>2

-----------------------------------------------------------------------------
(* Types across the helpers the entry points share *)

LEMMA OpeningType ==
  ASSUME TypeOK, NEW c \in CircleIds, NEW r, NEW members,
         create_round_obligations(c, r, members)
  PROVE  obligations' \in [CircleIds \X Rounds \X MemberRefs -> Obligation]
<1> DEFINE due  == now + circles[c].cadence_seconds
           end  == due + circles[c].grace_period_seconds
           open == [status |-> "Pending", due_at |-> due, grace_ends_at |-> end]
<1>1. due \in Nat /\ end \in Nat
  BY DEF TypeOK, CircleRecord
<1> HIDE DEF due, end
<1>2. open \in Obligation
  BY <1>1 DEF Obligation, ContributionStatus
<1>3. obligations' = [k \in CircleIds \X Rounds \X MemberRefs |->
                        IF k[1] = c /\ k[2] = r /\ k[3] \in Participants(c)
                        THEN open ELSE obligations[k]]
  BY DEF create_round_obligations, due, end
<1> HIDE DEF open
<1>4. QED
  BY <1>2, <1>3 DEF TypeOK

\* A credit or a debit of a round keeps the ledgers natural numbers.
LEMMA CreditType ==
  ASSUME TypeOK, NEW c \in CircleIds, NEW r \in Rounds, NEW amount \in Nat,
         credit_round_liability(c, r, amount)
  PROVE  /\ ledger' \in [CircleIds \X Rounds -> RoundLiability]
         /\ token_outstanding_liability' \in [Tokens -> Nat]
<1> DEFINE k     == <<c, r>>
           in    == ledger[k].inflows + amount
           total == ledger[k].outstanding + amount
           l     == [ledger[k] EXCEPT !.inflows = in, !.outstanding = total]
<1>1. k \in CircleIds \X Rounds /\ ledger[k] \in RoundLiability
  BY DEF TypeOK
<1>2. in \in Nat /\ total \in Nat
  BY <1>1 DEF RoundLiability
<1>3. ledger' = [ledger EXCEPT ![k] = l]
  BY DEF credit_round_liability
<1>4. token_outstanding_liability' \in [Tokens -> Nat]
  <2> DEFINE t == circles[c].asset
  <2>1. token_outstanding_liability' = [token_outstanding_liability EXCEPT ![t] = @ + amount]
    BY DEF credit_round_liability
  <2> HIDE DEF t
  <2>2. CASE t \in Tokens
    BY <2>1, <2>2 DEF TypeOK
  <2>3. CASE t \notin Tokens
    BY <2>1, <2>3 DEF TypeOK
  <2>4. QED
    BY <2>2, <2>3
<1> HIDE DEF k, in, total
<1>5. l \in RoundLiability
  BY <1>1, <1>2, LiabilityUpdates
<1>6. QED
  BY <1>1, <1>3, <1>4, <1>5 DEF TypeOK

LEMMA DebitType ==
  ASSUME TypeOK, NEW c \in CircleIds, NEW r \in Rounds, NEW amount \in Nat,
         debit_round_liability(c, r, amount)
  PROVE  /\ ledger' \in [CircleIds \X Rounds -> RoundLiability]
         /\ token_outstanding_liability' \in [Tokens -> Nat]
<1> DEFINE k    == <<c, r>>
           t    == circles[c].asset
           out  == ledger[k].outflows + amount
           left == ledger[k].outstanding - amount
           l    == [ledger[k] EXCEPT !.outflows = out, !.outstanding = left]
<1>1. k \in CircleIds \X Rounds /\ ledger[k] \in RoundLiability
  BY DEF TypeOK
<1>2. ledger[k].outstanding >= amount /\ token_outstanding_liability[t] >= amount
  BY DEF debit_round_liability
<1>3. out \in Nat /\ left \in Nat
  BY <1>1, <1>2 DEF RoundLiability
<1>4. ledger' = [ledger EXCEPT ![k] = l]
  BY DEF debit_round_liability
<1>5. token_outstanding_liability' = [token_outstanding_liability EXCEPT ![t] = @ - amount]
  BY DEF debit_round_liability
<1> HIDE DEF k, t, out, left
<1>6. l \in RoundLiability
  BY <1>1, <1>3, LiabilityUpdates
<1>7. ledger' \in [CircleIds \X Rounds -> RoundLiability]
  BY <1>1, <1>4, <1>6 DEF TypeOK
<1>8. token_outstanding_liability' \in [Tokens -> Nat]
  <2>1. CASE t \in Tokens
    BY <1>2, <1>5, <2>1 DEF TypeOK
  <2>2. CASE t \notin Tokens
    BY <1>5, <2>2 DEF TypeOK
  <2>3. QED
    BY <2>1, <2>2
<1>9. QED
  BY <1>7, <1>8

\* Consuming one more nonce.
LEMMA NonceType ==
  ASSUME TypeOK, NEW d \in Domains, NEW c \in CircleIds,
         NEW m \in MemberRefs \cup {NoMember}, NEW nonce \in Nonces
  PROVE  nonces \cup {<<d, c, m, nonce>>}
           \subseteq Domains \X CircleIds \X (MemberRefs \cup {NoMember}) \X Nonces
BY DEF TypeOK

-----------------------------------------------------------------------------
(* One lemma per entry point: the types after it *)

LEMMA InitType == Init => TypeInv
<1> SUFFICES ASSUME Init PROVE TypeInv
  OBVIOUS
<1>1. TypeOK
  BY EmptyRecordTypes, SetupAssumption DEF Init, TypeOK
<1>2. ConfigsKept
  BY DEF Init, ConfigsKept, Established, NoCircle
<1>3. QED
  BY <1>1, <1>2 DEF TypeInv

LEMMA TickType ==
  ASSUME TypeOK, Tick
  PROVE  TypeOK'
BY DEF TypeOK, Tick, lifecycle, history, claims, money

LEMMA CreateType ==
  ASSUME TypeOK, NEW cfg \in Configs, create_circle(cfg)
  PROVE  TypeOK'
<1>1. cfg.payout_order \in Seq(MemberRefs)
  BY ValidOrder DEF create_circle
<1>2. circles' \in [CircleIds -> CircleRecord]
  BY <1>1, ConfigsAssumption DEF TypeOK, create_circle, CircleRecord, CircleStatus
<1>3. QED
  BY <1>2 DEF TypeOK, create_circle, history, claims, money

LEMMA JoinType ==
  ASSUME TypeOK, NEW c \in CircleIds, NEW m \in MemberRefs, join_circle(c, m)
  PROVE  TypeOK'
<1>1. obligations' \in [CircleIds \X Rounds \X MemberRefs -> Obligation]
  <2>1. CASE obligations' = obligations
    BY <2>1 DEF TypeOK
  <2>2. CASE create_round_obligations(c, circles[c].current_round, joined[c] \cup {m})
    BY <2>2, OpeningType
  <2>3. QED
    BY <2>1, <2>2 DEF join_circle
<1>2. circles' \in [CircleIds -> CircleRecord]
  <2> DEFINE count  == circles[c].joined_count + 1
             status == IF count = circles[c].member_limit THEN "Active" ELSE circles[c].status
             rec    == [circles[c] EXCEPT !.joined_count = count, !.status = status]
  <2>1. circles[c] \in CircleRecord
    BY DEF TypeOK
  <2>2. count \in Nat /\ status \in CircleStatus
    BY <2>1 DEF CircleRecord, CircleStatus
  <2>3. circles' = [circles EXCEPT ![c] = rec]
    BY DEF join_circle
  <2> HIDE DEF count, status
  <2>4. rec \in CircleRecord
    BY <2>1, <2>2, CircleUpdates
  <2> HIDE DEF rec
  <2>5. QED
    BY <2>3, <2>4 DEF TypeOK
<1>3. joined' \in [CircleIds -> SUBSET MemberRefs]
  BY DEF TypeOK, join_circle
<1>4. QED
  BY <1>1, <1>2, <1>3 DEF TypeOK, join_circle, claims, money

LEMMA InitializeHelperType ==
  ASSUME TypeOK, NEW caller \in Addresses, NEW helper \in Addresses,
         initialize_settlement_helper(caller, helper)
  PROVE  TypeOK'
BY DEF TypeOK, initialize_settlement_helper, history, claims, money

LEMMA ContributionType ==
  ASSUME TypeOK, NEW caller, NEW c \in CircleIds, NEW r \in Rounds,
         NEW m \in MemberRefs, NEW token, NEW amount, NEW nonce \in Nonces,
         settle_contribution_from_helper(caller, c, r, m, token, amount, nonce)
  PROVE  TypeOK'
<1> DEFINE k == <<c, r, m>>
           s == IF now <= obligations[k].due_at THEN "OnTime" ELSE "LateWithinGrace"
<1>1. amount \in Nat
  BY DEF TypeOK, CircleRecord, settle_contribution_from_helper
<1>2. /\ ledger' \in [CircleIds \X Rounds -> RoundLiability]
      /\ token_outstanding_liability' \in [Tokens -> Nat]
  BY <1>1, CreditType DEF settle_contribution_from_helper
<1>3. s \in ContributionStatus /\ obligations[k] \in Obligation
  BY DEF ContributionStatus, TypeOK
<1>4. obligations' = [obligations EXCEPT ![k] = [obligations[k] EXCEPT !.status = s]]
  BY DEF settle_contribution_from_helper
<1>5. nonces' \subseteq Domains \X CircleIds \X (MemberRefs \cup {NoMember}) \X Nonces
  BY NonceType DEF settle_contribution_from_helper, Domains
<1> HIDE DEF k, s
<1>6. obligations' \in [CircleIds \X Rounds \X MemberRefs -> Obligation]
  BY <1>3, <1>4, ObligationUpdate DEF TypeOK
<1>7. QED
  BY <1>2, <1>5, <1>6 DEF TypeOK, settle_contribution_from_helper, lifecycle, claims

LEMMA DefaultType ==
  ASSUME TypeOK, NEW c \in CircleIds, NEW r \in Rounds, NEW m \in MemberRefs,
         finalize_contribution_default(c, r, m)
  PROVE  TypeOK'
<1> DEFINE k == <<c, r, m>>
<1>1. "MissedDefault" \in ContributionStatus /\ obligations[k] \in Obligation
  BY DEF ContributionStatus, TypeOK
<1>2. obligations' = [obligations EXCEPT ![k] =
                        [obligations[k] EXCEPT !.status = "MissedDefault"]]
  BY DEF finalize_contribution_default
<1> HIDE DEF k
<1>3. obligations' \in [CircleIds \X Rounds \X MemberRefs -> Obligation]
  BY <1>1, <1>2, ObligationUpdate DEF TypeOK
<1>4. QED
  BY <1>3 DEF TypeOK, finalize_contribution_default, lifecycle, claims, money

LEMMA CureType ==
  ASSUME TypeOK, NEW caller, NEW c \in CircleIds, NEW r \in Rounds,
         NEW m \in MemberRefs, NEW token, NEW amount, NEW nonce \in Nonces,
         settle_cure_from_helper(caller, c, r, m, token, amount, nonce)
  PROVE  TypeOK'
<1>1. amount \in Nat
  BY DEF TypeOK, CircleRecord, settle_cure_from_helper
<1>2. /\ ledger' \in [CircleIds \X Rounds -> RoundLiability]
      /\ token_outstanding_liability' \in [Tokens -> Nat]
  BY <1>1, CreditType DEF settle_cure_from_helper
<1>3. nonces' \subseteq Domains \X CircleIds \X (MemberRefs \cup {NoMember}) \X Nonces
  BY NonceType DEF settle_cure_from_helper, Domains
<1>4. cured_deficits' \subseteq CircleIds \X Rounds \X MemberRefs
  BY DEF TypeOK, settle_cure_from_helper
<1>5. QED
  BY <1>2, <1>3, <1>4 DEF TypeOK, settle_cure_from_helper, lifecycle, claims

\* The claim finalize_round_payout_accounting records names a slot that exists.
LEMMA ClaimType ==
  ASSUME TypeInv, NEW c \in CircleIds, NEW r \in Rounds, r <= circles[c].member_limit,
         circles[c].status = "Active", NEW s \in PayoutStatus
  PROVE  [status |-> s, scheduled_member_ref |-> circles[c].payout_order[r],
          amount |-> ScheduledAmount(c)] \in PayoutState
<1>1. circles[c] \in CircleRecord
  BY DEF TypeInv, TypeOK
<1>2. Len(circles[c].payout_order) = circles[c].member_limit
  BY DEF TypeInv, ConfigsKept, Established, validate_payout_order
<1>3. circles[c].payout_order[r] \in MemberRefs
  BY <1>1, <1>2, BoundsAssumption DEF CircleRecord, Rounds
<1>4. ScheduledAmount(c) \in Nat
  BY <1>1 DEF CircleRecord, ScheduledAmount
<1>5. QED
  BY <1>3, <1>4 DEF PayoutState

LEMMA FinalizeRoundType ==
  ASSUME TypeInv, NEW c \in CircleIds, NEW r \in Rounds,
         finalize_round_payout_accounting(c, r)
  PROVE  TypeOK'
<1> USE DEF TypeInv
<1>1. payout_states' \in [CircleIds \X Rounds -> PayoutState]
  <2> DEFINE s == IF calculate_round_unresolved_deficit(c, r) > 0
                  THEN "DeferredLocked" ELSE "Scheduled"
             p == [status |-> s, scheduled_member_ref |-> circles[c].payout_order[r],
                   amount |-> ScheduledAmount(c)]
  <2>1. s \in PayoutStatus
    BY DEF PayoutStatus
  <2>2. payout_states' = [payout_states EXCEPT ![<<c, r>>] = p]
    BY DEF finalize_round_payout_accounting, ScheduledMember
  <2>3. circles[c].status = "Active" /\ r <= circles[c].member_limit
    BY DEF finalize_round_payout_accounting
  <2> HIDE DEF s
  <2>4. p \in PayoutState
    BY <2>1, <2>3, ClaimType
  <2> HIDE DEF p
  <2>5. QED
    BY <2>2, <2>4 DEF TypeOK
<1>2. /\ circles' \in [CircleIds -> CircleRecord]
      /\ obligations' \in [CircleIds \X Rounds \X MemberRefs -> Obligation]
  <2>1. CASE UNCHANGED <<circles, obligations>>
    BY <2>1 DEF TypeOK
  <2>2. CASE /\ circles' = [circles EXCEPT ![c] = [@ EXCEPT !.current_round = r + 1]]
             /\ create_round_obligations(c, r + 1, joined[c])
    <3>1. r + 1 \in Nat
      BY BoundsAssumption DEF Rounds
    <3>2. [circles[c] EXCEPT !.current_round = r + 1] \in CircleRecord
      BY <3>1, CircleUpdates DEF TypeOK, CircleStatus
    <3>3. circles' \in [CircleIds -> CircleRecord]
      BY <2>2, <3>2 DEF TypeOK
    <3>4. obligations' \in [CircleIds \X Rounds \X MemberRefs -> Obligation]
      BY <2>2, OpeningType
    <3>5. QED
      BY <3>3, <3>4
  <2>3. QED
    BY <2>1, <2>2 DEF finalize_round_payout_accounting
<1>3. QED
  BY <1>1, <1>2 DEF TypeOK, finalize_round_payout_accounting, money

LEMMA AuthorizeType ==
  ASSUME TypeOK, NEW c \in CircleIds, NEW r \in Rounds, NEW nonce \in Nonces,
         authorize_payout_settlement(c, r, nonce)
  PROVE  TypeOK'
<1> DEFINE k == <<c, r>>
<1>1. /\ "SettlementAuthorized" \in PayoutStatus
      /\ k \in CircleIds \X Rounds /\ payout_states[k] \in PayoutState
  BY DEF PayoutStatus, TypeOK
<1>2. payout_states' = [payout_states EXCEPT ![k] =
                          [@ EXCEPT !.status = "SettlementAuthorized"]]
  BY DEF authorize_payout_settlement
<1>3. nonces' \subseteq Domains \X CircleIds \X (MemberRefs \cup {NoMember}) \X Nonces
  <2>1. payout_states[k].scheduled_member_ref \in MemberRefs \cup {NoMember}
    BY <1>1 DEF PayoutState
  <2>2. "payout" \in Domains
    BY DEF Domains
  <2>3. nonces' = nonces \cup {<<"payout", c, payout_states[k].scheduled_member_ref, nonce>>}
    BY DEF authorize_payout_settlement
  <2> HIDE DEF k
  <2>4. QED
    BY <2>1, <2>2, <2>3, NonceType
<1> HIDE DEF k
<1>4. payout_states' \in [CircleIds \X Rounds -> PayoutState]
  BY <1>1, <1>2, PayoutUpdate DEF TypeOK
<1>5. QED
  BY <1>3, <1>4 DEF TypeOK, authorize_payout_settlement, lifecycle, history, money

LEMMA PayoutType ==
  ASSUME TypeOK, NEW caller, NEW c \in CircleIds, NEW r \in Rounds, NEW token,
         NEW nonce \in Nonces, settle_payout_from_helper(caller, c, r, token, nonce)
  PROVE  TypeOK'
<1> DEFINE k == <<c, r>>
<1>1. /\ "Paid" \in PayoutStatus
      /\ k \in CircleIds \X Rounds /\ payout_states[k] \in PayoutState
  BY DEF PayoutStatus, TypeOK
<1>2. payout_states' = [payout_states EXCEPT ![k] = [@ EXCEPT !.status = "Paid"]]
  BY DEF settle_payout_from_helper
<1>3. nonces' \subseteq Domains \X CircleIds \X (MemberRefs \cup {NoMember}) \X Nonces
  <2>1. payout_states[k].scheduled_member_ref \in MemberRefs \cup {NoMember}
    BY <1>1 DEF PayoutState
  <2>2. "payout_settlement" \in Domains
    BY DEF Domains
  <2>3. nonces' = nonces \cup
          {<<"payout_settlement", c, payout_states[k].scheduled_member_ref, nonce>>}
    BY DEF settle_payout_from_helper
  <2> HIDE DEF k
  <2>4. QED
    BY <2>1, <2>2, <2>3, NonceType
<1>4. /\ ledger' \in [CircleIds \X Rounds -> RoundLiability]
      /\ token_outstanding_liability' \in [Tokens -> Nat]
  <2>1. payout_states[k].amount \in Nat
    BY <1>1 DEF PayoutState
  <2>2. debit_round_liability(c, r, payout_states[k].amount)
    BY DEF settle_payout_from_helper
  <2> HIDE DEF k
  <2>3. QED
    BY <2>1, <2>2, DebitType
<1> HIDE DEF k
<1>5. payout_states' \in [CircleIds \X Rounds -> PayoutState]
  BY <1>1, <1>2, PayoutUpdate DEF TypeOK
<1>6. QED
  BY <1>3, <1>4, <1>5 DEF TypeOK, settle_payout_from_helper, lifecycle, history

LEMMA RecoveryType ==
  ASSUME TypeOK, NEW caller, NEW c \in CircleIds, NEW r \in Rounds, NEW token,
         NEW nonce \in Nonces, settle_recovery_from_helper(caller, c, r, token, nonce)
  PROVE  TypeOK'
<1> DEFINE k == <<c, r>>
<1>1. /\ "Recovered" \in PayoutStatus
      /\ k \in CircleIds \X Rounds /\ payout_states[k] \in PayoutState
  BY DEF PayoutStatus, TypeOK
<1>2. payout_states' = [payout_states EXCEPT ![k] = [@ EXCEPT !.status = "Recovered"]]
  BY DEF settle_recovery_from_helper
<1>3. nonces' \subseteq Domains \X CircleIds \X (MemberRefs \cup {NoMember}) \X Nonces
  <2>1. payout_states[k].scheduled_member_ref \in MemberRefs \cup {NoMember}
    BY <1>1 DEF PayoutState
  <2>2. "recovery_settlement" \in Domains
    BY DEF Domains
  <2>3. nonces' = nonces \cup
          {<<"recovery_settlement", c, payout_states[k].scheduled_member_ref, nonce>>}
    BY DEF settle_recovery_from_helper
  <2> HIDE DEF k
  <2>4. QED
    BY <2>1, <2>2, <2>3, NonceType
<1>4. /\ ledger' \in [CircleIds \X Rounds -> RoundLiability]
      /\ token_outstanding_liability' \in [Tokens -> Nat]
  <2>1. recovery_amounts[k] \in Nat
    BY DEF TypeOK
  <2>2. debit_round_liability(c, r, recovery_amounts[k])
    BY DEF settle_recovery_from_helper
  <2> HIDE DEF k
  <2>3. QED
    BY <2>1, <2>2, DebitType
<1> HIDE DEF k
<1>5. payout_states' \in [CircleIds \X Rounds -> PayoutState]
  BY <1>1, <1>2, PayoutUpdate DEF TypeOK
<1>6. QED
  BY <1>3, <1>4, <1>5 DEF TypeOK, settle_recovery_from_helper, lifecycle, history

LEMMA PrepareType ==
  ASSUME TypeInv, NEW c \in CircleIds, prepare_final_settlement(c)
  PROVE  TypeOK'
<1> DEFINE recovery(r) == payout_states[<<c, r>>].amount
                            - calculate_round_unresolved_deficit(c, r)
           s(r) == IF recovery(r) = 0 THEN "NoFundedRecovery" ELSE "RecoveryPending"
           Here(k) == k[1] = c /\ k[2] \in Deficient(c)
<1>1. circles[c] \in CircleRecord /\ TypeOK
  BY DEF TypeInv, TypeOK
<1>2. recovery_amounts' \in [CircleIds \X Rounds -> Nat]
  <2>1. recovery_amounts' = [k \in CircleIds \X Rounds |->
                               IF Here(k) THEN recovery(k[2]) ELSE recovery_amounts[k]]
    BY DEF prepare_final_settlement
  <2>2. \A k \in CircleIds \X Rounds : Here(k) => recovery(k[2]) \in Nat
    <3>1. \A r \in Deficient(c) : ledger[<<c, r>>].outstanding = recovery(r)
      BY DEF prepare_final_settlement
    <3> HIDE DEF recovery
    <3>2. QED
      BY <1>1, <3>1 DEF TypeOK, RoundLiability
  <2> HIDE DEF Here, recovery
  <2>3. QED
    BY <1>1, <2>1, <2>2 DEF TypeOK
<1>3. payout_states' \in [CircleIds \X Rounds -> PayoutState]
  <2>1. payout_states' = [k \in CircleIds \X Rounds |->
                            IF Here(k) THEN [payout_states[k] EXCEPT !.status = s(k[2])]
                            ELSE payout_states[k]]
    BY DEF prepare_final_settlement
  <2>2. \A r : s(r) \in PayoutStatus
    BY DEF PayoutStatus
  <2> HIDE DEF Here, s
  <2>3. \A k \in CircleIds \X Rounds : [payout_states[k] EXCEPT !.status = s(k[2])] \in PayoutState
    BY <1>1, <2>2, PayoutUpdate DEF TypeOK
  <2>4. QED
    BY <1>1, <2>1, <2>3 DEF TypeOK
<1>4. circles' \in [CircleIds -> CircleRecord]
  <2>1. "SettlementPending" \in CircleStatus
    BY DEF CircleStatus
  <2>2. [circles[c] EXCEPT !.status = "SettlementPending"] \in CircleRecord
    <3>1. circles[c].joined_count \in Nat
      BY <1>1 DEF CircleRecord
    <3>2. QED
      BY <1>1, <2>1, <3>1, CircleUpdates
  <2>3. circles' = [circles EXCEPT ![c] = [@ EXCEPT !.status = "SettlementPending"]]
    BY DEF prepare_final_settlement
  <2>4. QED
    BY <1>1, <2>2, <2>3 DEF TypeOK
<1>5. cure_windows_closed' \subseteq CircleIds \X Rounds \X MemberRefs
  <2>1. \A k \in cure_windows_closed' \ cure_windows_closed :
          /\ k \in {c} \X (1..circles[c].member_limit) \X Participants(c)
    BY DEF prepare_final_settlement, Defaults
  <2>2. Participants(c) \subseteq MemberRefs
    BY <1>1 DEF CircleRecord, Participants, Range
  <2>3. 1..circles[c].member_limit \subseteq Rounds
    <3>1. circles[c].status = "Active"
      BY DEF prepare_final_settlement
    <3>2. circles[c].member_limit <= MAX_MEMBER_LIMIT
      BY <3>1 DEF TypeInv, ConfigsKept, Established
    <3>3. QED
      BY <1>1, <3>2, BoundsAssumption DEF CircleRecord, Rounds
  <2>4. QED
    BY <1>1, <2>1, <2>2, <2>3 DEF TypeOK
<1>6. final_settlement_prepared' \subseteq CircleIds
  BY <1>1 DEF TypeOK, prepare_final_settlement
<1>7. QED
  BY <1>1, <1>2, <1>3, <1>4, <1>5, <1>6 DEF TypeOK, prepare_final_settlement, money

-----------------------------------------------------------------------------
(* Configurations are kept *)

\* No entry point after create_circle touches what it checked, and none makes
\* an absent circle present.
LEMMA UpdateKeepsConfig ==
  ASSUME TypeOK, ConfigsKept, NEW c \in CircleIds, circles[c].status # "Absent",
         NEW n \in Nat, NEW s \in CircleStatus,
         \/ circles' = [circles EXCEPT ![c] =
                          [circles[c] EXCEPT !.joined_count = n, !.status = s]]
         \/ circles' = [circles EXCEPT ![c] = [@ EXCEPT !.current_round = n]]
         \/ circles' = [circles EXCEPT ![c] = [@ EXCEPT !.status = s]]
  PROVE  ConfigsKept'
<1> SUFFICES ASSUME NEW d \in CircleIds PROVE Established(circles'[d])
  BY DEF ConfigsKept
<1>1. circles \in [CircleIds -> CircleRecord]
  BY DEF TypeOK
<1>2. Established(circles[c]) /\ Established(circles[d])
  BY DEF ConfigsKept
<1>3. CASE d # c
  BY <1>1, <1>2, <1>3
<1>4. CASE d = c
  BY <1>1, <1>2, <1>4, ZenonT(60) DEF Established, CircleRecord
<1>5. QED
  BY <1>3, <1>4

LEMMA CreateConfig ==
  ASSUME TypeOK, ConfigsKept, NEW cfg \in Configs, create_circle(cfg)
  PROVE  ConfigsKept'
<1> SUFFICES ASSUME NEW d \in CircleIds PROVE Established(circles'[d])
  BY DEF ConfigsKept
<1>1. circles \in [CircleIds -> CircleRecord] /\ Established(circles[d])
  BY DEF TypeOK, ConfigsKept
<1>2. CASE d = next_circle_id + 1
  BY <1>1, <1>2 DEF create_circle, Established
<1>3. CASE d # next_circle_id + 1
  BY <1>1, <1>3 DEF create_circle
<1>4. QED
  BY <1>2, <1>3

LEMMA JoinConfig ==
  ASSUME TypeOK, ConfigsKept, NEW c \in CircleIds, NEW m \in MemberRefs, join_circle(c, m)
  PROVE  ConfigsKept'
<1> DEFINE count  == circles[c].joined_count + 1
           status == IF count = circles[c].member_limit THEN "Active" ELSE circles[c].status
<1>1. circles[c] \in CircleRecord
  BY DEF TypeOK
<1>2. count \in Nat /\ status \in CircleStatus /\ circles[c].status # "Absent"
  BY <1>1 DEF CircleRecord, CircleStatus, join_circle
<1>3. circles' = [circles EXCEPT ![c] =
                    [circles[c] EXCEPT !.joined_count = count, !.status = status]]
  BY DEF join_circle
<1> HIDE DEF count, status
<1>4. QED
  BY <1>2, <1>3, UpdateKeepsConfig

LEMMA FinalizeRoundConfig ==
  ASSUME TypeOK, ConfigsKept, NEW c \in CircleIds, NEW r \in Rounds,
         finalize_round_payout_accounting(c, r)
  PROVE  ConfigsKept'
<1>1. circles[c].status # "Absent"
  BY DEF finalize_round_payout_accounting
<1>2. r + 1 \in Nat
  BY BoundsAssumption DEF Rounds
<1>3. CASE circles' = [circles EXCEPT ![c] = [@ EXCEPT !.current_round = r + 1]]
  BY <1>1, <1>2, <1>3, UpdateKeepsConfig DEF CircleStatus
<1>4. CASE UNCHANGED circles
  BY <1>4 DEF ConfigsKept
<1>5. QED
  BY <1>3, <1>4 DEF finalize_round_payout_accounting

LEMMA PrepareConfig ==
  ASSUME TypeOK, ConfigsKept, NEW c \in CircleIds, prepare_final_settlement(c)
  PROVE  ConfigsKept'
<1>1. circles[c].status # "Absent"
  BY DEF prepare_final_settlement
<1>2. circles' = [circles EXCEPT ![c] = [@ EXCEPT !.status = "SettlementPending"]]
  BY DEF prepare_final_settlement
<1>3. circles[c].joined_count \in Nat /\ "SettlementPending" \in CircleStatus
  BY DEF TypeOK, CircleRecord, CircleStatus
<1>4. QED
  BY <1>1, <1>2, <1>3, UpdateKeepsConfig

-----------------------------------------------------------------------------
(* The step lemma: one step per entry point *)

LEMMA TypeStep == TypeInv /\ [Next]_vars => TypeInv'
<1> SUFFICES ASSUME TypeInv, [Next]_vars PROVE TypeInv'
  OBVIOUS
<1> USE DEF TypeInv
<1>1. CASE Tick
  BY <1>1, TickType DEF Tick, lifecycle, ConfigsKept
<1>2. ASSUME NEW cfg \in Configs, create_circle(cfg) PROVE TypeInv'
  BY <1>2, CreateType, CreateConfig
<1>3. ASSUME NEW caller \in Addresses, NEW helper \in Addresses,
             initialize_settlement_helper(caller, helper)
      PROVE  TypeInv'
  BY <1>3, InitializeHelperType DEF initialize_settlement_helper, ConfigsKept
<1>4. ASSUME NEW c \in CircleIds, NEW m \in MemberRefs, join_circle(c, m) PROVE TypeInv'
  BY <1>4, JoinType, JoinConfig
<1>5. ASSUME NEW c \in CircleIds, NEW r \in Rounds, NEW m \in MemberRefs,
             finalize_contribution_default(c, r, m)
      PROVE  TypeInv'
  BY <1>5, DefaultType DEF finalize_contribution_default, lifecycle, ConfigsKept
<1>6. ASSUME NEW c \in CircleIds, NEW r \in Rounds, finalize_round_payout_accounting(c, r)
      PROVE  TypeInv'
  BY <1>6, FinalizeRoundType, FinalizeRoundConfig
<1>7. ASSUME NEW c \in CircleIds, prepare_final_settlement(c) PROVE TypeInv'
  BY <1>7, PrepareType, PrepareConfig
<1>8. ASSUME NEW c \in CircleIds, NEW r \in Rounds, NEW nonce \in Nonces,
             authorize_payout_settlement(c, r, nonce)
      PROVE  TypeInv'
  BY <1>8, AuthorizeType DEF authorize_payout_settlement, lifecycle, ConfigsKept
<1>9. ASSUME NEW c \in CircleIds, NEW r \in Rounds, NEW caller \in Addresses,
             NEW token \in Tokens, NEW nonce \in Nonces, NEW m \in MemberRefs,
             NEW amount \in Amounts,
             settle_contribution_from_helper(caller, c, r, m, token, amount, nonce)
      PROVE  TypeInv'
  BY <1>9, ContributionType DEF settle_contribution_from_helper, lifecycle, ConfigsKept
<1>10. ASSUME NEW c \in CircleIds, NEW r \in Rounds, NEW caller \in Addresses,
              NEW token \in Tokens, NEW nonce \in Nonces, NEW m \in MemberRefs,
              NEW amount \in Amounts,
              settle_cure_from_helper(caller, c, r, m, token, amount, nonce)
       PROVE  TypeInv'
  BY <1>10, CureType DEF settle_cure_from_helper, lifecycle, ConfigsKept
<1>11. ASSUME NEW c \in CircleIds, NEW r \in Rounds, NEW caller \in Addresses,
              NEW token \in Tokens, NEW nonce \in Nonces,
              settle_payout_from_helper(caller, c, r, token, nonce)
       PROVE  TypeInv'
  BY <1>11, PayoutType DEF settle_payout_from_helper, lifecycle, ConfigsKept
<1>12. ASSUME NEW c \in CircleIds, NEW r \in Rounds, NEW caller \in Addresses,
              NEW token \in Tokens, NEW nonce \in Nonces,
              settle_recovery_from_helper(caller, c, r, token, nonce)
       PROVE  TypeInv'
  BY <1>12, RecoveryType DEF settle_recovery_from_helper, lifecycle, ConfigsKept
<1>13. CASE UNCHANGED vars
  BY <1>13 DEF vars, lifecycle, history, claims, money, TypeOK, ConfigsKept
<1> HIDE DEF TypeInv
<1>14. QED
  BY <1>1, <1>2, <1>3, <1>4, <1>5, <1>6, <1>7, <1>8, <1>9, <1>10, <1>11, <1>12, <1>13
     DEF Next, Keeper, Settle

\* Every storage map of the contract keeps its type through every entry point,
\* and a circle keeps the configuration create_circle accepted.
THEOREM TypeCorrect == Spec => [](TypeOK /\ ConfigsKept)
<1>1. Spec => []TypeInv
  BY InitType, TypeStep, PTL DEF Spec
<1>2. QED
  BY <1>1, PTL DEF TypeInv

-----------------------------------------------------------------------------
(* What a step may do *)

\* A circle that exists keeps what create_circle fixed.
ConfigsFixed ==
  \A c \in CircleIds : circles[c].status # "Absent" =>
    /\ circles'[c].status # "Absent"
    /\ circles'[c].contribution_amount = circles[c].contribution_amount
    /\ circles'[c].member_limit = circles[c].member_limit
    /\ circles'[c].payout_order = circles[c].payout_order

Final == {"OnTime", "LateWithinGrace", "MissedDefault"}

\* An obligation opens, or is decided, or stays.
ObligationMoves ==
  \A c \in CircleIds, r \in Rounds, m \in MemberRefs :
    LET o == obligations[<<c, r, m>>]
        q == obligations'[<<c, r, m>>]
    IN  \/ q = o
        \/ /\ o.status = "Absent" /\ q.status = "Pending"
           /\ circles[c].status # "Absent" /\ m \in Participants(c)
           /\ q.due_at <= q.grace_ends_at
        \/ /\ o.status = "Pending" /\ q.status \in Final
           /\ q.due_at = o.due_at /\ q.grace_ends_at = o.grace_ends_at

\* Only a recorded default is cured.
SetsGrow ==
  /\ cured_deficits \subseteq cured_deficits'
  /\ \A k \in cured_deficits' \ cured_deficits : obligations[k].status = "MissedDefault"
  /\ cure_windows_closed \subseteq cure_windows_closed'

\* A claim is recorded when its round is decided, then moves forward; it leaves
\* the deferred state with no deficit, or with every window of its round closed.
Recorded(c, r) ==
  LET q == payout_states'[<<c, r>>]
  IN  /\ payout_states[<<c, r>>].status = "Absent"
      /\ circles[c].status = "Active" /\ r <= circles[c].member_limit /\ AllDecided(c, r)
      /\ q.status = IF calculate_round_unresolved_deficit(c, r) > 0
                    THEN "DeferredLocked" ELSE "Scheduled"
      /\ q.scheduled_member_ref = circles[c].payout_order[r]
      /\ q.amount = ScheduledAmount(c)

Moved(c, r, s, t) ==
  LET p == payout_states[<<c, r>>]
      q == payout_states'[<<c, r>>]
  IN  /\ p.status = s /\ q.status = t
      /\ q.scheduled_member_ref = p.scheduled_member_ref /\ q.amount = p.amount

ClaimStep(c, r) ==
  \/ payout_states'[<<c, r>>] = payout_states[<<c, r>>]
  \/ Recorded(c, r)
  \/ Moved(c, r, "Scheduled", "SettlementAuthorized")
  \/ /\ Moved(c, r, "DeferredLocked", "SettlementAuthorized")
     /\ calculate_round_unresolved_deficit(c, r) = 0
  \/ /\ \/ Moved(c, r, "DeferredLocked", "RecoveryPending")
        \/ Moved(c, r, "DeferredLocked", "NoFundedRecovery")
     /\ \A m \in Unresolved(c, r) : <<c, r, m>> \in cure_windows_closed'
  \/ Moved(c, r, "SettlementAuthorized", "Paid")
  \/ Moved(c, r, "RecoveryPending", "Recovered")

ClaimSteps == \A c \in CircleIds, r \in Rounds : ClaimStep(c, r)

StepFacts == ConfigsFixed /\ ObligationMoves /\ SetsGrow /\ ClaimSteps

-----------------------------------------------------------------------------
(* One lemma per entry point that is not a stutter for all of them *)

LEMMA Untouched ==
  /\ UNCHANGED circles => ConfigsFixed
  /\ UNCHANGED obligations => ObligationMoves
  /\ UNCHANGED <<cured_deficits, cure_windows_closed>> => SetsGrow
  /\ UNCHANGED payout_states => ClaimSteps
BY DEF ConfigsFixed, ObligationMoves, SetsGrow, ClaimSteps, ClaimStep

LEMMA OpeningMoves ==
  ASSUME TypeOK, NEW c \in CircleIds, NEW r, NEW members,
         circles[c].status # "Absent", create_round_obligations(c, r, members)
  PROVE  ObligationMoves
<1> DEFINE open == [status |-> "Pending", due_at |-> now + circles[c].cadence_seconds,
                    grace_ends_at |-> now + circles[c].cadence_seconds
                                        + circles[c].grace_period_seconds]
<1>1. obligations' = [k \in CircleIds \X Rounds \X MemberRefs |->
                        IF k[1] = c /\ k[2] = r /\ k[3] \in Participants(c)
                        THEN open ELSE obligations[k]]
  BY DEF create_round_obligations
<1>2. open.status = "Pending" /\ open.due_at <= open.grace_ends_at
  BY DEF TypeOK, CircleRecord
<1>3. \A m \in Participants(c) : obligations[<<c, r, m>>].status = "Absent"
  BY DEF create_round_obligations
<1> HIDE DEF open
<1>4. SUFFICES ASSUME NEW d \in CircleIds, NEW s \in Rounds, NEW m \in MemberRefs
               PROVE  \/ obligations'[<<d, s, m>>] = obligations[<<d, s, m>>]
                      \/ /\ obligations[<<d, s, m>>].status = "Absent"
                         /\ obligations'[<<d, s, m>>].status = "Pending"
                         /\ circles[d].status # "Absent" /\ m \in Participants(d)
                         /\ obligations'[<<d, s, m>>].due_at <= obligations'[<<d, s, m>>].grace_ends_at
  BY ZenonT(60) DEF ObligationMoves
<1>5. obligations'[<<d, s, m>>] =
        IF d = c /\ s = r /\ m \in Participants(c) THEN open ELSE obligations[<<d, s, m>>]
  BY <1>1
<1>6. QED
  BY <1>2, <1>3, <1>5

LEMMA CreateSteps ==
  ASSUME TypeOK, NEW cfg \in Configs, create_circle(cfg),
         \A c \in CircleIds : c > next_circle_id => circles[c].status = "Absent"
  PROVE  StepFacts
<1>1. ConfigsFixed
  <2> DEFINE id == next_circle_id + 1
  <2>1. id \in CircleIds /\ circles[id].status = "Absent"
    BY DEF create_circle, TypeOK
  <2>2. \A c \in CircleIds : c # id => circles'[c] = circles[c]
    BY DEF create_circle, TypeOK
  <2> HIDE DEF id
  <2>3. QED
    BY <2>1, <2>2 DEF ConfigsFixed
<1>2. UNCHANGED <<obligations, cured_deficits, cure_windows_closed, payout_states>>
  BY DEF create_circle, history, claims
<1>3. QED
  BY <1>1, <1>2, Untouched DEF StepFacts

LEMMA JoinSteps ==
  ASSUME TypeOK, NEW c \in CircleIds, NEW m \in MemberRefs, join_circle(c, m)
  PROVE  StepFacts
<1> DEFINE count  == circles[c].joined_count + 1
           status == IF count = circles[c].member_limit THEN "Active" ELSE circles[c].status
<1>1. ConfigsFixed
  <2>1. circles' = [circles EXCEPT ![c] =
                      [circles[c] EXCEPT !.joined_count = count, !.status = status]]
    BY DEF join_circle
  <2>2. status # "Absent"
    BY DEF join_circle
  <2> HIDE DEF count, status
  <2>3. QED
    BY <2>1, <2>2 DEF ConfigsFixed, TypeOK, CircleRecord
<1>2. ObligationMoves
  <2>1. CASE create_round_obligations(c, circles[c].current_round, joined[c] \cup {m})
    BY <2>1, OpeningMoves DEF join_circle
  <2>2. CASE UNCHANGED obligations
    BY <2>2, Untouched
  <2>3. QED
    BY <2>1, <2>2 DEF join_circle
<1>3. UNCHANGED <<cured_deficits, cure_windows_closed, payout_states>>
  BY DEF join_circle, claims
<1>4. QED
  BY <1>1, <1>2, <1>3, Untouched DEF StepFacts

LEMMA DecideMoves ==
  ASSUME TypeOK, NEW k \in CircleIds \X Rounds \X MemberRefs, NEW s \in Final,
         obligations[k].status = "Pending",
         obligations' = [obligations EXCEPT ![k] = [obligations[k] EXCEPT !.status = s]]
  PROVE  ObligationMoves
<1> SUFFICES ASSUME NEW c \in CircleIds, NEW r \in Rounds, NEW m \in MemberRefs,
                    obligations'[<<c, r, m>>] # obligations[<<c, r, m>>]
             PROVE  /\ obligations[<<c, r, m>>].status = "Pending"
                    /\ obligations'[<<c, r, m>>].status \in Final
                    /\ obligations'[<<c, r, m>>].due_at = obligations[<<c, r, m>>].due_at
                    /\ obligations'[<<c, r, m>>].grace_ends_at
                         = obligations[<<c, r, m>>].grace_ends_at
  BY ZenonT(60) DEF ObligationMoves
<1>1. <<c, r, m>> \in CircleIds \X Rounds \X MemberRefs
  OBVIOUS
<1>2. k = <<c, r, m>>
  BY <1>1 DEF TypeOK
<1>3. obligations[k] \in Obligation
  BY DEF TypeOK
<1>4. obligations'[k] = [obligations[k] EXCEPT !.status = s]
  BY DEF TypeOK
<1>5. QED
  BY <1>2, <1>3, <1>4 DEF Obligation

LEMMA ContributionSteps ==
  ASSUME TypeOK, NEW caller, NEW c \in CircleIds, NEW r \in Rounds,
         NEW m \in MemberRefs, NEW token, NEW amount, NEW nonce,
         settle_contribution_from_helper(caller, c, r, m, token, amount, nonce)
  PROVE  StepFacts
<1> DEFINE s == IF now <= obligations[<<c, r, m>>].due_at THEN "OnTime" ELSE "LateWithinGrace"
<1>1. s \in Final
  BY DEF Final
<1>2. /\ obligations[<<c, r, m>>].status = "Pending"
      /\ obligations' = [obligations EXCEPT ![<<c, r, m>>] =
                           [obligations[<<c, r, m>>] EXCEPT !.status = s]]
  BY DEF settle_contribution_from_helper
<1> HIDE DEF s
<1>3. ObligationMoves
  BY <1>1, <1>2, DecideMoves
<1>4. UNCHANGED <<circles, cured_deficits, cure_windows_closed, payout_states>>
  BY DEF settle_contribution_from_helper, lifecycle, claims
<1>5. QED
  BY <1>3, <1>4, Untouched DEF StepFacts

LEMMA DefaultSteps ==
  ASSUME TypeOK, NEW c \in CircleIds, NEW r \in Rounds, NEW m \in MemberRefs,
         finalize_contribution_default(c, r, m)
  PROVE  StepFacts
<1>1. ObligationMoves
  BY DecideMoves DEF finalize_contribution_default, Final
<1>2. UNCHANGED <<circles, cured_deficits, cure_windows_closed, payout_states>>
  BY DEF finalize_contribution_default, lifecycle, claims
<1>3. QED
  BY <1>1, <1>2, Untouched DEF StepFacts

LEMMA CureSteps ==
  ASSUME NEW caller, NEW c, NEW r, NEW m, NEW token, NEW amount, NEW nonce,
         settle_cure_from_helper(caller, c, r, m, token, amount, nonce)
  PROVE  StepFacts
<1>1. SetsGrow /\ UNCHANGED <<circles, obligations, payout_states>>
  BY DEF settle_cure_from_helper, lifecycle, claims, SetsGrow
<1>2. QED
  BY <1>1, Untouched DEF StepFacts

\* An entry point that rewrites one claim moves that claim only.
LEMMA OneClaim ==
  ASSUME TypeOK, NEW c \in CircleIds, NEW r \in Rounds, NEW q,
         payout_states' = [payout_states EXCEPT ![<<c, r>>] = q],
         payout_states'[<<c, r>>] = q => ClaimStep(c, r)
  PROVE  ClaimSteps
<1>1. payout_states'[<<c, r>>] = q
  BY DEF TypeOK
<1>2. ASSUME NEW d \in CircleIds, NEW s \in Rounds, <<d, s>> # <<c, r>>
      PROVE  ClaimStep(d, s)
  BY <1>2 DEF TypeOK, ClaimStep
<1>3. QED
  BY <1>1, <1>2 DEF ClaimSteps

\* A new status and nothing else.
LEMMA StatusMoves ==
  ASSUME TypeOK, NEW c \in CircleIds, NEW r \in Rounds, NEW t,
         payout_states' = [payout_states EXCEPT ![<<c, r>>] = [@ EXCEPT !.status = t]]
  PROVE  /\ Moved(c, r, payout_states[<<c, r>>].status, t)
         /\ ClaimStep(c, r) => ClaimSteps
<1> DEFINE q == [payout_states[<<c, r>>] EXCEPT !.status = t]
<1>1. payout_states[<<c, r>>] \in PayoutState
  BY DEF TypeOK
<1>2. payout_states'[<<c, r>>] = q
  BY DEF TypeOK
<1>3. Moved(c, r, payout_states[<<c, r>>].status, t)
  BY <1>1, <1>2 DEF Moved, PayoutState
<1> HIDE DEF q
<1>4. ClaimStep(c, r) => ClaimSteps
  BY OneClaim DEF q
<1>5. QED
  BY <1>3, <1>4

LEMMA FinalizeSteps ==
  ASSUME TypeOK, NEW c \in CircleIds, NEW r \in Rounds,
         finalize_round_payout_accounting(c, r)
  PROVE  StepFacts
<1> DEFINE s == IF calculate_round_unresolved_deficit(c, r) > 0
                THEN "DeferredLocked" ELSE "Scheduled"
           q == [status |-> s, scheduled_member_ref |-> circles[c].payout_order[r],
                 amount |-> ScheduledAmount(c)]
<1>1. ClaimSteps
  <2>1. payout_states' = [payout_states EXCEPT ![<<c, r>>] = q]
    BY DEF finalize_round_payout_accounting, ScheduledMember
  <2>2. /\ payout_states[<<c, r>>].status = "Absent" /\ circles[c].status = "Active"
        /\ r <= circles[c].member_limit /\ AllDecided(c, r)
    BY DEF finalize_round_payout_accounting
  <2>3. ASSUME payout_states'[<<c, r>>] = q PROVE ClaimStep(c, r)
    BY <2>2, <2>3 DEF ClaimStep, Recorded
  <2> HIDE DEF q
  <2>4. QED
    BY <2>1, <2>3, OneClaim
<1>2. ConfigsFixed /\ ObligationMoves
  <2>1. CASE UNCHANGED <<circles, obligations>>
    BY <2>1, Untouched
  <2>2. CASE /\ circles' = [circles EXCEPT ![c] = [@ EXCEPT !.current_round = r + 1]]
             /\ create_round_obligations(c, r + 1, joined[c])
    <3>1. ObligationMoves
      BY <2>2, OpeningMoves DEF finalize_round_payout_accounting
    <3>2. ConfigsFixed
      BY <2>2 DEF ConfigsFixed, TypeOK, CircleRecord
    <3>3. QED
      BY <3>1, <3>2
  <2>3. QED
    BY <2>1, <2>2 DEF finalize_round_payout_accounting
<1>3. UNCHANGED <<cured_deficits, cure_windows_closed>>
  BY DEF finalize_round_payout_accounting
<1>4. QED
  BY <1>1, <1>2, <1>3, Untouched DEF StepFacts

LEMMA AuthorizeSteps ==
  ASSUME TypeOK, NEW c \in CircleIds, NEW r \in Rounds, NEW nonce,
         authorize_payout_settlement(c, r, nonce)
  PROVE  StepFacts
<1>1. payout_states' = [payout_states EXCEPT ![<<c, r>>] =
                          [@ EXCEPT !.status = "SettlementAuthorized"]]
  BY DEF authorize_payout_settlement
<1>2. Authorizable(c, r)
  BY DEF authorize_payout_settlement
<1>3. ClaimSteps
  BY <1>1, <1>2, StatusMoves DEF Authorizable, ClaimStep
<1>4. UNCHANGED <<circles, obligations, cured_deficits, cure_windows_closed>>
  BY DEF authorize_payout_settlement, lifecycle, history
<1>5. QED
  BY <1>3, <1>4, Untouched DEF StepFacts

LEMMA PayoutSteps ==
  ASSUME TypeOK, NEW caller, NEW c \in CircleIds, NEW r \in Rounds, NEW token, NEW nonce,
         settle_payout_from_helper(caller, c, r, token, nonce)
  PROVE  StepFacts
<1>1. /\ payout_states' = [payout_states EXCEPT ![<<c, r>>] = [@ EXCEPT !.status = "Paid"]]
      /\ payout_states[<<c, r>>].status = "SettlementAuthorized"
  BY DEF settle_payout_from_helper
<1>2. ClaimSteps
  BY <1>1, StatusMoves DEF ClaimStep
<1>3. UNCHANGED <<circles, obligations, cured_deficits, cure_windows_closed>>
  BY DEF settle_payout_from_helper, lifecycle, history
<1>4. QED
  BY <1>2, <1>3, Untouched DEF StepFacts

LEMMA RecoverySteps ==
  ASSUME TypeOK, NEW caller, NEW c \in CircleIds, NEW r \in Rounds, NEW token, NEW nonce,
         settle_recovery_from_helper(caller, c, r, token, nonce)
  PROVE  StepFacts
<1>1. /\ payout_states' = [payout_states EXCEPT ![<<c, r>>] =
                             [@ EXCEPT !.status = "Recovered"]]
      /\ payout_states[<<c, r>>].status = "RecoveryPending"
  BY DEF settle_recovery_from_helper
<1>2. ClaimSteps
  BY <1>1, StatusMoves DEF ClaimStep
<1>3. UNCHANGED <<circles, obligations, cured_deficits, cure_windows_closed>>
  BY DEF settle_recovery_from_helper, lifecycle, history
<1>4. QED
  BY <1>2, <1>3, Untouched DEF StepFacts

LEMMA PrepareSteps ==
  ASSUME TypeOK, NEW c \in CircleIds, prepare_final_settlement(c)
  PROVE  StepFacts
<1> DEFINE recovery(r) == payout_states[<<c, r>>].amount
                            - calculate_round_unresolved_deficit(c, r)
           s(r) == IF recovery(r) = 0 THEN "NoFundedRecovery" ELSE "RecoveryPending"
           Here(k) == k[1] = c /\ k[2] \in Deficient(c)
<1>1. ConfigsFixed
  BY ZenonT(60) DEF prepare_final_settlement, ConfigsFixed, TypeOK, CircleRecord
<1>2. SetsGrow /\ UNCHANGED obligations
  BY DEF prepare_final_settlement, SetsGrow
<1>3. ASSUME NEW d \in CircleIds, NEW r \in Rounds PROVE ClaimStep(d, r)
  <2>1. payout_states'[<<d, r>>] =
          IF Here(<<d, r>>) THEN [payout_states[<<d, r>>] EXCEPT !.status = s(r)]
          ELSE payout_states[<<d, r>>]
    BY DEF prepare_final_settlement
  <2>2. CASE ~Here(<<d, r>>)
    BY <2>1, <2>2 DEF ClaimStep
  <2>3. CASE Here(<<d, r>>)
    <3>1. d = c /\ r \in Deficient(c)
      BY <2>3
    <3>2. payout_states[<<d, r>>].status = "DeferredLocked"
      BY <3>1 DEF Deficient
    <3>3. \/ Moved(c, r, "DeferredLocked", "RecoveryPending")
          \/ Moved(c, r, "DeferredLocked", "NoFundedRecovery")
      <4>1. payout_states[<<c, r>>] \in PayoutState
        BY DEF TypeOK
      <4>2. payout_states'[<<c, r>>] = [payout_states[<<c, r>>] EXCEPT !.status = s(r)]
        BY <2>1, <2>3, <3>1
      <4>3. s(r) \in {"RecoveryPending", "NoFundedRecovery"}
        OBVIOUS
      <4> HIDE DEF s
      <4>4. QED
        BY <3>1, <3>2, <4>1, <4>2, <4>3 DEF Moved, PayoutState
    <3>4. \A m \in Unresolved(c, r) : <<c, r, m>> \in Defaults(c)
      BY <3>1 DEF Unresolved, Defaults, Deficient
    <3>5. Defaults(c) \subseteq cure_windows_closed'
      BY DEF prepare_final_settlement
    <3>6. QED
      BY <3>1, <3>2, <3>3, <3>4, <3>5 DEF ClaimStep
  <2>4. QED
    BY <2>2, <2>3
<1>4. QED
  BY <1>1, <1>2, <1>3, Untouched DEF StepFacts, ClaimSteps


-----------------------------------------------------------------------------
(* The invariant *)

\* Identifiers above the counter are free.
Counted == \A c \in CircleIds : c > next_circle_id => circles[c].status = "Absent"

\* A claim that exists is the claim of a decided round of an existing circle,
\* for the nominal pot and for the member in the slot of the round.
ClaimRecord(c, r) ==
  payout_states[<<c, r>>].status # "Absent" =>
    /\ circles[c].status # "Absent"
    /\ r <= circles[c].member_limit
    /\ payout_states[<<c, r>>].scheduled_member_ref = circles[c].payout_order[r]
    /\ payout_states[<<c, r>>].amount = ScheduledAmount(c)
    /\ AllDecided(c, r)

ClaimRecords == \A c \in CircleIds, r \in Rounds : ClaimRecord(c, r)

ClaimsInv == TypeInv /\ Counted /\ ClaimRecords /\ NoCureBehindClaim

-----------------------------------------------------------------------------
(* A round has no deficit exactly when nobody is unresolved *)

LEMMA ParticipantsFinite ==
  ASSUME TypeInv, NEW c \in CircleIds
  PROVE  IsFiniteSet(Participants(c)) /\ Participants(c) \subseteq MemberRefs
<1> DEFINE f == circles[c].payout_order
           n == Len(f)
<1>1. f \in Seq(MemberRefs) /\ n \in Nat /\ f \in [1..n -> MemberRefs]
  BY DEF TypeInv, TypeOK, CircleRecord
<1>2. Participants(c) = {f[i] : i \in 1..n}
  BY <1>1 DEF Participants, Range
<1>3. IsFiniteSet(1..n)
  BY <1>1, FS_Interval
<1> HIDE DEF f, n
<1>4. f \in Surjection(1..n, Participants(c))
  BY <1>1, <1>2 DEF Surjection
<1>5. QED
  BY <1>1, <1>2, <1>3, <1>4, FS_Surjection

LEMMA NoDeficit ==
  ASSUME TypeInv, NEW c \in CircleIds, NEW r, circles[c].status # "Absent",
         ~(calculate_round_unresolved_deficit(c, r) > 0)
  PROVE  Unresolved(c, r) = {}
<1>1. IsFiniteSet(Unresolved(c, r))
  <2>1. Unresolved(c, r) \in SUBSET Participants(c)
    BY DEF Unresolved
  <2>2. QED
    BY <2>1, ParticipantsFinite, FS_Subset
<1> DEFINE n == Cardinality(Unresolved(c, r))
<1>2. n \in Nat
  BY <1>1, FS_CardinalityType
<1>3. circles[c].contribution_amount \in Nat /\ circles[c].contribution_amount > 0
  BY DEF TypeInv, TypeOK, CircleRecord, ConfigsKept, Established
<1>4. ~(circles[c].contribution_amount * n > 0)
  BY DEF calculate_round_unresolved_deficit
<1> HIDE DEF n
<1>5. n = 0
  BY <1>2, <1>3, <1>4
<1>6. QED
  BY <1>1, <1>5, FS_EmptySet DEF n

-----------------------------------------------------------------------------
(* The invariant is inductive *)

LEMMA ClaimsInit == Init => ClaimsInv
<1> SUFFICES ASSUME Init PROVE ClaimsInv
  OBVIOUS
<1>1. \A k \in CircleIds \X Rounds : payout_states[k].status = "Absent"
  BY DEF Init, NoPayout
<1>2. Counted
  BY DEF Init, Counted, NoCircle
<1>3. QED
  BY <1>1, <1>2, InitType DEF ClaimsInv, ClaimRecords, ClaimRecord, NoCureBehindClaim

\* The facts of a step, for any step.
LEMMA AnyStep == ClaimsInv /\ [Next]_vars => StepFacts
<1> SUFFICES ASSUME ClaimsInv, [Next]_vars PROVE StepFacts
  OBVIOUS
<1> USE DEF ClaimsInv, TypeInv
<1>1. CASE Tick \/ UNCHANGED vars
  BY <1>1, Untouched DEF StepFacts, Tick, vars, lifecycle, history, claims
<1>2. ASSUME NEW cfg \in Configs, create_circle(cfg) PROVE StepFacts
  BY <1>2, CreateSteps DEF Counted
<1>3. ASSUME NEW caller \in Addresses, NEW helper \in Addresses,
             initialize_settlement_helper(caller, helper)
      PROVE  StepFacts
  BY <1>3, Untouched DEF StepFacts, initialize_settlement_helper, history, claims
<1> HIDE DEF ClaimsInv, TypeInv
<1>4. TypeOK
  BY DEF ClaimsInv, TypeInv
<1>5. QED
  BY <1>1, <1>2, <1>3, <1>4, JoinSteps, ContributionSteps, DefaultSteps, CureSteps,
     FinalizeSteps, AuthorizeSteps, PayoutSteps, RecoverySteps, PrepareSteps
     DEF Next, Keeper, Settle

LEMMA CountedStep == ClaimsInv /\ [Next]_vars => Counted'
<1> SUFFICES ASSUME ClaimsInv, [Next]_vars PROVE Counted'
  OBVIOUS
<1>1. TypeOK /\ Counted
  BY DEF ClaimsInv, TypeInv
<1>2. ASSUME NEW cfg \in Configs, create_circle(cfg) PROVE Counted'
  BY <1>1, <1>2, BoundsAssumption DEF create_circle, Counted, TypeOK, CircleIds
<1>3. ASSUME UNCHANGED next_circle_id,
             \A c \in CircleIds : circles[c].status = "Absent" => circles'[c] = circles[c]
      PROVE  Counted'
  BY <1>1, <1>3 DEF Counted
<1>4. ASSUME NEW c \in CircleIds, NEW q, circles[c].status # "Absent",
             circles' = [circles EXCEPT ![c] = q], UNCHANGED next_circle_id
      PROVE  Counted'
  BY <1>1, <1>4 DEF Counted, TypeOK
<1>5. ASSUME UNCHANGED <<circles, next_circle_id>> PROVE Counted'
  BY <1>1, <1>5 DEF Counted
<1>6. CASE Tick \/ UNCHANGED vars
  BY <1>5, <1>6 DEF Tick, vars, lifecycle
<1>7. ASSUME NEW caller, NEW helper, initialize_settlement_helper(caller, helper)
      PROVE  Counted'
  BY <1>5, <1>7 DEF initialize_settlement_helper
<1>8. ASSUME NEW c \in CircleIds, NEW m, join_circle(c, m) PROVE Counted'
  BY <1>4, <1>8 DEF join_circle
<1>9. ASSUME NEW c \in CircleIds, NEW r, finalize_round_payout_accounting(c, r)
      PROVE  Counted'
  <2>1. CASE UNCHANGED circles
    BY <1>5, <1>9, <2>1 DEF finalize_round_payout_accounting
  <2>2. CASE circles' = [circles EXCEPT ![c] = [@ EXCEPT !.current_round = r + 1]]
    BY <1>4, <1>9, <2>2 DEF finalize_round_payout_accounting
  <2>3. QED
    BY <1>9, <2>1, <2>2 DEF finalize_round_payout_accounting
<1>10. ASSUME NEW c \in CircleIds, prepare_final_settlement(c) PROVE Counted'
  BY <1>4, <1>10 DEF prepare_final_settlement
<1>11. ASSUME NEW c, NEW r, NEW m, finalize_contribution_default(c, r, m) PROVE Counted'
  BY <1>5, <1>11 DEF finalize_contribution_default, lifecycle
<1>12. ASSUME NEW c, NEW r, NEW nonce, authorize_payout_settlement(c, r, nonce)
       PROVE  Counted'
  BY <1>5, <1>12 DEF authorize_payout_settlement, lifecycle
<1>13. ASSUME NEW caller, NEW c, NEW r, NEW token, NEW nonce, NEW m, NEW amount,
              \/ settle_contribution_from_helper(caller, c, r, m, token, amount, nonce)
              \/ settle_cure_from_helper(caller, c, r, m, token, amount, nonce)
              \/ settle_payout_from_helper(caller, c, r, token, nonce)
              \/ settle_recovery_from_helper(caller, c, r, token, nonce)
       PROVE  Counted'
  BY <1>5, <1>13 DEF settle_contribution_from_helper, settle_cure_from_helper,
       settle_payout_from_helper, settle_recovery_from_helper, lifecycle
<1>14. QED
  BY <1>2, <1>6, <1>7, <1>8, <1>9, <1>10, <1>11, <1>12, <1>13 DEF Next, Keeper, Settle

\* A decided obligation stays as it is, so nobody becomes unresolved in a
\* decided round.
LEMMA DecidedStays ==
  ASSUME TypeInv, StepFacts, NEW c \in CircleIds, NEW r \in Rounds,
         circles[c].status # "Absent", AllDecided(c, r)
  PROVE  /\ Participants(c)' = Participants(c)
         /\ AllDecided(c, r)'
         /\ Unresolved(c, r)' \subseteq Unresolved(c, r)
<1>1. Participants(c)' = Participants(c)
  BY DEF StepFacts, ConfigsFixed, Participants
<1>2. \A m \in Participants(c) : obligations'[<<c, r, m>>] = obligations[<<c, r, m>>]
  BY ParticipantsFinite DEF StepFacts, ObligationMoves, AllDecided
<1>3. cured_deficits \subseteq cured_deficits'
  BY DEF StepFacts, SetsGrow
<1>4. QED
  BY <1>1, <1>2, <1>3 DEF AllDecided, Unresolved

LEMMA ClaimRecordsStep == ClaimsInv /\ StepFacts => ClaimRecords'
<1> SUFFICES ASSUME ClaimsInv, StepFacts, NEW c \in CircleIds, NEW r \in Rounds,
                    payout_states'[<<c, r>>].status # "Absent"
             PROVE  ClaimRecord(c, r)'
  BY DEF ClaimRecords, ClaimRecord
<1> DEFINE p == payout_states[<<c, r>>]
           q == payout_states'[<<c, r>>]
<1>1. TypeInv /\ ClaimStep(c, r)
  BY DEF ClaimsInv, StepFacts, ClaimSteps
<1>2. /\ circles[c].status # "Absent" /\ r <= circles[c].member_limit /\ AllDecided(c, r)
      /\ q.scheduled_member_ref = circles[c].payout_order[r]
      /\ q.amount = ScheduledAmount(c)
  <2>1. CASE p.status # "Absent"
    <3>1. q.scheduled_member_ref = p.scheduled_member_ref /\ q.amount = p.amount
      BY <1>1, <2>1 DEF ClaimStep, Moved, Recorded
    <3>2. QED
      BY <2>1, <3>1 DEF ClaimsInv, ClaimRecords, ClaimRecord
  <2>2. CASE p.status = "Absent"
    BY <1>1, <2>2 DEF ClaimStep, Moved, Recorded
  <2>3. QED
    BY <2>1, <2>2
<1>3. AllDecided(c, r)'
  BY <1>1, <1>2, DecidedStays
<1>4. /\ circles'[c].status # "Absent"
      /\ circles'[c].member_limit = circles[c].member_limit
      /\ circles'[c].payout_order = circles[c].payout_order
      /\ ScheduledAmount(c)' = ScheduledAmount(c)
  BY <1>2 DEF StepFacts, ConfigsFixed, ScheduledAmount
<1>5. QED
  BY <1>2, <1>3, <1>4 DEF ClaimRecord

LEMMA WindowsStep == ClaimsInv /\ StepFacts => NoCureBehindClaim'
<1> SUFFICES ASSUME ClaimsInv, StepFacts, NEW c \in CircleIds, NEW r \in Rounds,
                    payout_states'[<<c, r>>].status \notin {"Absent", "DeferredLocked"},
                    NEW m \in Unresolved(c, r)'
             PROVE  <<c, r, m>> \in cure_windows_closed'
  BY DEF NoCureBehindClaim
<1> DEFINE p == payout_states[<<c, r>>]
<1>1. TypeInv /\ ClaimStep(c, r)
  BY DEF ClaimsInv, StepFacts, ClaimSteps
<1>2. circles[c].status # "Absent" /\ AllDecided(c, r)
  <2>1. CASE p.status # "Absent"
    BY <2>1 DEF ClaimsInv, ClaimRecords, ClaimRecord
  <2>2. CASE p.status = "Absent"
    BY <1>1, <2>2 DEF ClaimStep, Moved, Recorded
  <2>3. QED
    BY <2>1, <2>2
<1>3. m \in Unresolved(c, r)
  BY <1>1, <1>2, DecidedStays
<1>4. calculate_round_unresolved_deficit(c, r) > 0
  BY <1>1, <1>2, <1>3, NoDeficit
<1>5. CASE p.status \notin {"Absent", "DeferredLocked"}
  <2>1. <<c, r, m>> \in cure_windows_closed
    BY <1>3, <1>5 DEF ClaimsInv, NoCureBehindClaim
  <2>2. QED
    BY <2>1 DEF StepFacts, SetsGrow
<1>6. CASE p.status \in {"Absent", "DeferredLocked"}
  BY <1>1, <1>3, <1>4, <1>6 DEF ClaimStep, Moved, Recorded
<1>7. QED
  BY <1>5, <1>6

LEMMA ClaimsStep == ClaimsInv /\ [Next]_vars => ClaimsInv'
BY AnyStep, TypeStep, CountedStep, ClaimRecordsStep, WindowsStep DEF ClaimsInv

LEMMA ClaimsInvariant == Spec => []ClaimsInv
BY ClaimsInit, ClaimsStep, PTL DEF Spec

-----------------------------------------------------------------------------
(* Theorems *)

\* A claim that has left the deferred state for good is never followed by a
\* cure of its round (settle_cure_from_helper asserts the window is open, and
\* whatever moved the claim either found no deficit or closed the windows).
THEOREM NoCureBehindClaimHolds == Spec => []NoCureBehindClaim
BY ClaimsInvariant, PTL DEF ClaimsInv

\* The claims of a circle belong to its members in slot order, one each, for
\* the nominal pot.
THEOREM OneTurnEachHolds == Spec => []OneTurnEach
<1>1. ASSUME ClaimsInv PROVE OneTurnEach
  <2>1. ASSUME NEW c \in CircleIds, NEW r \in Rounds, payout_states[<<c, r>>].status # "Absent"
        PROVE  /\ payout_states[<<c, r>>].scheduled_member_ref = circles[c].payout_order[r]
               /\ payout_states[<<c, r>>].amount = ScheduledAmount(c)
               /\ r \in DOMAIN circles[c].payout_order
               /\ IsInjective(circles[c].payout_order)
    <3>1. circles[c].status # "Absent" /\ r <= circles[c].member_limit
      BY <1>1, <2>1 DEF ClaimsInv, ClaimRecords, ClaimRecord
    <3>2. validate_payout_order(circles[c].payout_order, circles[c].member_limit)
      BY <1>1, <3>1 DEF ClaimsInv, TypeInv, ConfigsKept, Established
    <3>3. r \in 1..circles[c].member_limit /\ circles[c].payout_order \in Seq(MemberRefs)
      BY <1>1, <3>1, BoundsAssumption DEF ClaimsInv, TypeInv, TypeOK, CircleRecord, Rounds
    <3>4. QED
      BY <1>1, <2>1, <3>2, <3>3 DEF ClaimsInv, ClaimRecords, ClaimRecord, validate_payout_order
  <2>2. QED
    BY <2>1 DEF OneTurnEach, IsInjective
<1>2. QED
  BY <1>1, ClaimsInvariant, PTL

\* A recorded contribution status, cure or closed window is never undone.
THEOREM HistoryIsImmutable == Spec => HistoryImmutable
<1>1. ASSUME ClaimsInv, [Next]_vars PROVE HistoryKept
  <2>1. StepFacts /\ TypeOK
    BY <1>1, AnyStep DEF ClaimsInv, TypeInv
  <2>2. QED
    BY <2>1 DEF StepFacts, ObligationMoves, SetsGrow, HistoryKept, Final
<1>2. QED
  BY <1>1, ClaimsInvariant, PTL DEF Spec, HistoryImmutable

\* A claim moves along its lifecycle only, and a settled one never moves.
THEOREM ClaimLifecycleHolds == Spec => ClaimLifecycle
<1>1. ASSUME ClaimsInv, [Next]_vars PROVE ClaimMoves
  <2>1. ClaimSteps /\ TypeOK
    BY <1>1, AnyStep DEF ClaimsInv, TypeInv, StepFacts
  <2> SUFFICES ASSUME NEW c \in CircleIds, NEW r \in Rounds,
                      payout_states[<<c, r>>].status # payout_states'[<<c, r>>].status
               PROVE  <<payout_states[<<c, r>>].status, payout_states'[<<c, r>>].status>> \in
                        {<<"Absent", "Scheduled">>, <<"Absent", "DeferredLocked">>,
                         <<"Scheduled", "SettlementAuthorized">>,
                         <<"DeferredLocked", "SettlementAuthorized">>,
                         <<"DeferredLocked", "RecoveryPending">>,
                         <<"DeferredLocked", "NoFundedRecovery">>,
                         <<"SettlementAuthorized", "Paid">>, <<"RecoveryPending", "Recovered">>}
    BY DEF ClaimMoves
  <2>2. ClaimStep(c, r)
    BY <2>1 DEF ClaimSteps
  <2>3. QED
    BY <2>2 DEF ClaimStep, Moved, Recorded
<1>2. QED
  BY <1>1, ClaimsInvariant, PTL DEF Spec, ClaimLifecycle

-----------------------------------------------------------------------------
(* Money and rounds *)

Owned ==
  \A c \in CircleIds, r \in Rounds, m \in MemberRefs :
    obligations[<<c, r, m>>].status # "Absent" =>
      circles[c].status # "Absent" /\ m \in Participants(c)

CuresOfDefaults ==
  \A c \in CircleIds, r \in Rounds, m \in MemberRefs :
    <<c, r, m>> \in cured_deficits => obligations[<<c, r, m>>].status = "MissedDefault"

WholeClaim(c, r) ==
  payout_states[<<c, r>>].status \in {"Scheduled", "SettlementAuthorized", "Paid"} =>
    Unresolved(c, r) = {}

WholeClaims == \A c \in CircleIds, r \in Rounds : WholeClaim(c, r)

RecoveryFixed(c, r) ==
  LET p == payout_states[<<c, r>>]
  IN  /\ p.status = "RecoveryPending" =>
           /\ recovery_amounts[<<c, r>>] > 0
           /\ ledger[<<c, r>>].outstanding = recovery_amounts[<<c, r>>]
           /\ recovery_amounts[<<c, r>>] < p.amount
      /\ p.status = "NoFundedRecovery" =>
           ledger[<<c, r>>].outstanding = 0 /\ recovery_amounts[<<c, r>>] = 0

RecoveriesFixed == \A c \in CircleIds, r \in Rounds : RecoveryFixed(c, r)

Conserved(c, r) ==
  LET l == ledger[<<c, r>>]
  IN  /\ l.inflows = circles[c].contribution_amount * Cardinality(Funded(c, r))
      /\ l.outflows = IF payout_states[<<c, r>>].status \in Closed THEN l.inflows ELSE 0
      /\ l.outstanding = l.inflows - l.outflows

AllConserved == \A c \in CircleIds, r \in Rounds : Conserved(c, r)

MoneyInv ==
  /\ ClaimsInv
  /\ Owned /\ CuresOfDefaults
  /\ WholeClaims /\ RecoveriesFixed
  /\ AllConserved

-----------------------------------------------------------------------------
(* Cardinalities *)

LEMMA FundedFinite ==
  ASSUME TypeInv, NEW c \in CircleIds, NEW r
  PROVE  IsFiniteSet(Funded(c, r)) /\ Cardinality(Funded(c, r)) \in Nat
<1>1. Funded(c, r) \in SUBSET Participants(c)
  BY DEF Funded
<1>2. IsFiniteSet(Funded(c, r))
  BY <1>1, ParticipantsFinite, FS_Subset
<1>3. QED
  BY <1>2, FS_CardinalityType

\* validate_payout_order: a circle has member_limit different members.
LEMMA ParticipantsCounted ==
  ASSUME TypeInv, NEW c \in CircleIds, circles[c].status # "Absent"
  PROVE  Cardinality(Participants(c)) = circles[c].member_limit
<1> DEFINE f == circles[c].payout_order
           n == circles[c].member_limit
<1>1. f \in Seq(MemberRefs) /\ n \in Nat
  BY DEF TypeInv, TypeOK, CircleRecord
<1>2. Len(f) = n /\ IsInjective(f)
  BY DEF TypeInv, ConfigsKept, Established, validate_payout_order
<1>3. f \in [1..n -> MemberRefs] /\ Participants(c) = {f[i] : i \in 1..n}
  BY <1>1, <1>2 DEF Participants, Range
<1>4. IsFiniteSet(1..n) /\ Cardinality(1..n) = n
  <2>1. 1 \in Int /\ n \in Int
    BY <1>1
  <2>2. Cardinality(1..n) = IF 1 > n THEN 0 ELSE n - 1 + 1
    BY <2>1, FS_Interval
  <2>3. IsFiniteSet(1..n)
    BY <2>1, FS_Interval
  <2> HIDE DEF n
  <2>4. QED
    BY <1>1, <2>2, <2>3
<1> HIDE DEF f, n
<1>5. f \in Bijection(1..n, Participants(c))
  BY <1>2, <1>3 DEF Bijection, Injection, Surjection
<1>6. ExistsBijection(1..n, Participants(c))
  BY <1>5 DEF ExistsBijection
<1>7. QED
  BY <1>4, <1>6, FS_Bijection DEF n

\* In a decided round with nobody unresolved, everybody paid or was cured.
LEMMA AllFunded ==
  ASSUME MoneyInv, NEW c \in CircleIds, NEW r \in Rounds,
         AllDecided(c, r), Unresolved(c, r) = {}
  PROVE  Funded(c, r) = Participants(c)
<1> SUFFICES ASSUME NEW m \in Participants(c) PROVE m \in Funded(c, r)
  BY DEF Funded
<1>1. m \in MemberRefs
  BY ParticipantsFinite DEF MoneyInv, ClaimsInv
<1>2. obligations[<<c, r, m>>].status \in ContributionStatus
  BY <1>1 DEF MoneyInv, ClaimsInv, TypeInv, TypeOK, Obligation
<1>3. obligations[<<c, r, m>>].status \notin {"Absent", "Pending"}
  BY DEF AllDecided
<1>4. m \notin Unresolved(c, r)
  OBVIOUS
<1>5. QED
  BY <1>2, <1>3, <1>4 DEF ContributionStatus, Unresolved, Funded

\* A round whose claim is whole took in exactly the nominal pot.
LEMMA WholePot ==
  ASSUME MoneyInv, NEW c \in CircleIds, NEW r \in Rounds,
         payout_states[<<c, r>>].status \in {"Scheduled", "SettlementAuthorized"}
  PROVE  /\ ledger[<<c, r>>].outstanding = payout_states[<<c, r>>].amount
         /\ ledger[<<c, r>>].outflows = 0
<1>1. ClaimRecord(c, r) /\ WholeClaim(c, r) /\ Conserved(c, r) /\ TypeInv
  BY DEF MoneyInv, ClaimsInv, ClaimRecords, WholeClaims, AllConserved
<1>2. /\ circles[c].status # "Absent" /\ AllDecided(c, r) /\ Unresolved(c, r) = {}
      /\ payout_states[<<c, r>>].amount = ScheduledAmount(c)
  BY <1>1 DEF ClaimRecord, WholeClaim
<1>3. Cardinality(Funded(c, r)) = circles[c].member_limit
  BY <1>1, <1>2, AllFunded, ParticipantsCounted
<1>4. ledger[<<c, r>>].outflows = 0
  BY <1>1 DEF Conserved, Closed
<1>5. ledger[<<c, r>>].inflows = ScheduledAmount(c)
  BY <1>1, <1>3 DEF Conserved, ScheduledAmount
<1>6. ScheduledAmount(c) \in Nat
  BY <1>1 DEF TypeInv, TypeOK, CircleRecord, ScheduledAmount
<1>7. ledger[<<c, r>>].outstanding = ledger[<<c, r>>].inflows - ledger[<<c, r>>].outflows
  BY <1>1 DEF Conserved
<1>8. QED
  BY <1>2, <1>4, <1>5, <1>6, <1>7

-----------------------------------------------------------------------------
(* What a step may do to the money of one round *)

FundedSame(c, r) ==
  /\ Funded(c, r)' = Funded(c, r)
  /\ \/ circles'[c].contribution_amount = circles[c].contribution_amount
     \/ Funded(c, r) = {}

Kept(c, r) ==
  /\ ledger'[<<c, r>>] = ledger[<<c, r>>]
  /\ FundedSame(c, r)
  /\ payout_states'[<<c, r>>].status \in Closed <=> payout_states[<<c, r>>].status \in Closed

\* A contribution or a cure of one more member, before the claim is fixed.
Credited(c, r) ==
  LET l == ledger[<<c, r>>]
      amount == circles[c].contribution_amount
  IN  /\ \E m \in Participants(c) \ Funded(c, r) : Funded(c, r)' = Funded(c, r) \cup {m}
      /\ circles'[c].contribution_amount = amount
      /\ payout_states'[<<c, r>>] = payout_states[<<c, r>>]
      /\ payout_states[<<c, r>>].status \in {"Absent", "DeferredLocked"}
      /\ ledger'[<<c, r>>].inflows = l.inflows + amount
      /\ ledger'[<<c, r>>].outflows = l.outflows
      /\ ledger'[<<c, r>>].outstanding = l.outstanding + amount

\* A payout or a recovery of all there is.
Debited(c, r) ==
  LET l == ledger[<<c, r>>]
  IN  /\ FundedSame(c, r)
      /\ payout_states[<<c, r>>].status \in {"SettlementAuthorized", "RecoveryPending"}
      /\ payout_states'[<<c, r>>].status \in Closed
      /\ ledger'[<<c, r>>].inflows = l.inflows
      /\ ledger'[<<c, r>>].outflows = l.outflows + l.outstanding
      /\ ledger'[<<c, r>>].outstanding = 0

LedgerStep(c, r) == Kept(c, r) \/ Credited(c, r) \/ Debited(c, r)

LedgerSteps == \A c \in CircleIds, r \in Rounds : LedgerStep(c, r)

LEMMA ConservedStep ==
  ASSUME MoneyInv, TypeInv', NEW c \in CircleIds, NEW r \in Rounds, LedgerStep(c, r)
  PROVE  Conserved(c, r)'
<1> DEFINE l == ledger[<<c, r>>]
           q == ledger'[<<c, r>>]
           a == circles[c].contribution_amount
           b == circles'[c].contribution_amount
           n == Cardinality(Funded(c, r))
           done == payout_states[<<c, r>>].status \in Closed
           done1 == payout_states'[<<c, r>>].status \in Closed
<1>1. TypeInv /\ n \in Nat /\ a \in Nat /\ b \in Nat
  BY FundedFinite DEF MoneyInv, ClaimsInv, TypeInv, TypeOK, CircleRecord
<1>2. /\ l.inflows = a * n /\ l.outstanding = l.inflows - l.outflows
      /\ l.outflows = IF done THEN l.inflows ELSE 0
  BY DEF MoneyInv, AllConserved, Conserved
<1>3. a * n \in Nat
  BY <1>1
<1>4. SUFFICES /\ q.inflows = b * Cardinality(Funded(c, r)')
               /\ q.outflows = IF done1 THEN q.inflows ELSE 0
               /\ q.outstanding = q.inflows - q.outflows
  BY DEF Conserved
<1>5. ASSUME FundedSame(c, r) PROVE b * Cardinality(Funded(c, r)') = a * n
  <2>1. CASE b = a
    BY <1>5, <2>1 DEF FundedSame
  <2>2. CASE Funded(c, r) = {}
    BY <1>1, <1>5, <2>2, FS_EmptySet DEF FundedSame
  <2>3. QED
    BY <1>5, <2>1, <2>2 DEF FundedSame
<1>6. CASE Kept(c, r)
  BY <1>2, <1>5, <1>6 DEF Kept
<1>7. CASE Credited(c, r)
  <2>1. Cardinality(Funded(c, r)') = n + 1
    <3>1. PICK m \in Participants(c) \ Funded(c, r) : Funded(c, r)' = Funded(c, r) \cup {m}
      BY <1>7 DEF Credited
    <3>2. QED
      BY <1>1, <3>1, FundedFinite, FS_AddElement
  <2>2. b = a /\ ~done /\ ~done1
    BY <1>7 DEF Credited, Closed
  <2>3. q.inflows = l.inflows + a /\ q.outflows = l.outflows /\ q.outstanding = l.outstanding + a
    BY <1>7 DEF Credited
  <2> HIDE DEF l, q, a, b, n, done, done1
  <2>4. a * (n + 1) = a * n + a
    BY <1>1
  <2>5. QED
    BY <1>1, <1>2, <1>3, <2>1, <2>2, <2>3, <2>4
<1>8. CASE Debited(c, r)
  <2>1. b * Cardinality(Funded(c, r)') = a * n
    BY <1>5, <1>8 DEF Debited
  <2>2. ~done /\ done1
    BY <1>8 DEF Debited, Closed
  <2>3. q.inflows = l.inflows /\ q.outflows = l.outflows + l.outstanding /\ q.outstanding = 0
    BY <1>8 DEF Debited
  <2> HIDE DEF l, q, a, b, n, done, done1
  <2>4. QED
    BY <1>2, <1>3, <2>1, <2>2, <2>3
<1>9. QED
  BY <1>6, <1>7, <1>8 DEF LedgerStep


-----------------------------------------------------------------------------
(* One lemma per entry point: the money of every round after it *)

\* Nobody is newly recorded as having paid or cured in round r of c.
LEMMA FundedFrame ==
  ASSUME MoneyInv, TypeInv', StepFacts, NEW c \in CircleIds, NEW r \in Rounds,
         \A m \in MemberRefs :
           /\ obligations'[<<c, r, m>>].status \in {"OnTime", "LateWithinGrace"}
                <=> obligations[<<c, r, m>>].status \in {"OnTime", "LateWithinGrace"}
           /\ <<c, r, m>> \in cured_deficits' <=> <<c, r, m>> \in cured_deficits
  PROVE  FundedSame(c, r)
<1>1. Participants(c) \subseteq MemberRefs /\ Participants(c)' \subseteq MemberRefs
  <2>1. Participants(c) \subseteq MemberRefs
    BY ParticipantsFinite DEF MoneyInv, ClaimsInv
  <2>2. Participants(c)' \subseteq MemberRefs
    BY DEF TypeInv, TypeOK, CircleRecord, Participants, Range
  <2>3. QED
    BY <2>1, <2>2
<1>2. CASE circles[c].status # "Absent"
  <2>1. /\ Participants(c)' = Participants(c)
        /\ circles'[c].contribution_amount = circles[c].contribution_amount
    BY <1>2 DEF StepFacts, ConfigsFixed, Participants
  <2>2. QED
    BY <1>1, <2>1 DEF FundedSame, Funded
<1>3. CASE circles[c].status = "Absent"
  <2>1. \A m \in MemberRefs : /\ obligations[<<c, r, m>>].status = "Absent"
                              /\ <<c, r, m>> \notin cured_deficits
    BY <1>3 DEF MoneyInv, Owned, CuresOfDefaults
  <2>2. QED
    BY <1>1, <2>1 DEF FundedSame, Funded
<1>4. QED
  BY <1>2, <1>3

\* The entry points that move no money.
LEMMA MovesNoMoney ==
  ASSUME MoneyInv, TypeInv', StepFacts, UNCHANGED <<ledger, cured_deficits>>,
         \A c \in CircleIds, r \in Rounds :
           /\ \A m \in MemberRefs :
                obligations'[<<c, r, m>>].status \in {"OnTime", "LateWithinGrace"}
                  <=> obligations[<<c, r, m>>].status \in {"OnTime", "LateWithinGrace"}
           /\ payout_states'[<<c, r>>].status \in Closed
                <=> payout_states[<<c, r>>].status \in Closed
  PROVE  LedgerSteps
<1> SUFFICES ASSUME NEW c \in CircleIds, NEW r \in Rounds PROVE Kept(c, r)
  BY DEF LedgerSteps, LedgerStep
<1>1. FundedSame(c, r)
  BY FundedFrame
<1>2. QED
  BY <1>1 DEF Kept

\* create_round_obligations records nobody as having paid.
LEMMA OpeningFrame ==
  ASSUME TypeOK, NEW c \in CircleIds, NEW r, NEW members,
         create_round_obligations(c, r, members),
         NEW d \in CircleIds, NEW s \in Rounds, NEW m \in MemberRefs
  PROVE  obligations'[<<d, s, m>>].status \in {"OnTime", "LateWithinGrace"}
           <=> obligations[<<d, s, m>>].status \in {"OnTime", "LateWithinGrace"}
<1> DEFINE open == [status |-> "Pending", due_at |-> now + circles[c].cadence_seconds,
                    grace_ends_at |-> now + circles[c].cadence_seconds
                                        + circles[c].grace_period_seconds]
<1>1. obligations' = [k \in CircleIds \X Rounds \X MemberRefs |->
                        IF k[1] = c /\ k[2] = r /\ k[3] \in Participants(c)
                        THEN open ELSE obligations[k]]
  BY DEF create_round_obligations
<1>2. open.status = "Pending"
  OBVIOUS
<1>3. \A n \in Participants(c) : obligations[<<c, r, n>>].status = "Absent"
  BY DEF create_round_obligations
<1> HIDE DEF open
<1>4. obligations'[<<d, s, m>>] =
        IF d = c /\ s = r /\ m \in Participants(c) THEN open ELSE obligations[<<d, s, m>>]
  BY <1>1
<1>5. QED
  BY <1>2, <1>3, <1>4

LEMMA JoinMoney ==
  ASSUME MoneyInv, TypeInv', StepFacts, NEW c \in CircleIds, NEW m \in MemberRefs,
         join_circle(c, m)
  PROVE  LedgerSteps
<1>1. TypeOK /\ UNCHANGED <<ledger, cured_deficits, payout_states>>
  BY DEF MoneyInv, ClaimsInv, TypeInv, join_circle, money, claims
<1>2. CASE UNCHANGED obligations
  BY <1>1, <1>2, MovesNoMoney
<1>3. CASE create_round_obligations(c, circles[c].current_round, joined[c] \cup {m})
  BY <1>1, <1>3, OpeningFrame, MovesNoMoney
<1>4. QED
  BY <1>2, <1>3 DEF join_circle

LEMMA FinalizeMoney ==
  ASSUME MoneyInv, TypeInv', StepFacts, NEW c \in CircleIds, NEW r \in Rounds,
         finalize_round_payout_accounting(c, r)
  PROVE  LedgerSteps
<1>1. TypeOK /\ UNCHANGED <<ledger, cured_deficits>>
  BY DEF MoneyInv, ClaimsInv, TypeInv, finalize_round_payout_accounting, money
<1>2. \A d \in CircleIds, s \in Rounds :
        payout_states'[<<d, s>>].status \in Closed <=> payout_states[<<d, s>>].status \in Closed
  <2> DEFINE t == IF calculate_round_unresolved_deficit(c, r) > 0
                  THEN "DeferredLocked" ELSE "Scheduled"
             q == [status |-> t, scheduled_member_ref |-> circles[c].payout_order[r],
                   amount |-> ScheduledAmount(c)]
  <2>1. /\ payout_states' = [payout_states EXCEPT ![<<c, r>>] = q]
        /\ payout_states[<<c, r>>].status = "Absent"
    BY DEF finalize_round_payout_accounting, ScheduledMember
  <2>2. q.status \notin Closed
    BY DEF Closed
  <2> HIDE DEF q
  <2>3. QED
    BY <1>1, <2>1, <2>2 DEF TypeOK, Closed
<1>3. \A d \in CircleIds, s \in Rounds, m \in MemberRefs :
        obligations'[<<d, s, m>>].status \in {"OnTime", "LateWithinGrace"}
          <=> obligations[<<d, s, m>>].status \in {"OnTime", "LateWithinGrace"}
  <2>1. CASE UNCHANGED obligations
    BY <2>1
  <2>2. CASE create_round_obligations(c, r + 1, joined[c])
    BY <1>1, <2>2, OpeningFrame
  <2>3. QED
    BY <2>1, <2>2 DEF finalize_round_payout_accounting
<1>4. QED
  BY <1>1, <1>2, <1>3, MovesNoMoney

LEMMA DefaultMoney ==
  ASSUME MoneyInv, TypeInv', StepFacts, NEW c \in CircleIds, NEW r \in Rounds,
         NEW m \in MemberRefs, finalize_contribution_default(c, r, m)
  PROVE  LedgerSteps
<1>1. TypeOK /\ UNCHANGED <<ledger, cured_deficits, payout_states>>
  BY DEF MoneyInv, ClaimsInv, TypeInv, finalize_contribution_default, money, claims
<1>2. /\ obligations[<<c, r, m>>].status = "Pending"
      /\ obligations' = [obligations EXCEPT ![<<c, r, m>>] =
                           [obligations[<<c, r, m>>] EXCEPT !.status = "MissedDefault"]]
  BY DEF finalize_contribution_default
<1>3. [obligations[<<c, r, m>>] EXCEPT !.status = "MissedDefault"].status = "MissedDefault"
  BY <1>1 DEF TypeOK, Obligation
<1>4. \A d \in CircleIds, s \in Rounds, n \in MemberRefs :
        obligations'[<<d, s, n>>].status \in {"OnTime", "LateWithinGrace"}
          <=> obligations[<<d, s, n>>].status \in {"OnTime", "LateWithinGrace"}
  BY <1>1, <1>2, <1>3 DEF TypeOK
<1>5. QED
  BY <1>1, <1>4, MovesNoMoney

LEMMA AuthorizeMoney ==
  ASSUME MoneyInv, TypeInv', StepFacts, NEW c \in CircleIds, NEW r \in Rounds, NEW nonce,
         authorize_payout_settlement(c, r, nonce)
  PROVE  LedgerSteps
<1>1. TypeOK /\ UNCHANGED <<ledger, cured_deficits, obligations>>
  BY DEF MoneyInv, ClaimsInv, TypeInv, authorize_payout_settlement, money, history
<1>2. payout_states' = [payout_states EXCEPT ![<<c, r>>] =
                          [@ EXCEPT !.status = "SettlementAuthorized"]]
  BY DEF authorize_payout_settlement
<1>3. payout_states[<<c, r>>].status \in {"Scheduled", "DeferredLocked"}
  BY DEF authorize_payout_settlement, Authorizable
<1>4. Moved(c, r, payout_states[<<c, r>>].status, "SettlementAuthorized")
  BY <1>1, <1>2, StatusMoves
<1>5. \A d \in CircleIds, s \in Rounds :
        payout_states'[<<d, s>>].status \in Closed <=> payout_states[<<d, s>>].status \in Closed
  BY <1>1, <1>2, <1>3, <1>4 DEF TypeOK, Closed, Moved
<1>6. QED
  BY <1>1, <1>5, MovesNoMoney

LEMMA PrepareMoney ==
  ASSUME MoneyInv, TypeInv', StepFacts, NEW c \in CircleIds, prepare_final_settlement(c)
  PROVE  LedgerSteps
<1>1. UNCHANGED <<ledger, cured_deficits, obligations>>
  BY DEF prepare_final_settlement, money
<1>2. ASSUME NEW d \in CircleIds, NEW s \in Rounds
      PROVE  payout_states'[<<d, s>>].status \in Closed
               <=> payout_states[<<d, s>>].status \in Closed
  <2> DEFINE t == IF payout_states[<<c, s>>].amount
                        - calculate_round_unresolved_deficit(c, s) = 0
                  THEN "NoFundedRecovery" ELSE "RecoveryPending"
  <2>1. payout_states'[<<d, s>>] =
          IF d = c /\ s \in Deficient(c) THEN [payout_states[<<d, s>>] EXCEPT !.status = t]
          ELSE payout_states[<<d, s>>]
    BY DEF prepare_final_settlement
  <2>2. t \notin Closed
    BY DEF Closed
  <2>3. payout_states[<<d, s>>] \in PayoutState
    BY DEF MoneyInv, ClaimsInv, TypeInv, TypeOK
  <2> HIDE DEF t
  <2>4. [payout_states[<<d, s>>] EXCEPT !.status = t].status = t
    BY <2>3 DEF PayoutState
  <2>5. s \in Deficient(c) => payout_states[<<c, s>>].status = "DeferredLocked"
    BY DEF Deficient
  <2>6. QED
    BY <2>1, <2>2, <2>4, <2>5 DEF Closed
<1>3. QED
  BY <1>1, <1>2, MovesNoMoney

\* The ledger of the round a credit or a debit names, and of every other.
LEMMA CreditLedger ==
  ASSUME TypeOK, NEW c \in CircleIds, NEW r \in Rounds, NEW amount \in Nat,
         credit_round_liability(c, r, amount)
  PROVE  /\ ledger'[<<c, r>>].inflows = ledger[<<c, r>>].inflows + amount
         /\ ledger'[<<c, r>>].outflows = ledger[<<c, r>>].outflows
         /\ ledger'[<<c, r>>].outstanding = ledger[<<c, r>>].outstanding + amount
         /\ \A k \in (CircleIds \X Rounds) \ {<<c, r>>} : ledger'[k] = ledger[k]
<1> DEFINE in    == ledger[<<c, r>>].inflows + amount
           total == ledger[<<c, r>>].outstanding + amount
           l     == [ledger[<<c, r>>] EXCEPT !.inflows = in, !.outstanding = total]
<1>1. <<c, r>> \in CircleIds \X Rounds /\ ledger[<<c, r>>] \in RoundLiability
  BY DEF TypeOK
<1>2. ledger' = [ledger EXCEPT ![<<c, r>>] = l]
  BY DEF credit_round_liability
<1> HIDE DEF in, total
<1>3. l.inflows = in /\ l.outflows = ledger[<<c, r>>].outflows /\ l.outstanding = total
  BY <1>1 DEF RoundLiability
<1> HIDE DEF l
<1>4. ledger'[<<c, r>>] = l
  BY <1>1, <1>2 DEF TypeOK
<1>5. \A k \in (CircleIds \X Rounds) \ {<<c, r>>} : ledger'[k] = ledger[k]
  BY <1>2 DEF TypeOK
<1>6. QED
  BY <1>3, <1>4, <1>5 DEF in, total

LEMMA DebitLedger ==
  ASSUME TypeOK, NEW c \in CircleIds, NEW r \in Rounds, NEW amount \in Nat,
         debit_round_liability(c, r, amount)
  PROVE  /\ ledger'[<<c, r>>].inflows = ledger[<<c, r>>].inflows
         /\ ledger'[<<c, r>>].outflows = ledger[<<c, r>>].outflows + amount
         /\ ledger'[<<c, r>>].outstanding = ledger[<<c, r>>].outstanding - amount
         /\ \A k \in (CircleIds \X Rounds) \ {<<c, r>>} : ledger'[k] = ledger[k]
<1> DEFINE out  == ledger[<<c, r>>].outflows + amount
           left == ledger[<<c, r>>].outstanding - amount
           l    == [ledger[<<c, r>>] EXCEPT !.outflows = out, !.outstanding = left]
<1>1. <<c, r>> \in CircleIds \X Rounds /\ ledger[<<c, r>>] \in RoundLiability
  BY DEF TypeOK
<1>2. ledger' = [ledger EXCEPT ![<<c, r>>] = l]
  BY DEF debit_round_liability
<1> HIDE DEF out, left
<1>3. l.inflows = ledger[<<c, r>>].inflows /\ l.outflows = out /\ l.outstanding = left
  BY <1>1 DEF RoundLiability
<1> HIDE DEF l
<1>4. ledger'[<<c, r>>] = l
  BY <1>1, <1>2 DEF TypeOK
<1>5. \A k \in (CircleIds \X Rounds) \ {<<c, r>>} : ledger'[k] = ledger[k]
  BY <1>2 DEF TypeOK
<1>6. QED
  BY <1>3, <1>4, <1>5 DEF out, left

\* A step that makes m a funded member of round r, and no other obligation.
NowFunded(c, r, m) ==
  /\ \/ obligations'[<<c, r, m>>].status \in {"OnTime", "LateWithinGrace"}
     \/ <<c, r, m>> \in cured_deficits'
  /\ \A d \in CircleIds, s \in Rounds, n \in MemberRefs :
       <<d, s, n>> # <<c, r, m>> =>
         /\ obligations'[<<d, s, n>>] = obligations[<<d, s, n>>]
         /\ <<d, s, n>> \in cured_deficits' <=> <<d, s, n>> \in cured_deficits

\* A credit for member m of round r: m is newly funded, all else is kept.
LEMMA CreditMoney ==
  ASSUME MoneyInv, TypeInv', StepFacts, NEW c \in CircleIds, NEW r \in Rounds,
         NEW m \in MemberRefs, UNCHANGED payout_states,
         credit_round_liability(c, r, circles[c].contribution_amount),
         circles[c].status # "Absent", m \in Participants(c), m \notin Funded(c, r),
         payout_states[<<c, r>>].status \in {"Absent", "DeferredLocked"},
         NowFunded(c, r, m)
  PROVE  LedgerSteps
<1>1. TypeOK /\ circles[c].contribution_amount \in Nat
  BY DEF MoneyInv, ClaimsInv, TypeInv, TypeOK, CircleRecord
<1>2. ASSUME NEW d \in CircleIds, NEW s \in Rounds, <<d, s>> # <<c, r>>
      PROVE  Kept(d, s)
  <2>1. ledger'[<<d, s>>] = ledger[<<d, s>>]
    BY <1>1, <1>2, CreditLedger
  <2>2. FundedSame(d, s)
    BY <1>2, FundedFrame DEF NowFunded
  <2>3. QED
    BY <2>1, <2>2 DEF Kept
<1>3. Credited(c, r)
  <2>1. /\ Participants(c)' = Participants(c)
        /\ circles'[c].contribution_amount = circles[c].contribution_amount
    BY DEF StepFacts, ConfigsFixed, Participants
  <2>2. Participants(c) \subseteq MemberRefs
    BY ParticipantsFinite DEF MoneyInv, ClaimsInv
  <2>3. Funded(c, r)' = Funded(c, r) \cup {m}
    BY <2>1, <2>2 DEF Funded, NowFunded
  <2>4. QED
    BY <1>1, <2>1, <2>3, CreditLedger DEF Credited
<1>4. QED
  BY <1>2, <1>3 DEF LedgerSteps, LedgerStep

LEMMA ContributionMoney ==
  ASSUME MoneyInv, TypeInv', StepFacts, NEW caller, NEW c \in CircleIds, NEW r \in Rounds,
         NEW m \in MemberRefs, NEW token, NEW amount, NEW nonce,
         settle_contribution_from_helper(caller, c, r, m, token, amount, nonce)
  PROVE  LedgerSteps
<1> DEFINE s == IF now <= obligations[<<c, r, m>>].due_at THEN "OnTime" ELSE "LateWithinGrace"
           q == [obligations[<<c, r, m>>] EXCEPT !.status = s]
<1>1. /\ TypeOK /\ ClaimRecord(c, r)
      /\ UNCHANGED <<payout_states, cured_deficits>>
  BY DEF MoneyInv, ClaimsInv, TypeInv, ClaimRecords, settle_contribution_from_helper, claims
<1>2. /\ circles[c].status = "Active" /\ obligations[<<c, r, m>>].status = "Pending"
      /\ credit_round_liability(c, r, circles[c].contribution_amount)
      /\ obligations' = [obligations EXCEPT ![<<c, r, m>>] = q]
  BY DEF settle_contribution_from_helper
<1>3. q.status \in {"OnTime", "LateWithinGrace"}
  BY <1>1 DEF TypeOK, Obligation
<1> HIDE DEF s, q
<1>4. obligations'[<<c, r, m>>] = q
  BY <1>1, <1>2 DEF TypeOK
<1>5. \A d \in CircleIds, u \in Rounds, n \in MemberRefs :
        <<d, u, n>> # <<c, r, m>> => obligations'[<<d, u, n>>] = obligations[<<d, u, n>>]
  BY <1>1, <1>2 DEF TypeOK
<1>6. m \in Participants(c)
  BY <1>2 DEF MoneyInv, Owned
<1>7. <<c, r, m>> \notin cured_deficits
  BY <1>2 DEF MoneyInv, CuresOfDefaults
<1>8. m \notin Funded(c, r)
  BY <1>2, <1>7 DEF Funded
<1>9. payout_states[<<c, r>>].status = "Absent"
  BY <1>1, <1>2, <1>6 DEF ClaimRecord, AllDecided
<1>10. obligations'[<<c, r, m>>].status \in {"OnTime", "LateWithinGrace"}
  BY <1>3, <1>4
<1>11. circles[c].status # "Absent"
  BY <1>2
<1>12. UNCHANGED payout_states
  BY <1>1
<1>13. credit_round_liability(c, r, circles[c].contribution_amount)
  BY <1>2
<1>14. NowFunded(c, r, m)
  BY <1>1, <1>5, <1>10 DEF NowFunded
<1>15. QED
  BY <1>6, <1>8, <1>9, <1>11, <1>12, <1>13, <1>14, CreditMoney

LEMMA CureMoney ==
  ASSUME MoneyInv, TypeInv', StepFacts, NEW caller, NEW c \in CircleIds, NEW r \in Rounds,
         NEW m \in MemberRefs, NEW token, NEW amount, NEW nonce,
         settle_cure_from_helper(caller, c, r, m, token, amount, nonce)
  PROVE  LedgerSteps
<1>1. UNCHANGED <<payout_states, obligations>>
  BY DEF settle_cure_from_helper, claims
<1>2. /\ obligations[<<c, r, m>>].status = "MissedDefault"
      /\ <<c, r, m>> \notin cured_deficits /\ <<c, r, m>> \notin cure_windows_closed
      /\ cured_deficits' = cured_deficits \cup {<<c, r, m>>}
      /\ credit_round_liability(c, r, circles[c].contribution_amount)
  BY DEF settle_cure_from_helper
<1>3. circles[c].status # "Absent" /\ m \in Participants(c)
  BY <1>2 DEF MoneyInv, Owned
<1>4. m \notin Funded(c, r) /\ m \in Unresolved(c, r)
  BY <1>2, <1>3 DEF Funded, Unresolved
<1>5. payout_states[<<c, r>>].status \in {"Absent", "DeferredLocked"}
  BY <1>2, <1>4 DEF MoneyInv, ClaimsInv, NoCureBehindClaim
<1>6. <<c, r, m>> \in cured_deficits'
  BY <1>2
<1>7. NowFunded(c, r, m)
  BY <1>1, <1>2, <1>6 DEF NowFunded
<1>8. UNCHANGED payout_states
  BY <1>1
<1>9. credit_round_liability(c, r, circles[c].contribution_amount)
  BY <1>2
<1>10. QED
  BY <1>3, <1>4, <1>5, <1>7, <1>8, <1>9, CreditMoney

\* The claim of round r takes all its round holds.
LEMMA DebitMoney ==
  ASSUME MoneyInv, TypeInv', StepFacts, NEW c \in CircleIds, NEW r \in Rounds,
         NEW t \in Closed,
         UNCHANGED <<obligations, cured_deficits>>,
         debit_round_liability(c, r, ledger[<<c, r>>].outstanding),
         payout_states[<<c, r>>].status \in {"SettlementAuthorized", "RecoveryPending"},
         payout_states' = [payout_states EXCEPT ![<<c, r>>] = [@ EXCEPT !.status = t]]
  PROVE  LedgerSteps
<1>1. TypeOK /\ ledger[<<c, r>>].outstanding \in Nat
  BY DEF MoneyInv, ClaimsInv, TypeInv, TypeOK, RoundLiability
<1>2. \A d \in CircleIds, s \in Rounds : FundedSame(d, s)
  BY FundedFrame
<1>3. ASSUME NEW d \in CircleIds, NEW s \in Rounds, <<d, s>> # <<c, r>>
      PROVE  Kept(d, s)
  <2>1. ledger'[<<d, s>>] = ledger[<<d, s>>]
    BY <1>1, <1>3, DebitLedger
  <2>2. payout_states'[<<d, s>>] = payout_states[<<d, s>>]
    BY <1>1, <1>3 DEF TypeOK
  <2>3. QED
    BY <1>2, <2>1, <2>2 DEF Kept
<1>4. Debited(c, r)
  <2>1. payout_states'[<<c, r>>].status = t
    BY <1>1, StatusMoves, ZenonT(60) DEF Moved
  <2>2. /\ ledger'[<<c, r>>].inflows = ledger[<<c, r>>].inflows
        /\ ledger'[<<c, r>>].outflows
             = ledger[<<c, r>>].outflows + ledger[<<c, r>>].outstanding
        /\ ledger'[<<c, r>>].outstanding
             = ledger[<<c, r>>].outstanding - ledger[<<c, r>>].outstanding
    BY <1>1, DebitLedger
  <2>3. QED
    BY <1>1, <1>2, <2>1, <2>2 DEF Debited
<1>5. QED
  BY <1>3, <1>4 DEF LedgerSteps, LedgerStep

LEMMA PayoutMoney ==
  ASSUME MoneyInv, TypeInv', StepFacts, NEW caller, NEW c \in CircleIds, NEW r \in Rounds,
         NEW token, NEW nonce, settle_payout_from_helper(caller, c, r, token, nonce)
  PROVE  LedgerSteps
<1>1. /\ payout_states[<<c, r>>].status = "SettlementAuthorized"
      /\ payout_states' = [payout_states EXCEPT ![<<c, r>>] = [@ EXCEPT !.status = "Paid"]]
      /\ debit_round_liability(c, r, payout_states[<<c, r>>].amount)
      /\ UNCHANGED <<obligations, cured_deficits>>
  BY DEF settle_payout_from_helper, history
<1>2. payout_states[<<c, r>>].amount = ledger[<<c, r>>].outstanding
  BY <1>1, WholePot
<1>3. QED
  BY <1>1, <1>2, DebitMoney DEF Closed

LEMMA RecoveryMoney ==
  ASSUME MoneyInv, TypeInv', StepFacts, NEW caller, NEW c \in CircleIds, NEW r \in Rounds,
         NEW token, NEW nonce, settle_recovery_from_helper(caller, c, r, token, nonce)
  PROVE  LedgerSteps
<1>1. /\ payout_states[<<c, r>>].status = "RecoveryPending"
      /\ payout_states' = [payout_states EXCEPT ![<<c, r>>] =
                             [@ EXCEPT !.status = "Recovered"]]
      /\ debit_round_liability(c, r, recovery_amounts[<<c, r>>])
      /\ UNCHANGED <<obligations, cured_deficits>>
  BY DEF settle_recovery_from_helper, history
<1>2. recovery_amounts[<<c, r>>] = ledger[<<c, r>>].outstanding
  BY <1>1 DEF MoneyInv, RecoveriesFixed, RecoveryFixed
<1>3. QED
  BY <1>1, <1>2, DebitMoney DEF Closed

LEMMA AnyMoney ==
  ASSUME MoneyInv, TypeInv', StepFacts, [Next]_vars
  PROVE  LedgerSteps
<1>1. ASSUME UNCHANGED <<ledger, cured_deficits, obligations, payout_states>>
      PROVE  LedgerSteps
  BY <1>1, MovesNoMoney
<1>2. CASE Tick \/ UNCHANGED vars
  BY <1>1, <1>2 DEF Tick, vars, history, claims, money
<1>3. ASSUME NEW cfg, create_circle(cfg) PROVE LedgerSteps
  BY <1>1, <1>3 DEF create_circle, history, claims, money
<1>4. ASSUME NEW caller, NEW helper, initialize_settlement_helper(caller, helper)
      PROVE  LedgerSteps
  BY <1>1, <1>4 DEF initialize_settlement_helper, history, claims, money
<1>5. QED
  BY <1>2, <1>3, <1>4, JoinMoney, ContributionMoney, DefaultMoney, CureMoney, FinalizeMoney,
     AuthorizeMoney, PayoutMoney, RecoveryMoney, PrepareMoney
     DEF Next, Keeper, Settle

-----------------------------------------------------------------------------
(* Recoveries *)

\* A recovery amount is fixed when its claim leaves the deferred state, and
\* only then.
RecoveryStep(c, r) ==
  \/ /\ recovery_amounts'[<<c, r>>] = recovery_amounts[<<c, r>>]
     /\ payout_states'[<<c, r>>].status \in {"RecoveryPending", "NoFundedRecovery"} =>
          payout_states'[<<c, r>>] = payout_states[<<c, r>>]
  \/ RecoveryFixed(c, r)'

ClaimAmountsHold == \A c \in CircleIds, r \in Rounds : RecoveryStep(c, r)

LEMMA OtherRecovery ==
  ASSUME TypeOK, NEW c \in CircleIds, NEW r \in Rounds, NEW q,
         UNCHANGED recovery_amounts,
         q.status \notin {"RecoveryPending", "NoFundedRecovery"},
         payout_states' = [payout_states EXCEPT ![<<c, r>>] = q]
  PROVE  ClaimAmountsHold
BY DEF TypeOK, ClaimAmountsHold, RecoveryStep

LEMMA PrepareRecovery ==
  ASSUME MoneyInv, NEW c \in CircleIds, prepare_final_settlement(c)
  PROVE  ClaimAmountsHold
<1> SUFFICES ASSUME NEW d \in CircleIds, NEW r \in Rounds PROVE RecoveryStep(d, r)
  BY DEF ClaimAmountsHold
<1> DEFINE deficit  == calculate_round_unresolved_deficit(c, r)
           recovery == payout_states[<<c, r>>].amount - deficit
           t == IF recovery = 0 THEN "NoFundedRecovery" ELSE "RecoveryPending"
           here == d = c /\ r \in Deficient(c)
<1>1. /\ recovery_amounts'[<<d, r>>] =
           IF here THEN recovery ELSE recovery_amounts[<<d, r>>]
      /\ payout_states'[<<d, r>>] =
           IF here THEN [payout_states[<<d, r>>] EXCEPT !.status = t]
           ELSE payout_states[<<d, r>>]
  BY DEF prepare_final_settlement
<1>2. CASE ~here
  BY <1>1, <1>2 DEF RecoveryStep
<1>3. CASE here
  <2>1. deficit \in Nat /\ TypeInv
    <3>1. Unresolved(c, r) \in SUBSET Participants(c) /\ TypeInv
      BY DEF Unresolved, MoneyInv, ClaimsInv
    <3>2. Cardinality(Unresolved(c, r)) \in Nat
      BY <3>1, ParticipantsFinite, FS_Subset, FS_CardinalityType
    <3>3. circles[c].contribution_amount \in Nat
      BY <3>1 DEF TypeInv, TypeOK, CircleRecord
    <3>4. QED
      BY <3>1, <3>2, <3>3 DEF calculate_round_unresolved_deficit
  <2>2. payout_states[<<c, r>>] \in PayoutState /\ ledger[<<c, r>>].outstanding \in Nat
    BY <2>1 DEF TypeInv, TypeOK, RoundLiability
  <2>3. payout_states[<<c, r>>].status = "DeferredLocked" /\ r \in 1..circles[c].member_limit
    BY <1>3 DEF Deficient
  <2>4. deficit > 0
    BY <2>3 DEF prepare_final_settlement, NoneUndecided
  <2>5. ledger[<<c, r>>].outstanding = recovery
    BY <1>3 DEF prepare_final_settlement
  <2>6. /\ payout_states'[<<d, r>>].status = t
        /\ payout_states'[<<d, r>>].amount = payout_states[<<c, r>>].amount
        /\ recovery_amounts'[<<d, r>>] = recovery
    BY <1>1, <1>3, <2>2 DEF PayoutState
  <2>7. ledger'[<<d, r>>] = ledger[<<c, r>>]
    BY <1>3 DEF prepare_final_settlement, money
  <2>8. payout_states[<<c, r>>].amount \in Nat
    BY <2>2 DEF PayoutState
  <2>9. recovery \in Nat /\ recovery < payout_states[<<c, r>>].amount
    BY <2>1, <2>2, <2>4, <2>5, <2>8
  <2> HIDE DEF recovery
  <2>10. QED
    BY <2>5, <2>6, <2>7, <2>9 DEF RecoveryStep, RecoveryFixed
<1>4. QED
  BY <1>2, <1>3

LEMMA AnyRecovery ==
  ASSUME MoneyInv, [Next]_vars
  PROVE  ClaimAmountsHold
<1>1. TypeOK
  BY DEF MoneyInv, ClaimsInv, TypeInv
<1>2. ASSUME UNCHANGED <<payout_states, recovery_amounts>> PROVE ClaimAmountsHold
  BY <1>2 DEF ClaimAmountsHold, RecoveryStep
<1>3. CASE Tick \/ UNCHANGED vars
  BY <1>2, <1>3 DEF Tick, vars, claims
<1>4. ASSUME NEW cfg, create_circle(cfg) PROVE ClaimAmountsHold
  BY <1>2, <1>4 DEF create_circle, claims
<1>5. ASSUME NEW caller, NEW helper, initialize_settlement_helper(caller, helper)
      PROVE  ClaimAmountsHold
  BY <1>2, <1>5 DEF initialize_settlement_helper, claims
<1>6. ASSUME NEW c, NEW m, join_circle(c, m) PROVE ClaimAmountsHold
  BY <1>2, <1>6 DEF join_circle, claims
<1>7. ASSUME NEW c, NEW r, NEW m, finalize_contribution_default(c, r, m)
      PROVE  ClaimAmountsHold
  BY <1>2, <1>7 DEF finalize_contribution_default, claims
<1>8. ASSUME NEW caller, NEW c, NEW r, NEW token, NEW nonce, NEW m, NEW amount,
             \/ settle_contribution_from_helper(caller, c, r, m, token, amount, nonce)
             \/ settle_cure_from_helper(caller, c, r, m, token, amount, nonce)
      PROVE  ClaimAmountsHold
  BY <1>2, <1>8 DEF settle_contribution_from_helper, settle_cure_from_helper, claims
<1>9. ASSUME NEW c \in CircleIds, NEW r \in Rounds, finalize_round_payout_accounting(c, r)
      PROVE  ClaimAmountsHold
  <2> DEFINE t == IF calculate_round_unresolved_deficit(c, r) > 0
                  THEN "DeferredLocked" ELSE "Scheduled"
             q == [status |-> t, scheduled_member_ref |-> circles[c].payout_order[r],
                   amount |-> ScheduledAmount(c)]
  <2>1. payout_states' = [payout_states EXCEPT ![<<c, r>>] = q] /\ UNCHANGED recovery_amounts
    BY <1>9 DEF finalize_round_payout_accounting, ScheduledMember
  <2>2. q.status \notin {"RecoveryPending", "NoFundedRecovery"}
    OBVIOUS
  <2> HIDE DEF q
  <2>3. QED
    BY <1>1, <2>1, <2>2, OtherRecovery
<1>10. ASSUME NEW c \in CircleIds, NEW r \in Rounds, NEW nonce,
              authorize_payout_settlement(c, r, nonce)
       PROVE  ClaimAmountsHold
  <2> DEFINE q == [payout_states[<<c, r>>] EXCEPT !.status = "SettlementAuthorized"]
  <2>1. payout_states' = [payout_states EXCEPT ![<<c, r>>] = q] /\ UNCHANGED recovery_amounts
    BY <1>10 DEF authorize_payout_settlement
  <2>2. q.status = "SettlementAuthorized"
    BY <1>1 DEF TypeOK, PayoutState
  <2> HIDE DEF q
  <2>3. QED
    BY <1>1, <2>1, <2>2, OtherRecovery
<1>11. ASSUME NEW caller, NEW c \in CircleIds, NEW r \in Rounds, NEW token, NEW nonce,
              settle_payout_from_helper(caller, c, r, token, nonce)
       PROVE  ClaimAmountsHold
  <2> DEFINE q == [payout_states[<<c, r>>] EXCEPT !.status = "Paid"]
  <2>1. payout_states' = [payout_states EXCEPT ![<<c, r>>] = q] /\ UNCHANGED recovery_amounts
    BY <1>11 DEF settle_payout_from_helper
  <2>2. q.status = "Paid"
    BY <1>1 DEF TypeOK, PayoutState
  <2> HIDE DEF q
  <2>3. QED
    BY <1>1, <2>1, <2>2, OtherRecovery
<1>12. ASSUME NEW caller, NEW c \in CircleIds, NEW r \in Rounds, NEW token, NEW nonce,
              settle_recovery_from_helper(caller, c, r, token, nonce)
       PROVE  ClaimAmountsHold
  <2> DEFINE q == [payout_states[<<c, r>>] EXCEPT !.status = "Recovered"]
  <2>1. payout_states' = [payout_states EXCEPT ![<<c, r>>] = q] /\ UNCHANGED recovery_amounts
    BY <1>12 DEF settle_recovery_from_helper
  <2>2. q.status = "Recovered"
    BY <1>1 DEF TypeOK, PayoutState
  <2> HIDE DEF q
  <2>3. QED
    BY <1>1, <2>1, <2>2, OtherRecovery
<1>13. QED
  BY <1>3, <1>4, <1>5, <1>6, <1>7, <1>8, <1>9, <1>10, <1>11, <1>12, PrepareRecovery
     DEF Next, Keeper, Settle

-----------------------------------------------------------------------------
(* The invariant is inductive *)

LEMMA MoneyInit == Init => MoneyInv
<1> SUFFICES ASSUME Init PROVE MoneyInv
  OBVIOUS
<1>1. ClaimsInv
  BY ClaimsInit
<1>2. /\ \A k \in CircleIds \X Rounds \X MemberRefs :
           obligations[k].status = "Absent" /\ k \notin cured_deficits
      /\ \A k \in CircleIds \X Rounds :
           /\ payout_states[k].status = "Absent"
           /\ ledger[k].inflows = 0 /\ ledger[k].outflows = 0 /\ ledger[k].outstanding = 0
      /\ \A c \in CircleIds : circles[c].contribution_amount = 0
  BY DEF Init, NoObligation, NoPayout, NoLiability, NoCircle
<1>3. Owned /\ CuresOfDefaults /\ WholeClaims /\ RecoveriesFixed
  BY <1>2 DEF Owned, CuresOfDefaults, WholeClaims, WholeClaim, RecoveriesFixed, RecoveryFixed
<1>4. AllConserved
  <2> SUFFICES ASSUME NEW c \in CircleIds, NEW r \in Rounds PROVE Conserved(c, r)
    BY DEF AllConserved
  <2>1. Cardinality(Funded(c, r)) \in Nat
    BY <1>1, FundedFinite DEF ClaimsInv
  <2>2. QED
    BY <1>2, <2>1 DEF Conserved
<1>5. QED
  BY <1>1, <1>3, <1>4 DEF MoneyInv

LEMMA OwnedStep == MoneyInv /\ StepFacts => Owned' /\ CuresOfDefaults'
<1> SUFFICES ASSUME MoneyInv, StepFacts, NEW c \in CircleIds, NEW r \in Rounds,
                    NEW m \in MemberRefs
             PROVE  /\ obligations'[<<c, r, m>>].status # "Absent" =>
                         circles'[c].status # "Absent" /\ m \in Participants(c)'
                    /\ <<c, r, m>> \in cured_deficits' =>
                         obligations'[<<c, r, m>>].status = "MissedDefault"
  BY DEF Owned, CuresOfDefaults
<1> DEFINE o == obligations[<<c, r, m>>]
           q == obligations'[<<c, r, m>>]
<1>1. \/ q = o
      \/ o.status = "Absent" /\ circles[c].status # "Absent" /\ m \in Participants(c)
      \/ o.status = "Pending"
  BY DEF StepFacts, ObligationMoves
<1>2. circles[c].status # "Absent" =>
        circles'[c].status # "Absent" /\ Participants(c)' = Participants(c)
  BY DEF StepFacts, ConfigsFixed, Participants
<1>3. o.status # "Absent" => circles[c].status # "Absent" /\ m \in Participants(c)
  BY DEF MoneyInv, Owned
<1>4. <<c, r, m>> \in cured_deficits' => o.status = "MissedDefault"
  BY DEF StepFacts, SetsGrow, MoneyInv, CuresOfDefaults
<1>5. QED
  BY <1>1, <1>2, <1>3, <1>4

LEMMA WholeStep == MoneyInv /\ StepFacts => WholeClaims'
<1> SUFFICES ASSUME MoneyInv, StepFacts, NEW c \in CircleIds, NEW r \in Rounds,
                    payout_states'[<<c, r>>].status
                      \in {"Scheduled", "SettlementAuthorized", "Paid"}
             PROVE  Unresolved(c, r)' = {}
  BY DEF WholeClaims, WholeClaim
<1>1. /\ TypeInv /\ ClaimStep(c, r) /\ ClaimRecord(c, r) /\ WholeClaim(c, r)
  BY DEF MoneyInv, ClaimsInv, ClaimRecords, WholeClaims, StepFacts, ClaimSteps
<1>2. circles[c].status # "Absent" /\ AllDecided(c, r)
  BY <1>1 DEF ClaimRecord, ClaimStep, Recorded, Moved
<1>3. Unresolved(c, r) = {}
  <2>1. CASE payout_states[<<c, r>>].status \in {"Scheduled", "SettlementAuthorized", "Paid"}
    BY <1>1, <2>1 DEF WholeClaim
  <2>2. CASE payout_states[<<c, r>>].status \notin {"Scheduled", "SettlementAuthorized", "Paid"}
    <3>1. ~(calculate_round_unresolved_deficit(c, r) > 0)
      BY <1>1, <2>2 DEF ClaimStep, Recorded, Moved
    <3>2. QED
      BY <1>1, <1>2, <3>1, NoDeficit
  <2>3. QED
    BY <2>1, <2>2
<1>4. QED
  BY <1>1, <1>2, <1>3, DecidedStays

LEMMA RecoveriesStep ==
  ASSUME MoneyInv, LedgerSteps, ClaimAmountsHold
  PROVE  RecoveriesFixed'
<1> SUFFICES ASSUME NEW c \in CircleIds, NEW r \in Rounds PROVE RecoveryFixed(c, r)'
  BY DEF RecoveriesFixed
<1>1. LedgerStep(c, r) /\ RecoveryStep(c, r) /\ RecoveryFixed(c, r)
  BY DEF LedgerSteps, ClaimAmountsHold, MoneyInv, RecoveriesFixed
<1>2. CASE payout_states'[<<c, r>>].status \notin {"RecoveryPending", "NoFundedRecovery"}
  BY <1>2 DEF RecoveryFixed
<1>3. CASE /\ payout_states'[<<c, r>>].status \in {"RecoveryPending", "NoFundedRecovery"}
           /\ payout_states'[<<c, r>>] = payout_states[<<c, r>>]
           /\ recovery_amounts'[<<c, r>>] = recovery_amounts[<<c, r>>]
  <2>1. ledger'[<<c, r>>] = ledger[<<c, r>>]
    BY <1>1, <1>3 DEF LedgerStep, Kept, Credited, Debited, Closed
  <2>2. QED
    BY <1>1, <1>3, <2>1 DEF RecoveryFixed
<1>4. QED
  BY <1>1, <1>2, <1>3 DEF RecoveryStep

LEMMA MoneyStep == MoneyInv /\ [Next]_vars => MoneyInv'
<1> SUFFICES ASSUME MoneyInv, [Next]_vars PROVE MoneyInv'
  OBVIOUS
<1>1. ClaimsInv' /\ StepFacts
  BY ClaimsStep, AnyStep DEF MoneyInv
<1>2. TypeInv'
  BY <1>1 DEF ClaimsInv
<1>3. LedgerSteps /\ ClaimAmountsHold
  BY <1>1, <1>2, AnyMoney, AnyRecovery
<1>4. Owned' /\ CuresOfDefaults' /\ WholeClaims' /\ RecoveriesFixed'
  BY <1>1, <1>3, OwnedStep, WholeStep, RecoveriesStep
<1>5. AllConserved'
  BY <1>2, <1>3, ConservedStep DEF AllConserved, LedgerSteps
<1>6. QED
  BY <1>1, <1>4, <1>5 DEF MoneyInv

LEMMA MoneyInvariant == Spec => []MoneyInv
BY MoneyInit, MoneyStep, PTL DEF Spec

-----------------------------------------------------------------------------
(* One round at a time *)

LEMMA CreditMoves ==
  ASSUME MoneyInv, NEW c \in CircleIds, NEW r \in Rounds,
         circles[c].status # "Absent",
         payout_states[<<c, r>>].status \notin Closed,
         credit_round_liability(c, r, circles[c].contribution_amount)
  PROVE  OneRoundMoves
<1> DEFINE t == circles[c].asset
           a == circles[c].contribution_amount
<1>1. TypeOK /\ t \in Tokens /\ a \in Nat
  BY DEF MoneyInv, ClaimsInv, TypeInv, TypeOK, CircleRecord, ConfigsKept, Established
<1>2. /\ ledger'[<<c, r>>].outstanding = ledger[<<c, r>>].outstanding + a
      /\ \A k \in (CircleIds \X Rounds) \ {<<c, r>>} : ledger'[k] = ledger[k]
  BY <1>1, CreditLedger
<1>3. token_outstanding_liability'[t] = token_outstanding_liability[t] + a
  BY <1>1 DEF credit_round_liability, TypeOK
<1>4. ledger[<<c, r>>].outstanding \in Nat /\ token_outstanding_liability[t] \in Nat
  BY <1>1 DEF TypeOK, RoundLiability
<1>5. token_outstanding_liability'[t] + ledger[<<c, r>>].outstanding
        = token_outstanding_liability[t] + ledger'[<<c, r>>].outstanding
  BY <1>1, <1>2, <1>3, <1>4
<1>6. QED
  BY <1>2, <1>5 DEF OneRoundMoves

LEMMA DebitMoves ==
  ASSUME MoneyInv, NEW c \in CircleIds, NEW r \in Rounds, NEW a \in Nat,
         circles[c].status # "Absent",
         payout_states[<<c, r>>].status \notin Closed,
         debit_round_liability(c, r, a)
  PROVE  OneRoundMoves
<1> DEFINE t == circles[c].asset
<1>1. TypeOK /\ t \in Tokens
  BY DEF MoneyInv, ClaimsInv, TypeInv, ConfigsKept, Established
<1>2. /\ ledger'[<<c, r>>].outstanding = ledger[<<c, r>>].outstanding - a
      /\ \A k \in (CircleIds \X Rounds) \ {<<c, r>>} : ledger'[k] = ledger[k]
  BY <1>1, DebitLedger
<1>3. token_outstanding_liability'[t] = token_outstanding_liability[t] - a
  BY <1>1 DEF debit_round_liability, TypeOK
<1>4. ledger[<<c, r>>].outstanding \in Nat /\ token_outstanding_liability[t] \in Nat
  BY <1>1 DEF TypeOK, RoundLiability
<1>5. token_outstanding_liability'[t] + ledger[<<c, r>>].outstanding
        = token_outstanding_liability[t] + ledger'[<<c, r>>].outstanding
  BY <1>2, <1>3, <1>4
<1>6. QED
  BY <1>2, <1>5 DEF OneRoundMoves

LEMMA ContributionMoves ==
  ASSUME MoneyInv, NEW caller, NEW c \in CircleIds, NEW r \in Rounds, NEW m \in MemberRefs,
         NEW token, NEW amount, NEW nonce,
         settle_contribution_from_helper(caller, c, r, m, token, amount, nonce)
  PROVE  OneRoundMoves
<1>1. /\ circles[c].status = "Active" /\ obligations[<<c, r, m>>].status = "Pending"
      /\ credit_round_liability(c, r, circles[c].contribution_amount)
  BY DEF settle_contribution_from_helper
<1>2. m \in Participants(c) /\ ClaimRecord(c, r)
  BY <1>1 DEF MoneyInv, Owned, ClaimsInv, ClaimRecords
<1>3. payout_states[<<c, r>>].status = "Absent"
  BY <1>1, <1>2 DEF ClaimRecord, AllDecided
<1>4. QED
  BY <1>1, <1>3, CreditMoves DEF Closed

LEMMA CureMoves ==
  ASSUME MoneyInv, NEW caller, NEW c \in CircleIds, NEW r \in Rounds, NEW m \in MemberRefs,
         NEW token, NEW amount, NEW nonce,
         settle_cure_from_helper(caller, c, r, m, token, amount, nonce)
  PROVE  OneRoundMoves
<1>1. /\ obligations[<<c, r, m>>].status = "MissedDefault"
      /\ <<c, r, m>> \notin cured_deficits /\ <<c, r, m>> \notin cure_windows_closed
      /\ credit_round_liability(c, r, circles[c].contribution_amount)
  BY DEF settle_cure_from_helper
<1>2. circles[c].status # "Absent" /\ m \in Participants(c)
  BY <1>1 DEF MoneyInv, Owned
<1>3. m \in Unresolved(c, r)
  BY <1>1, <1>2 DEF Unresolved
<1>4. payout_states[<<c, r>>].status \in {"Absent", "DeferredLocked"}
  BY <1>1, <1>3 DEF MoneyInv, ClaimsInv, NoCureBehindClaim
<1>5. QED
  BY <1>1, <1>2, <1>4, CreditMoves DEF Closed

LEMMA ClaimMovesMoney ==
  ASSUME MoneyInv, NEW caller, NEW c \in CircleIds, NEW r \in Rounds, NEW token, NEW nonce,
         \/ settle_payout_from_helper(caller, c, r, token, nonce)
         \/ settle_recovery_from_helper(caller, c, r, token, nonce)
  PROVE  OneRoundMoves
<1>1. payout_states[<<c, r>>].status \in {"SettlementAuthorized", "RecoveryPending"}
  BY DEF settle_payout_from_helper, settle_recovery_from_helper
<1>2. circles[c].status # "Absent"
  BY <1>1 DEF MoneyInv, ClaimsInv, ClaimRecords, ClaimRecord
<1>3. payout_states[<<c, r>>].amount \in Nat /\ recovery_amounts[<<c, r>>] \in Nat
  BY DEF MoneyInv, ClaimsInv, TypeInv, TypeOK, PayoutState
<1>4. \/ debit_round_liability(c, r, payout_states[<<c, r>>].amount)
      \/ debit_round_liability(c, r, recovery_amounts[<<c, r>>])
  BY DEF settle_payout_from_helper, settle_recovery_from_helper
<1>5. QED
  BY <1>1, <1>2, <1>3, <1>4, DebitMoves DEF Closed

LEMMA AnyMoves == MoneyInv /\ [Next]_vars => OneRoundMoves
<1> SUFFICES ASSUME MoneyInv, [Next]_vars PROVE OneRoundMoves
  OBVIOUS
<1>1. ASSUME UNCHANGED ledger PROVE OneRoundMoves
  BY <1>1 DEF OneRoundMoves
<1>2. CASE Tick \/ UNCHANGED vars
  BY <1>1, <1>2 DEF Tick, vars, money
<1>3. ASSUME NEW cfg, create_circle(cfg) PROVE OneRoundMoves
  BY <1>1, <1>3 DEF create_circle, money
<1>4. ASSUME NEW caller, NEW helper, initialize_settlement_helper(caller, helper)
      PROVE  OneRoundMoves
  BY <1>1, <1>4 DEF initialize_settlement_helper, money
<1>5. ASSUME NEW c, NEW m, join_circle(c, m) PROVE OneRoundMoves
  BY <1>1, <1>5 DEF join_circle, money
<1>6. ASSUME NEW c, NEW r, NEW m, finalize_contribution_default(c, r, m)
      PROVE  OneRoundMoves
  BY <1>1, <1>6 DEF finalize_contribution_default, money
<1>7. ASSUME NEW c, NEW r, finalize_round_payout_accounting(c, r) PROVE OneRoundMoves
  BY <1>1, <1>7 DEF finalize_round_payout_accounting, money
<1>8. ASSUME NEW c, NEW r, NEW nonce, authorize_payout_settlement(c, r, nonce)
      PROVE  OneRoundMoves
  BY <1>1, <1>8 DEF authorize_payout_settlement, money
<1>9. ASSUME NEW c, prepare_final_settlement(c) PROVE OneRoundMoves
  BY <1>1, <1>9 DEF prepare_final_settlement, money
<1>10. QED
  BY <1>2, <1>3, <1>4, <1>5, <1>6, <1>7, <1>8, <1>9,
     ContributionMoves, CureMoves, ClaimMovesMoney DEF Next, Keeper, Settle

-----------------------------------------------------------------------------
(* Circles keep their terms *)

TermsKept(c) ==
  /\ circles'[c].asset = circles[c].asset
  /\ circles'[c].contribution_amount = circles[c].contribution_amount
  /\ circles'[c].status # "Absent" => circles[c].status # "Absent"

Opened(c) ==
  /\ circles[c].status = "Absent"
  /\ circles'[c].contribution_amount \in Amounts

LEMMA UpdateKeepsTerms ==
  ASSUME TypeOK, NEW c \in CircleIds, circles[c].status # "Absent", NEW n, NEW s,
         \/ circles' = [circles EXCEPT ![c] =
                          [circles[c] EXCEPT !.joined_count = n, !.status = s]]
         \/ circles' = [circles EXCEPT ![c] = [circles[c] EXCEPT !.current_round = n]]
         \/ circles' = [circles EXCEPT ![c] = [circles[c] EXCEPT !.status = s]],
         NEW d \in CircleIds
  PROVE  TermsKept(d)
<1>1. circles[c] \in CircleRecord
  BY DEF TypeOK
<1>2. PICK rec : /\ circles' = [circles EXCEPT ![c] = rec]
                 /\ rec.asset = circles[c].asset
                 /\ rec.contribution_amount = circles[c].contribution_amount
  BY <1>1 DEF CircleRecord
<1>3. QED
  BY <1>2 DEF TermsKept, TypeOK

LEMMA SettleLeavesCircles ==
  ASSUME NEW c, NEW r, Settle(c, r)
  PROVE  UNCHANGED circles
<1>1. ASSUME NEW caller, NEW token, NEW nonce, NEW m, NEW amount,
             settle_contribution_from_helper(caller, c, r, m, token, amount, nonce)
      PROVE  UNCHANGED circles
  BY <1>1 DEF settle_contribution_from_helper, lifecycle
<1>2. ASSUME NEW caller, NEW token, NEW nonce, NEW m, NEW amount,
             settle_cure_from_helper(caller, c, r, m, token, amount, nonce)
      PROVE  UNCHANGED circles
  BY <1>2 DEF settle_cure_from_helper, lifecycle
<1>3. ASSUME NEW caller, NEW token, NEW nonce,
             settle_payout_from_helper(caller, c, r, token, nonce)
      PROVE  UNCHANGED circles
  BY <1>3 DEF settle_payout_from_helper, lifecycle
<1>4. ASSUME NEW caller, NEW token, NEW nonce,
             settle_recovery_from_helper(caller, c, r, token, nonce)
      PROVE  UNCHANGED circles
  BY <1>4 DEF settle_recovery_from_helper, lifecycle
<1>5. QED
  BY <1>1, <1>2, <1>3, <1>4 DEF Settle

LEMMA CircleTerms ==
  ASSUME ClaimsInv, [Next]_vars, NEW d \in CircleIds
  PROVE  TermsKept(d) \/ Opened(d)
<1>1. TypeOK
  BY DEF ClaimsInv, TypeInv
<1>2. ASSUME UNCHANGED circles PROVE TermsKept(d)
  BY <1>2 DEF TermsKept
<1>3. CASE Tick \/ UNCHANGED vars
  BY <1>2, <1>3 DEF Tick, vars, lifecycle
<1>4. ASSUME NEW cfg \in Configs, create_circle(cfg) PROVE TermsKept(d) \/ Opened(d)
  <2> DEFINE id == next_circle_id + 1
             rec == [asset |-> cfg.token, contribution_amount |-> cfg.contribution_amount,
                     cadence_seconds |-> cfg.cadence_seconds,
                     grace_period_seconds |-> cfg.grace_period_seconds,
                     member_limit |-> cfg.member_limit, current_round |-> 1,
                     status |-> "OpenForMembers", joined_count |-> 0,
                     payout_order |-> cfg.payout_order]
  <2>1. id \in CircleIds /\ circles' = [circles EXCEPT ![id] = rec]
    BY <1>4 DEF create_circle
  <2>2. circles[id].status = "Absent"
    BY <1>1, <2>1 DEF ClaimsInv, Counted, TypeOK
  <2>3. rec.contribution_amount \in Amounts
    BY DEF Amounts
  <2> HIDE DEF id, rec
  <2>4. CASE d = id
    BY <1>1, <2>1, <2>2, <2>3, <2>4 DEF Opened, TypeOK
  <2>5. CASE d # id
    BY <1>1, <2>1, <2>5 DEF TermsKept, TypeOK
  <2>6. QED
    BY <2>4, <2>5
<1>5. ASSUME NEW caller, NEW helper, initialize_settlement_helper(caller, helper)
      PROVE  TermsKept(d)
  BY <1>2, <1>5 DEF initialize_settlement_helper
<1>6. ASSUME NEW c \in CircleIds, NEW m, join_circle(c, m) PROVE TermsKept(d)
  BY <1>1, <1>6, UpdateKeepsTerms DEF join_circle
<1>7. ASSUME NEW c, NEW r, NEW m, finalize_contribution_default(c, r, m) PROVE TermsKept(d)
  BY <1>2, <1>7 DEF finalize_contribution_default, lifecycle
<1>8. ASSUME NEW c \in CircleIds, NEW r, finalize_round_payout_accounting(c, r)
      PROVE  TermsKept(d)
  BY <1>1, <1>2, <1>8, UpdateKeepsTerms DEF finalize_round_payout_accounting
<1>9. ASSUME NEW c, NEW r, NEW nonce, authorize_payout_settlement(c, r, nonce)
      PROVE  TermsKept(d)
  BY <1>2, <1>9 DEF authorize_payout_settlement, lifecycle
<1>10. ASSUME NEW c \in CircleIds, prepare_final_settlement(c) PROVE TermsKept(d)
  BY <1>1, <1>10, UpdateKeepsTerms DEF prepare_final_settlement
<1>11. ASSUME NEW c, NEW r, Settle(c, r) PROVE TermsKept(d)
  BY <1>2, <1>11, SettleLeavesCircles
<1>12. QED
  BY <1>3, <1>4, <1>5, <1>6, <1>7, <1>8, <1>9, <1>10, <1>11 DEF Next, Keeper

\* A circle that is not there holds nothing.
LEMMA AbsentHoldsNothing ==
  ASSUME MoneyInv, NEW c \in CircleIds, NEW r \in Rounds, circles[c].status = "Absent"
  PROVE  ledger[<<c, r>>].outstanding = 0
<1>1. TypeInv /\ Conserved(c, r)
  BY DEF MoneyInv, ClaimsInv, AllConserved
<1>2. \A m \in MemberRefs : /\ obligations[<<c, r, m>>].status = "Absent"
                            /\ <<c, r, m>> \notin cured_deficits
  BY DEF MoneyInv, Owned, CuresOfDefaults
<1>3. Participants(c) \subseteq MemberRefs
  BY <1>1, ParticipantsFinite
<1>4. Funded(c, r) = {}
  BY <1>2, <1>3 DEF Funded
<1>5. Cardinality(Funded(c, r)) = 0
  BY <1>4, FS_EmptySet
<1>6. circles[c].contribution_amount \in Nat
  BY <1>1 DEF TypeInv, TypeOK, CircleRecord
<1>7. ledger[<<c, r>>].inflows = 0
  BY <1>1, <1>5, <1>6 DEF Conserved
<1>8. QED
  BY <1>1, <1>7 DEF Conserved

-----------------------------------------------------------------------------
(* The books of a token *)

Books == CircleIds \X Rounds

\* What each round holds of token t.
HeldOf(t) ==
  [k \in CircleIds \X Rounds |->
     IF circles[k[1]].asset = t THEN ledger[k].outstanding ELSE 0]

TotalOf(t) == token_outstanding_liability[t] = Total(HeldOf(t), Books)

LEMMA BooksFinite == IsFiniteSet(Books)
<1>1. IsFiniteSet(CircleIds) /\ IsFiniteSet(Rounds)
  BY BoundsAssumption, FS_Interval DEF CircleIds, Rounds
<1>2. QED
  BY <1>1, FS_Product DEF Books

AllTotals == \A t \in Tokens : TotalOf(t)

LEMMA TotalsOfAll == AllTotals => TokenTotals
BY DEF AllTotals, TokenTotals, TotalOf, HeldOf, Books, Total

\* Money moves by a credit or a debit of one round, and in no other way.
MovedBy(c, r, a) ==
  /\ circles[c].status # "Absent"
  /\ UNCHANGED circles
  /\ credit_round_liability(c, r, a) \/ debit_round_liability(c, r, a)

NoneMoved == UNCHANGED <<ledger, token_outstanding_liability>>

LEMMA InboundMoves ==
  ASSUME MoneyInv, NEW caller, NEW c \in CircleIds, NEW r \in Rounds, NEW m \in MemberRefs,
         NEW token, NEW amount, NEW nonce,
         \/ settle_contribution_from_helper(caller, c, r, m, token, amount, nonce)
         \/ settle_cure_from_helper(caller, c, r, m, token, amount, nonce)
  PROVE  \E a \in Nat : MovedBy(c, r, a)
<1>1. /\ circles[c].status # "Absent" /\ UNCHANGED circles
      /\ credit_round_liability(c, r, circles[c].contribution_amount)
  BY DEF settle_contribution_from_helper, settle_cure_from_helper, lifecycle, MoneyInv, Owned
<1>2. circles[c].contribution_amount \in Nat
  BY DEF MoneyInv, ClaimsInv, TypeInv, TypeOK, CircleRecord
<1>3. QED
  BY <1>1, <1>2 DEF MovedBy

LEMMA OutboundMoves ==
  ASSUME MoneyInv, NEW caller, NEW c \in CircleIds, NEW r \in Rounds, NEW token, NEW nonce,
         \/ settle_payout_from_helper(caller, c, r, token, nonce)
         \/ settle_recovery_from_helper(caller, c, r, token, nonce)
  PROVE  \E a \in Nat : MovedBy(c, r, a)
<1>1. payout_states[<<c, r>>].status \in {"SettlementAuthorized", "RecoveryPending"}
  BY DEF settle_payout_from_helper, settle_recovery_from_helper
<1>2. circles[c].status # "Absent"
  BY <1>1 DEF MoneyInv, ClaimsInv, ClaimRecords, ClaimRecord
<1>3. payout_states[<<c, r>>].amount \in Nat /\ recovery_amounts[<<c, r>>] \in Nat
  BY DEF MoneyInv, ClaimsInv, TypeInv, TypeOK, PayoutState
<1>4. /\ UNCHANGED circles
      /\ \/ debit_round_liability(c, r, payout_states[<<c, r>>].amount)
         \/ debit_round_liability(c, r, recovery_amounts[<<c, r>>])
  BY DEF settle_payout_from_helper, settle_recovery_from_helper, lifecycle
<1>5. QED
  BY <1>2, <1>3, <1>4 DEF MovedBy

LEMMA StepMovesMoney ==
  ASSUME MoneyInv, [Next]_vars
  PROVE  NoneMoved \/ \E c \in CircleIds, r \in Rounds, a \in Nat : MovedBy(c, r, a)
<1>1. CASE Tick \/ UNCHANGED vars
  BY <1>1 DEF Tick, vars, money, NoneMoved
<1>2. ASSUME NEW cfg, create_circle(cfg) PROVE NoneMoved
  BY <1>2 DEF create_circle, money, NoneMoved
<1>3. ASSUME NEW caller, NEW helper, initialize_settlement_helper(caller, helper)
      PROVE  NoneMoved
  BY <1>3 DEF initialize_settlement_helper, money, NoneMoved
<1>4. ASSUME NEW c, NEW m, join_circle(c, m) PROVE NoneMoved
  BY <1>4 DEF join_circle, money, NoneMoved
<1>5. ASSUME NEW c, NEW r, NEW m, finalize_contribution_default(c, r, m) PROVE NoneMoved
  BY <1>5 DEF finalize_contribution_default, money, NoneMoved
<1>6. ASSUME NEW c, NEW r, finalize_round_payout_accounting(c, r) PROVE NoneMoved
  BY <1>6 DEF finalize_round_payout_accounting, money, NoneMoved
<1>7. ASSUME NEW c, NEW r, NEW nonce, authorize_payout_settlement(c, r, nonce) PROVE NoneMoved
  BY <1>7 DEF authorize_payout_settlement, money, NoneMoved
<1>8. ASSUME NEW c, prepare_final_settlement(c) PROVE NoneMoved
  BY <1>8 DEF prepare_final_settlement, money, NoneMoved
<1>9. ASSUME NEW c \in CircleIds, NEW r \in Rounds, Settle(c, r)
      PROVE  \E a \in Nat : MovedBy(c, r, a)
  BY <1>9, InboundMoves, OutboundMoves DEF Settle
<1>10. QED
  BY <1>1, <1>2, <1>3, <1>4, <1>5, <1>6, <1>7, <1>8, <1>9 DEF Next, Keeper

\* What a credit or a debit leaves in the two books, in one equation.
LEMMA MovedBooks ==
  ASSUME TypeInv, NEW c \in CircleIds, NEW r \in Rounds, NEW a \in Nat, MovedBy(c, r, a)
  PROVE  LET t == circles[c].asset
         IN  /\ t \in Tokens
             /\ token_outstanding_liability'[t] + ledger[<<c, r>>].outstanding
                  = token_outstanding_liability[t] + ledger'[<<c, r>>].outstanding
             /\ \A u \in Tokens \ {t} :
                  token_outstanding_liability'[u] = token_outstanding_liability[u]
             /\ \A k \in Books \ {<<c, r>>} : ledger'[k] = ledger[k]
<1> DEFINE t == circles[c].asset
<1>1. TypeOK /\ t \in Tokens
  BY DEF TypeInv, ConfigsKept, Established, MovedBy
<1>2. token_outstanding_liability \in [Tokens -> Nat] /\ ledger[<<c, r>>].outstanding \in Nat
  BY <1>1 DEF TypeOK, RoundLiability
<1>3. CASE credit_round_liability(c, r, a)
  <2>1. /\ ledger'[<<c, r>>].outstanding = ledger[<<c, r>>].outstanding + a
        /\ \A k \in Books \ {<<c, r>>} : ledger'[k] = ledger[k]
    BY <1>1, <1>3, CreditLedger DEF Books
  <2>2. /\ token_outstanding_liability'[t] = token_outstanding_liability[t] + a
        /\ \A u \in Tokens \ {t} :
             token_outstanding_liability'[u] = token_outstanding_liability[u]
    BY <1>1, <1>2, <1>3 DEF credit_round_liability
  <2>3. token_outstanding_liability[t] \in Nat
    BY <1>1, <1>2
  <2>4. QED
    BY <1>1, <1>2, <2>1, <2>2, <2>3
<1>4. CASE debit_round_liability(c, r, a)
  <2>1. /\ ledger'[<<c, r>>].outstanding = ledger[<<c, r>>].outstanding - a
        /\ \A k \in Books \ {<<c, r>>} : ledger'[k] = ledger[k]
    BY <1>1, <1>4, DebitLedger DEF Books
  <2>2. /\ token_outstanding_liability'[t] = token_outstanding_liability[t] - a
        /\ \A u \in Tokens \ {t} :
             token_outstanding_liability'[u] = token_outstanding_liability[u]
    BY <1>1, <1>2, <1>4 DEF debit_round_liability
  <2>3. token_outstanding_liability[t] \in Nat
    BY <1>1, <1>2
  <2>4. QED
    BY <1>1, <1>2, <2>1, <2>2, <2>3
<1>5. QED
  BY <1>3, <1>4 DEF MovedBy

\* The sum of a token keeps pace with its total.
LEMMA TotalMoves ==
  ASSUME TypeInv, TypeInv', NEW c \in CircleIds, NEW r \in Rounds, NEW a \in Nat,
         MovedBy(c, r, a), NEW t \in Tokens, TotalOf(t)
  PROVE  TotalOf(t)'
<1>1. PICK f : f = HeldOf(t)
  OBVIOUS
<1>2. PICK g : g = HeldOf(t)'
  OBVIOUS
<1>3. PICK k \in Books : k = <<c, r>>
  <2>1. <<c, r>> \in Books
    BY DEF Books
  <2>2. QED
    BY <2>1
<1>4. /\ \A j \in Books : f[j] = IF circles[j[1]].asset = t THEN ledger[j].outstanding ELSE 0
      /\ \A j \in Books : g[j] = IF circles[j[1]].asset = t THEN ledger'[j].outstanding ELSE 0
  BY <1>1, <1>2 DEF HeldOf, Books, MovedBy
<1>5. /\ \A j \in Books : f[j] \in Nat /\ g[j] \in Nat
      /\ \A j \in Books \ {k} : g[j] = f[j]
  <2>1. \A j \in Books : ledger[j].outstanding \in Nat /\ ledger'[j].outstanding \in Nat
    BY DEF TypeInv, TypeOK, RoundLiability, Books
  <2>2. \A j \in Books \ {k} : ledger'[j] = ledger[j]
    BY <1>3, MovedBooks
  <2>3. QED
    BY <1>4, <2>1, <2>2
<1>6. Total(g, Books) + f[k] = Total(f, Books) + g[k]
  BY ONLY <1>3, <1>5, BooksFinite, TotalChange
<1>7. Total(f, Books) \in Nat /\ Total(g, Books) \in Nat
  BY <1>5, BooksFinite, TotalType
<1>8. token_outstanding_liability[t] \in Nat /\ token_outstanding_liability'[t] \in Nat
  BY DEF TypeInv, TypeOK
<1>9. token_outstanding_liability'[t] + f[k] = token_outstanding_liability[t] + g[k]
  <2>1. k[1] = c
    BY <1>3
  <2>2. CASE circles[c].asset = t
    BY <1>3, <1>4, <2>1, <2>2, MovedBooks
  <2>3. CASE circles[c].asset # t
    BY <1>3, <1>4, <1>8, <2>1, <2>3, MovedBooks
  <2>4. QED
    BY <2>2, <2>3
<1>10. token_outstanding_liability[t] = Total(f, Books)
  BY <1>1 DEF TotalOf
<1>11. token_outstanding_liability'[t] = Total(g, Books)
  BY <1>3, <1>5, <1>6, <1>7, <1>8, <1>9, <1>10
<1>12. QED
  BY <1>2, <1>11 DEF TotalOf, Books

\* Where no money moves, a circle may still be created; it holds nothing yet.
LEMMA TotalStays ==
  ASSUME MoneyInv, [Next]_vars, NoneMoved, NEW t \in Tokens, TotalOf(t)
  PROVE  TotalOf(t)'
<1>1. PICK f : f = HeldOf(t)
  OBVIOUS
<1>2. PICK g : g = HeldOf(t)'
  OBVIOUS
<1>3. ASSUME NEW c \in CircleIds, NEW r \in Rounds PROVE f[<<c, r>>] = g[<<c, r>>]
  <2>1. /\ f[<<c, r>>] = IF circles[c].asset = t THEN ledger[<<c, r>>].outstanding ELSE 0
        /\ g[<<c, r>>] = IF circles'[c].asset = t THEN ledger'[<<c, r>>].outstanding ELSE 0
    BY <1>1, <1>2 DEF HeldOf
  <2>2. CASE TermsKept(c)
    BY <2>1, <2>2 DEF TermsKept, NoneMoved
  <2>3. CASE Opened(c)
    <3>1. ledger[<<c, r>>].outstanding = 0
      BY <2>3, AbsentHoldsNothing DEF Opened
    <3>2. QED
      BY <2>1, <3>1 DEF NoneMoved
  <2>4. QED
    BY <2>2, <2>3, CircleTerms DEF MoneyInv
<1>4. \A k \in Books : f[k] = g[k]
  BY <1>3 DEF Books
<1>5. Total(f, Books) = Total(g, Books)
  BY <1>4, BooksFinite, TotalCongruence
<1>6. QED
  BY <1>1, <1>2, <1>5 DEF TotalOf, Books, NoneMoved

LEMMA TotalsInit == Init => AllTotals
<1> SUFFICES ASSUME Init, NEW t \in Tokens PROVE TotalOf(t)
  BY DEF AllTotals
<1>1. \A k \in Books : HeldOf(t)[k] = 0
  BY DEF Init, NoLiability, HeldOf, Books
<1>2. Total(HeldOf(t), Books) = 0
  BY <1>1, BooksFinite, TotalZero
<1>3. QED
  BY <1>2 DEF Init, TotalOf

LEMMA TotalsStep == MoneyInv /\ AllTotals /\ [Next]_vars => AllTotals'
<1> SUFFICES ASSUME MoneyInv, AllTotals, [Next]_vars, NEW t \in Tokens PROVE TotalOf(t)'
  BY DEF AllTotals
<1>1. TypeInv /\ TypeInv'
  BY MoneyStep DEF MoneyInv, ClaimsInv
<1>2. TotalOf(t)
  BY DEF AllTotals
<1>3. QED
  BY <1>1, <1>2, StepMovesMoney, TotalMoves, TotalStays

-----------------------------------------------------------------------------
(* Theorems about the money *)

\* The liability maps of a round, its history and its claim agree: what came in
\* is one contribution per member recorded as having paid or cured, and what
\* went out is nothing, or all of it once the claim is settled.
THEOREM RoundConservationHolds == Spec => []RoundConservation
<1>1. MoneyInv => RoundConservation
  BY DEF MoneyInv, AllConserved, Conserved, RoundConservation
<1>2. QED
  BY <1>1, MoneyInvariant, PTL

\* Every claim that a member may still settle is backed in full by its own
\* round, so debit_round_liability never refuses a rightful settlement.
THEOREM ClaimsBackedHolds == Spec => []ClaimsBacked
<1>1. ASSUME MoneyInv PROVE ClaimsBacked
  <2>1. ASSUME NEW c \in CircleIds, NEW r \in Rounds,
               payout_states[<<c, r>>].status \in {"Scheduled", "SettlementAuthorized"}
        PROVE  ledger[<<c, r>>].outstanding = payout_states[<<c, r>>].amount
    BY <1>1, <2>1, WholePot
  <2>2. RecoveriesFixed
    BY <1>1 DEF MoneyInv
  <2>3. QED
    BY <2>1, <2>2 DEF ClaimsBacked, RecoveriesFixed, RecoveryFixed
<1>2. QED
  BY <1>1, MoneyInvariant, PTL

\* No step moves money between rounds: it touches the ledger of one round whose
\* claim is still open, and the total of the circle's token by the same amount.
THEOREM OneRoundPerStepHolds == Spec => OneRoundPerStep
<1>1. MoneyInv /\ [Next]_vars => [OneRoundMoves]_vars
  BY AnyMoves
<1>2. QED
  BY <1>1, MoneyInvariant, PTL DEF Spec, OneRoundPerStep

\* What the contract owes in a token is, after any steps of any circles, the sum
\* of what the rounds of that token's circles still hold.
THEOREM TokenTotalsHolds == Spec => []TokenTotals
BY TotalsInit, TotalsStep, TotalsOfAll, MoneyInvariant, PTL DEF Spec

-----------------------------------------------------------------------------
(* The rounds: their invariant *)

Begun(c) == circles[c].status \in {"Active", "SettlementPending"}

Undecided == {"Absent", "Scheduled", "DeferredLocked"}

\* Nothing is recorded of a circle that is filling up.
Waiting(c) ==
  ~Begun(c) =>
    \A r \in Rounds : /\ payout_states[<<c, r>>].status = "Absent"
                      /\ \A m \in MemberRefs : obligations[<<c, r, m>>].status = "Absent"

\* The round a circle is in.
Counting(c) ==
  circles[c].status # "Absent" =>
    /\ circles[c].current_round >= 1
    /\ circles[c].current_round <= circles[c].member_limit
    /\ circles[c].status = "OpenForMembers" => circles[c].current_round = 1

\* Claims up to the current round, obligations up to it and including it.
RoundInOrder(c, r) ==
  /\ payout_states[<<c, r>>].status # "Absent" =>
       \/ r < circles[c].current_round
       \/ r = circles[c].current_round /\ r = circles[c].member_limit
  /\ r < circles[c].current_round => payout_states[<<c, r>>].status # "Absent"
  /\ \A m \in Participants(c) :
       obligations[<<c, r, m>>].status # "Absent" <=> r <= circles[c].current_round

InOrder(c) ==
  Begun(c) => /\ Participants(c) \subseteq joined[c]
              /\ \A r \in Rounds : RoundInOrder(c, r)

AllSettling(c) ==
  circles[c].status = "SettlementPending" =>
    \A r \in Rounds : r <= circles[c].member_limit =>
      payout_states[<<c, r>>].status \notin Undecided

Ordered(c) == Waiting(c) /\ Counting(c) /\ InOrder(c) /\ AllSettling(c)

RoundsInv == \A c \in CircleIds : Ordered(c)

-----------------------------------------------------------------------------
(* What a step may do to the rounds of a circle *)

SameClaims(c) ==
  \A r \in Rounds : payout_states'[<<c, r>>].status = "Absent"
                      <=> payout_states[<<c, r>>].status = "Absent"

SameObligations(c) ==
  \A r \in Rounds, m \in MemberRefs :
    obligations'[<<c, r, m>>].status = "Absent" <=> obligations[<<c, r, m>>].status = "Absent"

OpensRound(c, r) ==
  \A s \in Rounds, m \in MemberRefs :
    obligations'[<<c, s, m>>].status # "Absent" <=>
      obligations[<<c, s, m>>].status # "Absent" \/ (s = r /\ m \in Participants(c))

ClaimsRound(c, r) ==
  \A s \in Rounds :
    payout_states'[<<c, s>>].status # "Absent" <=>
      payout_states[<<c, s>>].status # "Absent" \/ s = r

\* The limit, the order and the joined members of the circle stay; it is in
\* status s and round n.
Continues(c, s, n) ==
  /\ circles'[c].status = s /\ circles'[c].current_round = n
  /\ circles'[c].member_limit = circles[c].member_limit
  /\ circles'[c].payout_order = circles[c].payout_order
  /\ joined[c] \subseteq joined'[c]

Stayed(c) ==
  /\ Continues(c, circles[c].status, circles[c].current_round)
  /\ SameClaims(c) /\ SameObligations(c)

Created(c) ==
  /\ circles[c].status = "Absent" /\ circles'[c].status = "OpenForMembers"
  /\ circles'[c].current_round = 1 /\ circles'[c].member_limit >= 1
  /\ SameClaims(c) /\ SameObligations(c)

Activated(c) ==
  /\ circles[c].status = "OpenForMembers"
  /\ Continues(c, "Active", circles[c].current_round)
  /\ SameClaims(c) /\ OpensRound(c, circles[c].current_round)
  /\ Participants(c) \subseteq joined'[c]

Advanced(c) ==
  /\ circles[c].status = "Active" /\ circles[c].current_round < circles[c].member_limit
  /\ Continues(c, "Active", circles[c].current_round + 1)
  /\ ClaimsRound(c, circles[c].current_round)
  /\ OpensRound(c, circles[c].current_round + 1)

Completed(c) ==
  /\ circles[c].status = "Active" /\ circles[c].current_round = circles[c].member_limit
  /\ Continues(c, "Active", circles[c].current_round)
  /\ ClaimsRound(c, circles[c].current_round) /\ SameObligations(c)

Prepared(c) ==
  /\ circles[c].status = "Active"
  /\ Continues(c, "SettlementPending", circles[c].current_round)
  /\ SameClaims(c) /\ SameObligations(c)
  /\ \A r \in Rounds : r <= circles[c].member_limit =>
       payout_states'[<<c, r>>].status \notin Undecided

RoundStep(c) ==
  Stayed(c) \/ Created(c) \/ Activated(c) \/ Advanced(c) \/ Completed(c) \/ Prepared(c)

RoundSteps == \A c \in CircleIds : RoundStep(c)

-----------------------------------------------------------------------------
(* A step of that kind keeps the order *)

LEMMA OrderedStep ==
  ASSUME ClaimsInv, TypeOK', StepFacts, NEW c \in CircleIds, Ordered(c), RoundStep(c)
  PROVE  Ordered(c)'
<1> DEFINE n == circles[c].current_round
           limit == circles[c].member_limit
<1>1. /\ TypeInv /\ n \in Nat /\ limit \in Nat /\ Rounds \subseteq Nat
      /\ Participants(c) \subseteq MemberRefs
  <2>1. TypeInv
    BY DEF ClaimsInv
  <2>2. n \in Nat /\ limit \in Nat
    BY <2>1 DEF TypeInv, TypeOK, CircleRecord
  <2>3. Rounds \subseteq Nat
    BY BoundsAssumption DEF Rounds
  <2>4. Participants(c) \subseteq MemberRefs
    BY <2>1, ParticipantsFinite
  <2>5. QED
    BY <2>1, <2>2, <2>3, <2>4
<1>2. Waiting(c) /\ Counting(c) /\ InOrder(c) /\ AllSettling(c)
  BY DEF Ordered
<1>3. \A r \in Rounds : ClaimStep(c, r)
  BY DEF StepFacts, ClaimSteps
<1>4. ASSUME NEW s, NEW k, Continues(c, s, k) PROVE Participants(c)' = Participants(c)
  BY <1>4 DEF Continues, Participants
<1>5. CASE Stayed(c)
  <2>1. /\ circles'[c].status = circles[c].status /\ circles'[c].current_round = n
        /\ circles'[c].member_limit = limit /\ Participants(c)' = Participants(c)
        /\ joined[c] \subseteq joined'[c] /\ SameClaims(c) /\ SameObligations(c)
    BY <1>4, <1>5 DEF Stayed, Continues
  <2>2. Waiting(c)' /\ Counting(c)'
    BY <1>2, <2>1 DEF Waiting, Counting, Begun, SameClaims, SameObligations
  <2>3. ASSUME NEW r \in Rounds, RoundInOrder(c, r) PROVE RoundInOrder(c, r)'
    BY <1>1, <2>1, <2>3 DEF RoundInOrder, SameClaims, SameObligations
  <2>4. InOrder(c)'
    BY <1>2, <2>1, <2>3 DEF InOrder, Begun
  <2>5. AllSettling(c)'
    BY <1>1, <1>2, <1>3, <2>1 DEF AllSettling, Undecided, ClaimStep, Recorded, Moved
  <2>6. QED
    BY <2>2, <2>4, <2>5 DEF Ordered
<1>6. CASE Created(c)
  <2>1. Waiting(c)'
    BY <1>2, <1>6 DEF Created, Waiting, Begun, SameClaims, SameObligations
  <2>2. Counting(c)'
    BY <1>6 DEF Created, Counting
  <2>3. InOrder(c)' /\ AllSettling(c)'
    BY <1>6 DEF Created, InOrder, Begun, AllSettling
  <2>4. QED
    BY <2>1, <2>2, <2>3 DEF Ordered
<1>7. CASE Activated(c)
  <2>1. /\ circles'[c].status = "Active" /\ circles'[c].current_round = n /\ n = 1
        /\ circles'[c].member_limit = limit /\ Participants(c)' = Participants(c)
        /\ Participants(c) \subseteq joined'[c] /\ SameClaims(c) /\ OpensRound(c, n)
        /\ n >= 1 /\ n <= limit
    BY <1>2, <1>4, <1>7 DEF Activated, Continues, Counting
  <2>2. \A r \in Rounds : /\ payout_states[<<c, r>>].status = "Absent"
                          /\ \A m \in MemberRefs : obligations[<<c, r, m>>].status = "Absent"
    BY <1>2, <1>7 DEF Activated, Waiting, Begun
  <2>3. Waiting(c)' /\ Counting(c)' /\ AllSettling(c)'
    BY <2>1 DEF Waiting, Begun, Counting, AllSettling
  <2>4. InOrder(c)'
    <3>1. ASSUME NEW r \in Rounds PROVE RoundInOrder(c, r)'
      <4>1. r >= 1 /\ r \in Nat
        BY BoundsAssumption DEF Rounds
      <4>2. payout_states'[<<c, r>>].status = "Absent"
        BY <2>1, <2>2 DEF SameClaims
      <4>3. ASSUME NEW m \in Participants(c)
            PROVE  obligations'[<<c, r, m>>].status # "Absent" <=> r <= 1
        <5>1. obligations'[<<c, r, m>>].status # "Absent" <=> r = 1
          BY <1>1, <2>1, <2>2 DEF OpensRound
        <5>2. r <= 1 <=> r = 1
          BY <4>1
        <5>3. QED
          BY <5>1, <5>2
      <4>4. QED
        BY <2>1, <4>1, <4>2, <4>3 DEF RoundInOrder
    <3>2. QED
      BY <2>1, <3>1 DEF InOrder
  <2>5. QED
    BY <2>3, <2>4 DEF Ordered
<1>8. CASE Advanced(c)
  <2>1. /\ circles[c].status = "Active" /\ circles'[c].status = "Active"
        /\ circles'[c].current_round = n + 1 /\ n < limit
        /\ circles'[c].member_limit = limit /\ Participants(c)' = Participants(c)
        /\ joined[c] \subseteq joined'[c] /\ ClaimsRound(c, n) /\ OpensRound(c, n + 1)
        /\ n >= 1
    BY <1>2, <1>4, <1>8 DEF Advanced, Continues, Counting
  <2>2. Waiting(c)' /\ Counting(c)' /\ AllSettling(c)'
    BY <1>1, <2>1 DEF Waiting, Begun, Counting, AllSettling
  <2>3. InOrder(c)'
    <3>1. ASSUME NEW r \in Rounds PROVE RoundInOrder(c, r)'
      <4>1. r \in Nat /\ RoundInOrder(c, r)
        BY <1>1, <1>2, <2>1 DEF InOrder, Begun
      <4>2. payout_states'[<<c, r>>].status # "Absent" <=> r < n + 1
        BY <1>1, <2>1, <4>1 DEF ClaimsRound, RoundInOrder
      <4>3. ASSUME NEW m \in Participants(c)
            PROVE  obligations'[<<c, r, m>>].status # "Absent" <=> r <= n + 1
        <5>1. obligations'[<<c, r, m>>].status # "Absent" <=>
                obligations[<<c, r, m>>].status # "Absent" \/ r = n + 1
          BY <1>1, <2>1 DEF OpensRound
        <5>2. obligations[<<c, r, m>>].status # "Absent" <=> r <= n
          BY <4>1 DEF RoundInOrder
        <5>3. r <= n + 1 <=> r <= n \/ r = n + 1
          BY <1>1, <4>1
        <5>4. QED
          BY <5>1, <5>2, <5>3
      <4>4. circles'[c].current_round = n + 1 /\ Participants(c)' = Participants(c)
        BY <2>1
      <4>5. QED
        BY <4>2, <4>3, <4>4 DEF RoundInOrder
    <3>2. Participants(c) \subseteq joined[c]
      BY <1>2, <2>1 DEF InOrder, Begun
    <3>3. QED
      BY <2>1, <3>1, <3>2 DEF InOrder
  <2>4. QED
    BY <2>2, <2>3 DEF Ordered
<1>9. CASE Completed(c)
  <2>1. /\ circles[c].status = "Active" /\ circles'[c].status = "Active"
        /\ circles'[c].current_round = n /\ n = limit
        /\ circles'[c].member_limit = limit /\ Participants(c)' = Participants(c)
        /\ joined[c] \subseteq joined'[c] /\ ClaimsRound(c, n) /\ SameObligations(c)
        /\ n >= 1
    BY <1>2, <1>4, <1>9 DEF Completed, Continues, Counting
  <2>2. Waiting(c)' /\ Counting(c)' /\ AllSettling(c)'
    BY <1>1, <2>1 DEF Waiting, Begun, Counting, AllSettling
  <2>3. ASSUME NEW r \in Rounds, RoundInOrder(c, r) PROVE RoundInOrder(c, r)'
    BY <1>1, <2>1, <2>3 DEF RoundInOrder, ClaimsRound, SameObligations
  <2>4. InOrder(c)'
    BY <1>2, <2>1, <2>3 DEF InOrder, Begun
  <2>5. QED
    BY <2>2, <2>4 DEF Ordered
<1>10. CASE Prepared(c)
  <2>1. /\ circles[c].status = "Active" /\ circles'[c].status = "SettlementPending"
        /\ circles'[c].current_round = n
        /\ circles'[c].member_limit = limit /\ Participants(c)' = Participants(c)
        /\ joined[c] \subseteq joined'[c] /\ SameClaims(c) /\ SameObligations(c)
    BY <1>4, <1>10 DEF Prepared, Continues
  <2>2. Waiting(c)' /\ Counting(c)'
    BY <1>2, <2>1 DEF Waiting, Begun, Counting
  <2>3. AllSettling(c)'
    BY <1>10, <2>1 DEF Prepared, AllSettling
  <2>4. ASSUME NEW r \in Rounds, RoundInOrder(c, r) PROVE RoundInOrder(c, r)'
    BY <1>1, <2>1, <2>4 DEF RoundInOrder, SameClaims, SameObligations
  <2>5. InOrder(c)'
    BY <1>2, <2>1, <2>4 DEF InOrder, Begun
  <2>6. QED
    BY <2>2, <2>3, <2>5 DEF Ordered
<1>11. QED
  BY <1>5, <1>6, <1>7, <1>8, <1>9, <1>10 DEF RoundStep

-----------------------------------------------------------------------------
(* Every step is of that kind *)

\* A step that neither records a claim nor opens a round.
LEMMA StaysSo ==
  ASSUME TypeOK, UNCHANGED <<circles, joined>>,
         \A c \in CircleIds : SameClaims(c) /\ SameObligations(c)
  PROVE  RoundSteps
BY DEF RoundSteps, RoundStep, Stayed, Continues

LEMMA ClaimsUnchanged ==
  /\ UNCHANGED payout_states => \A c \in CircleIds : SameClaims(c)
  /\ UNCHANGED obligations => \A c \in CircleIds : SameObligations(c)
BY DEF SameClaims, SameObligations

\* A claim, or an obligation, that is there is rewritten.
LEMMA OneClaimStays ==
  ASSUME TypeOK, NEW k \in CircleIds \X Rounds, NEW q,
         payout_states' = [payout_states EXCEPT ![k] = q],
         payout_states[k].status # "Absent", q.status # "Absent", NEW c \in CircleIds
  PROVE  SameClaims(c)
BY DEF SameClaims, TypeOK

LEMMA OneObligationStays ==
  ASSUME TypeOK, NEW k \in CircleIds \X Rounds \X MemberRefs, NEW q,
         obligations' = [obligations EXCEPT ![k] = q],
         obligations[k].status # "Absent", q.status # "Absent", NEW c \in CircleIds
  PROVE  SameObligations(c)
BY DEF SameObligations, TypeOK

LEMMA OpeningOpens ==
  ASSUME TypeOK, NEW c \in CircleIds, NEW r, NEW members,
         create_round_obligations(c, r, members)
  PROVE  /\ OpensRound(c, r) /\ Participants(c) \subseteq members
         /\ \A d \in CircleIds \ {c} : SameObligations(d)
<1> DEFINE open == [status |-> "Pending", due_at |-> now + circles[c].cadence_seconds,
                    grace_ends_at |-> now + circles[c].cadence_seconds
                                        + circles[c].grace_period_seconds]
<1>1. obligations' = [k \in CircleIds \X Rounds \X MemberRefs |->
                        IF k[1] = c /\ k[2] = r /\ k[3] \in Participants(c)
                        THEN open ELSE obligations[k]]
  BY DEF create_round_obligations
<1>2. open.status = "Pending"
  OBVIOUS
<1>3. Participants(c) \subseteq members
  BY DEF create_round_obligations
<1> HIDE DEF open
<1>4. ASSUME NEW d \in CircleIds, NEW s \in Rounds, NEW m \in MemberRefs
      PROVE  obligations'[<<d, s, m>>] =
               IF d = c /\ s = r /\ m \in Participants(c) THEN open ELSE obligations[<<d, s, m>>]
  BY <1>1
<1>5. OpensRound(c, r)
  BY <1>2, <1>4 DEF OpensRound
<1>6. \A d \in CircleIds \ {c} : SameObligations(d)
  BY <1>4 DEF SameObligations
<1>7. QED
  BY <1>3, <1>5, <1>6

LEMMA CreateRounds ==
  ASSUME ClaimsInv, NEW cfg \in Configs, create_circle(cfg)
  PROVE  RoundSteps
<1> DEFINE id == next_circle_id + 1
           rec == [asset |-> cfg.token, contribution_amount |-> cfg.contribution_amount,
                   cadence_seconds |-> cfg.cadence_seconds,
                   grace_period_seconds |-> cfg.grace_period_seconds,
                   member_limit |-> cfg.member_limit, current_round |-> 1,
                   status |-> "OpenForMembers", joined_count |-> 0,
                   payout_order |-> cfg.payout_order]
<1>1. TypeOK /\ Counted
  BY DEF ClaimsInv, TypeInv
<1>2. /\ id \in CircleIds /\ circles' = [circles EXCEPT ![id] = rec]
      /\ UNCHANGED <<joined, payout_states, obligations>>
  BY DEF create_circle, history, claims
<1>3. circles[id].status = "Absent"
  BY <1>1, <1>2 DEF Counted, TypeOK
<1>4. rec.status = "OpenForMembers" /\ rec.current_round = 1 /\ rec.member_limit >= 1
  BY ConfigsAssumption DEF create_circle
<1> HIDE DEF id, rec
<1>5. \A d \in CircleIds : SameClaims(d) /\ SameObligations(d)
  BY <1>2, ClaimsUnchanged
<1>6. ASSUME NEW d \in CircleIds PROVE RoundStep(d)
  <2>1. CASE d = id
    <3>1. circles'[d] = rec
      BY <1>1, <1>2, <2>1 DEF TypeOK
    <3>2. Created(d)
      BY <1>3, <1>4, <1>5, <2>1, <3>1 DEF Created
    <3>3. QED
      BY <3>2 DEF RoundStep
  <2>2. CASE d # id
    <3>1. circles'[d] = circles[d]
      BY <1>1, <1>2, <2>2 DEF TypeOK
    <3>2. QED
      BY <1>2, <1>5, <3>1 DEF RoundStep, Stayed, Continues
  <2>3. QED
    BY <2>1, <2>2
<1>7. QED
  BY <1>6 DEF RoundSteps

LEMMA JoinRounds ==
  ASSUME TypeOK, NEW c \in CircleIds, NEW m \in MemberRefs, join_circle(c, m)
  PROVE  RoundSteps
<1> DEFINE count  == circles[c].joined_count + 1
           members == joined[c] \cup {m}
           status == IF count = circles[c].member_limit THEN "Active" ELSE circles[c].status
           rec == [circles[c] EXCEPT !.joined_count = count, !.status = status]
<1>1. /\ circles' = [circles EXCEPT ![c] = rec] /\ joined' = [joined EXCEPT ![c] = members]
      /\ circles[c].status = "OpenForMembers" /\ UNCHANGED payout_states
  BY DEF join_circle, claims
<1>2. \/ status = "Active" /\ create_round_obligations(c, circles[c].current_round, members)
      \/ status = circles[c].status /\ UNCHANGED obligations
  BY DEF join_circle
<1> HIDE DEF status, members
<1>3. /\ rec.status = status /\ rec.current_round = circles[c].current_round
      /\ rec.member_limit = circles[c].member_limit
      /\ rec.payout_order = circles[c].payout_order
  <2>1. circles[c] \in CircleRecord
    BY DEF TypeOK
  <2> HIDE DEF count
  <2>2. QED
    BY <2>1 DEF CircleRecord
<1> HIDE DEF rec
<1>4. circles'[c] = rec /\ joined'[c] = members /\ joined[c] \subseteq members
  BY <1>1 DEF TypeOK, members
<1>5. \A d \in CircleIds : SameClaims(d)
  BY <1>1, ClaimsUnchanged
<1>6. \A d \in CircleIds \ {c} : SameObligations(d)
  BY <1>2, ClaimsUnchanged, OpeningOpens
<1>7. RoundStep(c)
  <2>1. CASE status = "Active" /\ create_round_obligations(c, circles[c].current_round, members)
    <3>1. OpensRound(c, circles[c].current_round) /\ Participants(c) \subseteq members
      BY <2>1, OpeningOpens
    <3>2. Activated(c)
      BY <1>1, <1>3, <1>4, <1>5, <2>1, <3>1 DEF Activated, Continues
    <3>3. QED
      BY <3>2 DEF RoundStep
  <2>2. CASE status = circles[c].status /\ UNCHANGED obligations
    <3>1. SameObligations(c)
      BY <2>2, ClaimsUnchanged
    <3>2. Stayed(c)
      BY <1>3, <1>4, <1>5, <2>2, <3>1 DEF Stayed, Continues
    <3>3. QED
      BY <3>2 DEF RoundStep
  <2>3. QED
    BY <1>2, <2>1, <2>2
<1>8. ASSUME NEW d \in CircleIds \ {c} PROVE RoundStep(d)
  <2>1. circles'[d] = circles[d] /\ joined'[d] = joined[d]
    BY <1>1 DEF TypeOK
  <2>2. QED
    BY <1>5, <1>6, <2>1 DEF RoundStep, Stayed, Continues
<1>9. QED
  BY <1>7, <1>8 DEF RoundSteps

LEMMA FinalizeRounds ==
  ASSUME TypeOK, NEW c \in CircleIds, NEW r \in Rounds, finalize_round_payout_accounting(c, r)
  PROVE  RoundSteps
<1> DEFINE t == IF calculate_round_unresolved_deficit(c, r) > 0
                THEN "DeferredLocked" ELSE "Scheduled"
           q == [status |-> t, scheduled_member_ref |-> circles[c].payout_order[r],
                 amount |-> ScheduledAmount(c)]
           n == r + 1
           rec == [circles[c] EXCEPT !.current_round = n]
<1>1. /\ payout_states' = [payout_states EXCEPT ![<<c, r>>] = q]
      /\ circles[c].status = "Active" /\ r = circles[c].current_round /\ UNCHANGED joined
  BY DEF finalize_round_payout_accounting, ScheduledMember
<1>2. q.status # "Absent"
  OBVIOUS
<1>3. \/ /\ r < circles[c].member_limit /\ circles' = [circles EXCEPT ![c] = rec]
         /\ create_round_obligations(c, n, joined[c])
      \/ /\ r = circles[c].member_limit /\ UNCHANGED <<circles, obligations>>
  BY DEF finalize_round_payout_accounting
<1> HIDE DEF q
<1>4. ClaimsRound(c, r) /\ \A d \in CircleIds \ {c} : SameClaims(d)
  BY <1>1, <1>2 DEF TypeOK, ClaimsRound, SameClaims
<1>5. CASE /\ r < circles[c].member_limit /\ circles' = [circles EXCEPT ![c] = rec]
           /\ create_round_obligations(c, n, joined[c])
  <2> HIDE DEF n
  <2>1. OpensRound(c, n) /\ \A d \in CircleIds \ {c} : SameObligations(d)
    BY <1>5, OpeningOpens
  <2>2. /\ rec.status = circles[c].status /\ rec.current_round = n
        /\ rec.member_limit = circles[c].member_limit
        /\ rec.payout_order = circles[c].payout_order
    BY DEF TypeOK, CircleRecord
  <2> HIDE DEF rec
  <2>3. /\ circles'[c] = rec
        /\ \A d \in CircleIds \ {c} : circles'[d] = circles[d]
    BY <1>5 DEF TypeOK
  <2>4. Advanced(c)
    BY <1>1, <1>4, <1>5, <2>1, <2>2, <2>3 DEF Advanced, Continues, n
  <2>5. \A d \in CircleIds \ {c} : Stayed(d)
    BY <1>1, <1>4, <2>1, <2>3 DEF Stayed, Continues
  <2>6. QED
    BY <2>4, <2>5 DEF RoundSteps, RoundStep
<1>6. CASE r = circles[c].member_limit /\ UNCHANGED <<circles, obligations>>
  <2>1. \A d \in CircleIds : SameObligations(d)
    BY <1>6, ClaimsUnchanged
  <2>2. Completed(c)
    BY <1>1, <1>4, <1>6, <2>1 DEF Completed, Continues
  <2>3. \A d \in CircleIds \ {c} : Stayed(d)
    BY <1>1, <1>4, <1>6, <2>1 DEF Stayed, Continues
  <2>4. QED
    BY <2>2, <2>3 DEF RoundSteps, RoundStep
<1>7. QED
  BY <1>3, <1>5, <1>6

LEMMA PrepareRounds ==
  ASSUME TypeOK, NEW c \in CircleIds, prepare_final_settlement(c)
  PROVE  RoundSteps
<1> DEFINE recovery(r) == payout_states[<<c, r>>].amount
                            - calculate_round_unresolved_deficit(c, r)
           t(r) == IF recovery(r) = 0 THEN "NoFundedRecovery" ELSE "RecoveryPending"
           rec == [circles[c] EXCEPT !.status = "SettlementPending"]
<1>1. /\ circles[c].status = "Active" /\ NoneUndecided(c)
      /\ circles' = [circles EXCEPT ![c] = rec] /\ UNCHANGED <<joined, obligations>>
  BY DEF prepare_final_settlement
<1>2. \A d \in CircleIds, r \in Rounds :
        payout_states'[<<d, r>>] =
          IF d = c /\ r \in Deficient(c) THEN [payout_states[<<d, r>>] EXCEPT !.status = t(r)]
          ELSE payout_states[<<d, r>>]
  BY DEF prepare_final_settlement
<1>3. \A r \in Rounds : t(r) \in {"NoFundedRecovery", "RecoveryPending"}
  OBVIOUS
<1> HIDE DEF t, recovery
<1>4. \A d \in CircleIds, r \in Rounds :
        payout_states'[<<d, r>>].status =
          IF d = c /\ r \in Deficient(c) THEN t(r) ELSE payout_states[<<d, r>>].status
  BY <1>2 DEF TypeOK, PayoutState
<1>5. \A r \in Deficient(c) : payout_states[<<c, r>>].status = "DeferredLocked"
  BY DEF Deficient
<1>6. \A d \in CircleIds : SameClaims(d) /\ SameObligations(d)
  BY <1>1, <1>3, <1>4, <1>5, ClaimsUnchanged DEF SameClaims
<1>7. ASSUME NEW r \in Rounds, r <= circles[c].member_limit
      PROVE  payout_states'[<<c, r>>].status \notin Undecided
  <2>1. r \in 1..circles[c].member_limit
    BY <1>7, BoundsAssumption DEF Rounds, TypeOK, CircleRecord
  <2>2. \/ payout_states[<<c, r>>].status \in {"SettlementAuthorized", "Paid"}
        \/ r \in Deficient(c)
    BY <1>1, <2>1 DEF NoneUndecided
  <2>3. QED
    BY <1>3, <1>4, <2>2 DEF Undecided
<1>8. /\ rec.status = "SettlementPending" /\ rec.current_round = circles[c].current_round
      /\ rec.member_limit = circles[c].member_limit
      /\ rec.payout_order = circles[c].payout_order
  BY DEF TypeOK, CircleRecord
<1> HIDE DEF rec
<1>9. circles'[c] = rec /\ \A d \in CircleIds \ {c} : circles'[d] = circles[d]
  BY <1>1 DEF TypeOK
<1>10. Prepared(c)
  BY <1>1, <1>6, <1>7, <1>8, <1>9 DEF Prepared, Continues
<1>11. \A d \in CircleIds \ {c} : Stayed(d)
  BY <1>1, <1>6, <1>9 DEF Stayed, Continues
<1>12. QED
  BY <1>10, <1>11 DEF RoundSteps, RoundStep

\* The entry points that decide an obligation.
LEMMA DecideRounds ==
  ASSUME TypeOK, NEW c \in CircleIds, NEW r \in Rounds, NEW m \in MemberRefs,
         \/ \E caller, token, amount, nonce :
              settle_contribution_from_helper(caller, c, r, m, token, amount, nonce)
         \/ finalize_contribution_default(c, r, m)
  PROVE  RoundSteps
<1>1. UNCHANGED <<circles, joined, payout_states>>
  BY DEF settle_contribution_from_helper, finalize_contribution_default, lifecycle, claims
<1>2. PICK s \in Final :
        /\ obligations[<<c, r, m>>].status = "Pending"
        /\ obligations' = [obligations EXCEPT ![<<c, r, m>>] =
                             [obligations[<<c, r, m>>] EXCEPT !.status = s]]
  BY DEF settle_contribution_from_helper, finalize_contribution_default, Final
<1> DEFINE q == [obligations[<<c, r, m>>] EXCEPT !.status = s]
<1>3. q.status # "Absent"
  BY DEF TypeOK, Obligation, Final
<1> HIDE DEF q
<1>4. \A d \in CircleIds : SameObligations(d)
  BY <1>2, <1>3, OneObligationStays DEF q
<1>5. QED
  BY <1>1, <1>4, ClaimsUnchanged, StaysSo

\* The entry points that move a claim that is there.
LEMMA MovingRounds ==
  ASSUME TypeOK, NEW c \in CircleIds, NEW r \in Rounds, NEW nonce,
         \/ authorize_payout_settlement(c, r, nonce)
         \/ \E caller, token : settle_payout_from_helper(caller, c, r, token, nonce)
         \/ \E caller, token : settle_recovery_from_helper(caller, c, r, token, nonce)
  PROVE  RoundSteps
<1>1. UNCHANGED <<circles, joined, obligations>>
  BY DEF authorize_payout_settlement, settle_payout_from_helper, settle_recovery_from_helper,
         lifecycle, history
<1>2. PICK t \in {"SettlementAuthorized", "Paid", "Recovered"} :
        /\ payout_states[<<c, r>>].status # "Absent"
        /\ payout_states' = [payout_states EXCEPT ![<<c, r>>] = [@ EXCEPT !.status = t]]
  BY DEF authorize_payout_settlement, settle_payout_from_helper, settle_recovery_from_helper,
         Authorizable
<1> DEFINE q == [payout_states[<<c, r>>] EXCEPT !.status = t]
<1>3. q.status # "Absent"
  BY DEF TypeOK, PayoutState
<1> HIDE DEF q
<1>4. \A d \in CircleIds : SameClaims(d)
  BY <1>2, <1>3, OneClaimStays DEF q
<1>5. QED
  BY <1>1, <1>4, ClaimsUnchanged, StaysSo

LEMMA AnyRounds == ClaimsInv /\ [Next]_vars => RoundSteps
<1> SUFFICES ASSUME ClaimsInv, [Next]_vars PROVE RoundSteps
  OBVIOUS
<1>1. TypeOK
  BY DEF ClaimsInv, TypeInv
<1>2. ASSUME UNCHANGED <<circles, joined, payout_states, obligations>> PROVE RoundSteps
  BY <1>1, <1>2, ClaimsUnchanged, StaysSo
<1>3. CASE Tick \/ UNCHANGED vars
  BY <1>2, <1>3 DEF Tick, vars, lifecycle, history, claims
<1>4. ASSUME NEW caller, NEW helper, initialize_settlement_helper(caller, helper)
      PROVE  RoundSteps
  BY <1>2, <1>4 DEF initialize_settlement_helper, history, claims
<1>5. ASSUME NEW caller, NEW c, NEW r, NEW m, NEW token, NEW amount, NEW nonce,
             settle_cure_from_helper(caller, c, r, m, token, amount, nonce)
      PROVE  RoundSteps
  BY <1>2, <1>5 DEF settle_cure_from_helper, lifecycle, claims
<1>6. ASSUME NEW caller, NEW c \in CircleIds, NEW r \in Rounds, NEW m \in MemberRefs,
             NEW token, NEW amount, NEW nonce,
             settle_contribution_from_helper(caller, c, r, m, token, amount, nonce)
      PROVE  RoundSteps
  BY <1>1, <1>6, DecideRounds
<1>7. ASSUME NEW c \in CircleIds, NEW r \in Rounds, NEW m \in MemberRefs,
             finalize_contribution_default(c, r, m)
      PROVE  RoundSteps
  BY <1>1, <1>7, DecideRounds
<1>8. ASSUME NEW caller, NEW c \in CircleIds, NEW r \in Rounds, NEW token, NEW nonce,
             \/ authorize_payout_settlement(c, r, nonce)
             \/ settle_payout_from_helper(caller, c, r, token, nonce)
             \/ settle_recovery_from_helper(caller, c, r, token, nonce)
      PROVE  RoundSteps
  BY <1>1, <1>8, MovingRounds
<1>9. QED
  BY <1>1, <1>3, <1>4, <1>5, <1>6, <1>7, <1>8, CreateRounds, JoinRounds, FinalizeRounds,
     PrepareRounds DEF Next, Keeper, Settle

-----------------------------------------------------------------------------
(* The invariant of the rounds is inductive *)

LEMMA RoundsInit == Init => RoundsInv
BY DEF Init, NoObligation, NoPayout, NoCircle, RoundsInv, Ordered, Waiting, Counting, InOrder,
       Begun, AllSettling

LEMMA RoundsStep == ClaimsInv /\ RoundsInv /\ [Next]_vars => RoundsInv'
<1> SUFFICES ASSUME ClaimsInv, RoundsInv, [Next]_vars PROVE RoundsInv'
  OBVIOUS
<1>1. TypeOK' /\ StepFacts
  BY ClaimsStep, AnyStep DEF ClaimsInv, TypeInv
<1>2. RoundSteps
  BY AnyRounds
<1>3. QED
  BY <1>1, <1>2, OrderedStep DEF RoundsInv, RoundSteps

LEMMA RoundsInvariant == Spec => [](MoneyInv /\ RoundsInv)
<1>1. Init => MoneyInv /\ RoundsInv
  BY MoneyInit, RoundsInit
<1>2. MoneyInv /\ RoundsInv /\ [Next]_vars => MoneyInv' /\ RoundsInv'
  BY MoneyStep, RoundsStep DEF MoneyInv
<1>3. QED
  BY <1>1, <1>2, PTL DEF Spec

-----------------------------------------------------------------------------
(* Theorems about the rounds *)

\* The rounds of a circle are claimed and opened in order: every round before
\* the current one is decided and has its claim, obligations exist for exactly
\* the rounds up to it, and final settlement leaves no claim undecided.
THEOREM RoundsInOrderHolds == Spec => []RoundsInOrder
<1>1. ASSUME MoneyInv, RoundsInv PROVE RoundsInOrder
  <2>1. SUFFICES ASSUME NEW c \in CircleIds, NEW r \in Rounds
                 PROVE  /\ payout_states[<<c, r>>].status # "Absent" =>
                             \/ r < circles[c].current_round
                             \/ r = circles[c].current_round /\ r = circles[c].member_limit
                        /\ Begun(c) =>
                             /\ r < circles[c].current_round =>
                                  payout_states[<<c, r>>].status # "Absent" /\ AllDecided(c, r)
                             /\ \A m \in Participants(c) :
                                  obligations[<<c, r, m>>].status # "Absent"
                                    <=> r <= circles[c].current_round
                        /\ circles[c].status = "SettlementPending"
                             /\ r <= circles[c].member_limit =>
                             payout_states[<<c, r>>].status \notin Undecided
    BY DEF RoundsInOrder, Begun, AllDecided, Undecided
  <2>2. Waiting(c) /\ InOrder(c) /\ AllSettling(c)
    BY <1>1 DEF RoundsInv, Ordered
  <2>3. Begun(c) => RoundInOrder(c, r)
    BY <2>2 DEF InOrder
  <2>4. payout_states[<<c, r>>].status # "Absent" => Begun(c)
    BY <2>2 DEF Waiting
  <2>5. payout_states[<<c, r>>].status # "Absent" => AllDecided(c, r)
    BY <1>1 DEF MoneyInv, ClaimsInv, ClaimRecords, ClaimRecord
  <2>6. QED
    BY <2>2, <2>3, <2>4, <2>5 DEF RoundInOrder, AllSettling
<1>2. QED
  BY <1>1, RoundsInvariant, PTL

\* In a decided round every member paid, was cured, or is still unresolved.
LEMMA PotSplit ==
  ASSUME MoneyInv, NEW c \in CircleIds, NEW r \in Rounds, AllDecided(c, r),
         circles[c].status # "Absent"
  PROVE  Cardinality(Funded(c, r)) + Cardinality(Unresolved(c, r)) = circles[c].member_limit
<1> DEFINE P == Participants(c)
           F == Funded(c, r)
           U == Unresolved(c, r)
<1>1. TypeInv /\ TypeOK
  BY DEF MoneyInv, ClaimsInv, TypeInv
<1>2. F \subseteq P /\ U \subseteq P /\ IsFiniteSet(P)
  BY <1>1, ParticipantsFinite DEF Funded, Unresolved
<1>3. ASSUME NEW m \in P PROVE m \in F <=> m \notin U
  <2>1. m \in MemberRefs
    BY <1>1, ParticipantsFinite
  <2>2. /\ obligations[<<c, r, m>>].status \in ContributionStatus
        /\ obligations[<<c, r, m>>].status \notin {"Absent", "Pending"}
    BY <1>1, <2>1 DEF TypeOK, Obligation, AllDecided
  <2>3. <<c, r, m>> \in cured_deficits => obligations[<<c, r, m>>].status = "MissedDefault"
    BY <2>1 DEF MoneyInv, CuresOfDefaults
  <2>4. QED
    BY <2>2, <2>3 DEF ContributionStatus, Funded, Unresolved
<1>4. Cardinality(P) = circles[c].member_limit
  BY <1>1, ParticipantsCounted
<1> HIDE DEF P, F, U
<1>5. F \cup U = P /\ F \cap U = {}
  BY <1>2, <1>3
<1>6. IsFiniteSet(F) /\ IsFiniteSet(U)
  BY <1>2, FS_Subset
<1>7. Cardinality(F) \in Nat /\ Cardinality(U) \in Nat
  BY <1>6, FS_CardinalityType
<1>8. Cardinality(F \cup U) = Cardinality(F) + Cardinality(U) - Cardinality(F \cap U)
  BY <1>6, FS_Union
<1>9. Cardinality(F \cap U) = 0
  BY <1>5, FS_EmptySet
<1>10. Cardinality(F \cup U) = circles[c].member_limit
  BY <1>4, <1>5
<1>11. Cardinality(F) + Cardinality(U) = circles[c].member_limit
  BY <1>7, <1>8, <1>9, <1>10
<1>12. QED
  BY <1>11 DEF F, U

\* What a round that is decided and whose claim is open still holds.
LEMMA OpenRoundHolds ==
  ASSUME MoneyInv, NEW c \in CircleIds, NEW r \in Rounds, circles[c].status # "Absent",
         AllDecided(c, r), payout_states[<<c, r>>].status \notin Closed
  PROVE  /\ calculate_round_unresolved_deficit(c, r) \in Nat
         /\ calculate_round_unresolved_deficit(c, r) <= ScheduledAmount(c)
         /\ ledger[<<c, r>>].outstanding
              = ScheduledAmount(c) - calculate_round_unresolved_deficit(c, r)
<1> DEFINE limit == circles[c].member_limit
           a == circles[c].contribution_amount
           f == Cardinality(Funded(c, r))
           u == Cardinality(Unresolved(c, r))
<1>1. TypeInv /\ a \in Nat /\ limit \in Nat
  BY DEF MoneyInv, ClaimsInv, TypeInv, TypeOK, CircleRecord
<1>2. f \in Nat /\ u \in Nat /\ f + u = limit
  <2>1. f \in Nat
    BY <1>1, FundedFinite
  <2>2. Unresolved(c, r) \in SUBSET Participants(c)
    BY DEF Unresolved
  <2>3. u \in Nat
    BY <1>1, <2>2, ParticipantsFinite, FS_Subset, FS_CardinalityType
  <2>4. f + u = limit
    BY PotSplit
  <2> QED BY <2>1, <2>3, <2>4
<1>3. ledger[<<c, r>>].outstanding = a * f
  <2>1. Conserved(c, r)
    BY DEF MoneyInv, AllConserved
  <2>2. /\ ledger[<<c, r>>].inflows = a * f /\ ledger[<<c, r>>].outflows = 0
        /\ ledger[<<c, r>>].outstanding
             = ledger[<<c, r>>].inflows - ledger[<<c, r>>].outflows
    BY <2>1 DEF Conserved
  <2>3. a * f \in Nat
    BY <1>1, <1>2
  <2> HIDE DEF a, f
  <2> QED BY <2>2, <2>3
<1>4. /\ calculate_round_unresolved_deficit(c, r) = a * u
      /\ ScheduledAmount(c) = a * limit
  BY DEF calculate_round_unresolved_deficit, ScheduledAmount
<1>5. a * limit = a * f + a * u /\ a * f \in Nat /\ a * u \in Nat
  <2> HIDE DEF a, f, u, limit
  <2>1. a * (f + u) = a * f + a * u /\ a * f \in Nat /\ a * u \in Nat
    BY <1>1, <1>2
  <2> QED BY <1>2, <2>1
<1> HIDE DEF a, f, u, limit
<1> QED
  BY <1>3, <1>4, <1>5

\* A round whose obligations are all final can be finalized: its ledger holds
\* the nominal pot less the deficit, neither subtraction can fail, and the next
\* round it opens is fresh and has all its members.
THEOREM FinalizeNeverRefusedHolds == Spec => []FinalizeNeverRefused
<1>1. ASSUME MoneyInv, RoundsInv PROVE FinalizeNeverRefused
  <2> SUFFICES ASSUME NEW c \in CircleIds, ReadyToFinalize(c)
               PROVE  LET r == circles[c].current_round
                      IN  /\ ScheduledAmount(c) <= U128_MAX
                          /\ calculate_round_unresolved_deficit(c, r) <= ScheduledAmount(c)
                          /\ ledger[<<c, r>>].outstanding =
                               ScheduledAmount(c) - calculate_round_unresolved_deficit(c, r)
                          /\ r < circles[c].member_limit =>
                               /\ Participants(c) \subseteq joined[c]
                               /\ \A m \in Participants(c) :
                                    obligations[<<c, r + 1, m>>].status = "Absent"
    BY DEF FinalizeNeverRefused
  <2> DEFINE r == circles[c].current_round
             limit == circles[c].member_limit
  <2>1. /\ circles[c].status = "Active" /\ payout_states[<<c, r>>].status = "Absent"
        /\ AllDecided(c, r)
    BY DEF ReadyToFinalize, AllDecided
  <2>2. TypeInv /\ limit \in Nat /\ r \in Nat
    BY <1>1 DEF MoneyInv, ClaimsInv, TypeInv, TypeOK, CircleRecord
  <2>3. Counting(c) /\ InOrder(c)
    BY <1>1 DEF RoundsInv, Ordered
  <2>4. r >= 1 /\ r <= limit
    BY <2>1, <2>3 DEF Counting
  <2>5. limit <= MAX_MEMBER_LIMIT /\ ScheduledAmount(c) <= U128_MAX
    BY <2>1, <2>2 DEF TypeInv, ConfigsKept, Established, ScheduledAmount
  <2>6. r \in Rounds
    BY <2>2, <2>4, <2>5, BoundsAssumption DEF Rounds
  <2>7. /\ calculate_round_unresolved_deficit(c, r) <= ScheduledAmount(c)
        /\ ledger[<<c, r>>].outstanding =
             ScheduledAmount(c) - calculate_round_unresolved_deficit(c, r)
    BY <1>1, <2>1, <2>6, OpenRoundHolds DEF Closed
  <2>8. ASSUME r < limit
        PROVE  /\ Participants(c) \subseteq joined[c]
               /\ \A m \in Participants(c) : obligations[<<c, r + 1, m>>].status = "Absent"
    <3>1. r + 1 \in Rounds /\ ~(r + 1 <= r)
      BY <2>2, <2>4, <2>5, <2>8, BoundsAssumption DEF Rounds
    <3>2. Participants(c) \subseteq joined[c] /\ RoundInOrder(c, r + 1)
      BY <2>1, <2>3, <3>1 DEF InOrder, Begun
    <3>3. QED
      BY <3>1, <3>2 DEF RoundInOrder
  <2>9. QED
    BY <2>5, <2>7, <2>8
<1>2. QED
  BY <1>1, RoundsInvariant, PTL

-----------------------------------------------------------------------------
(* The pots *)

\* A circle that is not there reads as empty, and so does a claim.
Unfounded ==
  \A c \in CircleIds : circles[c].status = "Absent" =>
    circles[c].contribution_amount = 0 /\ Participants(c) = {}

Unowned ==
  \A c \in CircleIds, r \in Rounds :
    payout_states[<<c, r>>].status = "Absent" =>
      payout_states[<<c, r>>].scheduled_member_ref = NoMember

PotsInv == MoneyInv /\ Unfounded /\ Unowned

PotPrice  == [k \in CircleIds \X Rounds |-> circles[k[1]].contribution_amount]
PotShares == [k \in CircleIds \X Rounds |-> Funded(k[1], k[2])]
PotOwner  == [k \in CircleIds \X Rounds |-> payout_states[k].scheduled_member_ref]
PotHeld   == [k \in CircleIds \X Rounds |-> ledger[k].outstanding]
PotTaken  == [k \in CircleIds \X Rounds |-> ledger[k].outflows]
PotClosed == {k \in CircleIds \X Rounds : payout_states[k].status \in Settled}

\* What a step leaves alone.
SamePrice(c)     == circles'[c].contribution_amount = circles[c].contribution_amount
SameShares(c, r) == Funded(c, r)' = Funded(c, r)
SameOwner(c, r)  == payout_states'[<<c, r>>].scheduled_member_ref
                      = payout_states[<<c, r>>].scheduled_member_ref
SameHeld(c, r)   == ledger'[<<c, r>>] = ledger[<<c, r>>]
SameClosed(c, r) == payout_states'[<<c, r>>].status \in Settled
                      <=> payout_states[<<c, r>>].status \in Settled

LEMMA SamePots ==
  /\ (\A c \in CircleIds : SamePrice(c)) => UNCHANGED PotPrice
  /\ (\A c \in CircleIds, r \in Rounds : SameShares(c, r)) => UNCHANGED PotShares
  /\ (\A c \in CircleIds, r \in Rounds : SameOwner(c, r)) => UNCHANGED PotOwner
  /\ (\A c \in CircleIds, r \in Rounds : SameHeld(c, r)) => UNCHANGED <<PotHeld, PotTaken>>
  /\ (\A c \in CircleIds, r \in Rounds : SameClosed(c, r)) => UNCHANGED PotClosed
<1>1. (\A c \in CircleIds : SamePrice(c)) => UNCHANGED PotPrice
  BY DEF SamePrice, PotPrice
<1>2. (\A c \in CircleIds, r \in Rounds : SameShares(c, r)) => UNCHANGED PotShares
  BY DEF SameShares, PotShares
<1>3. (\A c \in CircleIds, r \in Rounds : SameOwner(c, r)) => UNCHANGED PotOwner
  BY DEF SameOwner, PotOwner
<1>4. (\A c \in CircleIds, r \in Rounds : SameHeld(c, r)) => UNCHANGED <<PotHeld, PotTaken>>
  BY DEF SameHeld, PotHeld, PotTaken
<1>5. (\A c \in CircleIds, r \in Rounds : SameClosed(c, r)) => UNCHANGED PotClosed
  BY DEF SameClosed, PotClosed
<1>6. QED
  BY <1>1, <1>2, <1>3, <1>4, <1>5

\* The steps of the pots, in these names.
LEMMA PotSteps ==
  /\ UNCHANGED Pots!pots <=>
       UNCHANGED <<PotPrice, PotShares, PotOwner, PotHeld, PotTaken, PotClosed>>
  /\ Pots!Found <=>
       /\ \A k \in CircleIds \X Rounds : PotPrice'[k] # PotPrice[k] => PotPrice[k] = 0
       /\ UNCHANGED <<PotShares, PotOwner, PotHeld, PotTaken, PotClosed>>
  /\ Pots!GiveUp <=>
       /\ \A k \in PotClosed' : k \notin PotClosed => PotOwner[k] # NoMember /\ PotHeld[k] = 0
       /\ PotClosed \subseteq PotClosed'
       /\ UNCHANGED <<PotPrice, PotShares, PotOwner, PotHeld, PotTaken>>
BY DEF Pots!pots, Pots!Found, Pots!GiveUp,
       PotPrice, PotShares, PotOwner, PotHeld, PotTaken, PotClosed

LEMMA PotPutIn ==
  ASSUME NEW k, NEW m
  PROVE  Pots!PutIn(k, m) <=>
           /\ k \notin PotClosed /\ m \notin PotShares[k]
           /\ PotShares' = [PotShares EXCEPT ![k] = PotShares[k] \cup {m}]
           /\ PotHeld' = [PotHeld EXCEPT ![k] = PotHeld[k] + PotPrice[k]]
           /\ UNCHANGED <<PotPrice, PotOwner, PotTaken, PotClosed>>
BY DEF Pots!PutIn, PotPrice, PotShares, PotOwner, PotHeld, PotTaken, PotClosed

LEMMA PotAssign ==
  ASSUME NEW k, NEW m
  PROVE  Pots!Assign(k, m) <=>
           /\ PotOwner[k] = NoMember
           /\ \A j \in CircleIds \X Rounds : j[1] = k[1] => PotOwner[j] # m
           /\ PotOwner' = [PotOwner EXCEPT ![k] = m]
           /\ UNCHANGED <<PotPrice, PotShares, PotHeld, PotTaken, PotClosed>>
BY DEF Pots!Assign, PotPrice, PotShares, PotOwner, PotHeld, PotTaken, PotClosed

LEMMA PotTake ==
  ASSUME NEW k
  PROVE  Pots!Take(k) <=>
           /\ k \notin PotClosed /\ PotOwner[k] # NoMember /\ PotHeld[k] > 0
           /\ PotTaken' = [PotTaken EXCEPT ![k] = PotHeld[k]]
           /\ PotHeld' = [PotHeld EXCEPT ![k] = 0]
           /\ PotClosed' = PotClosed \cup {k}
           /\ UNCHANGED <<PotPrice, PotShares, PotOwner>>
BY DEF Pots!Take, PotPrice, PotShares, PotOwner, PotHeld, PotTaken, PotClosed

PotStep == Pots!Next \/ UNCHANGED Pots!pots

LEMMA PotTypes ==
  ASSUME TypeOK
  PROVE  /\ PotHeld \in [CircleIds \X Rounds -> Nat] /\ PotTaken \in [CircleIds \X Rounds -> Nat]
         /\ PotPrice \in [CircleIds \X Rounds -> Nat]
<1>1. \A k \in CircleIds \X Rounds : ledger[k].outstanding \in Nat /\ ledger[k].outflows \in Nat
  BY DEF TypeOK, RoundLiability
<1>2. \A k \in CircleIds \X Rounds : circles[k[1]].contribution_amount \in Nat
  BY DEF TypeOK, CircleRecord
<1>3. QED
  BY <1>1, <1>2 DEF PotHeld, PotTaken, PotPrice

\* The members of a round change only with its ledger.
LEMMA SharesFollowLedger ==
  ASSUME PotsInv, LedgerSteps, NEW c \in CircleIds, NEW r \in Rounds, SameHeld(c, r)
  PROVE  SameShares(c, r)
<1>1. LedgerStep(c, r)
  BY DEF LedgerSteps
<1>2. TypeInv
  BY DEF PotsInv, MoneyInv, ClaimsInv
<1>3. ~Credited(c, r)
  <2> SUFFICES ASSUME Credited(c, r) PROVE FALSE
    OBVIOUS
  <2>1. Participants(c) # {}
    BY DEF Credited
  <2>2. circles[c].status # "Absent"
    BY <2>1 DEF PotsInv, Unfounded
  <2>3. circles[c].contribution_amount \in Nat /\ circles[c].contribution_amount > 0
    BY <1>2, <2>2 DEF TypeInv, TypeOK, CircleRecord, ConfigsKept, Established
  <2>4. ledger[<<c, r>>].outstanding \in Nat
    BY <1>2 DEF TypeInv, TypeOK, RoundLiability
  <2>5. ledger[<<c, r>>].outstanding
          = ledger[<<c, r>>].outstanding + circles[c].contribution_amount
    BY DEF Credited, SameHeld
  <2>6. QED
    BY <2>3, <2>4, <2>5
<1>4. QED
  BY <1>1, <1>3 DEF LedgerStep, Kept, Debited, FundedSame, SameShares

\* The entry points that leave the pots alone.
LEMMA QuietPots ==
  ASSUME PotsInv, LedgerSteps, UNCHANGED ledger,
         \A c \in CircleIds : SamePrice(c),
         \A c \in CircleIds, r \in Rounds : SameOwner(c, r) /\ SameClosed(c, r)
  PROVE  PotStep
<1>1. \A c \in CircleIds, r \in Rounds : SameHeld(c, r)
  BY DEF SameHeld
<1>2. \A c \in CircleIds, r \in Rounds : SameShares(c, r)
  BY <1>1, SharesFollowLedger
<1>3. UNCHANGED <<PotPrice, PotShares, PotOwner, PotHeld, PotTaken, PotClosed>>
  BY <1>1, <1>2, SamePots
<1>4. QED
  BY <1>3, PotSteps DEF PotStep

LEMMA SameClaimsSame ==
  UNCHANGED payout_states =>
    \A c \in CircleIds, r \in Rounds : SameOwner(c, r) /\ SameClosed(c, r)
BY DEF SameOwner, SameClosed

\* The circle that is rewritten keeps its price.
LEMMA RewrittenPrice ==
  ASSUME PotsInv, StepFacts, NEW c \in CircleIds, NEW q, circles[c].status # "Absent",
         circles' = [circles EXCEPT ![c] = q], NEW d \in CircleIds
  PROVE  SamePrice(d)
<1>1. CASE d = c
  BY <1>1 DEF StepFacts, ConfigsFixed, SamePrice
<1>2. CASE d # c
  BY <1>2 DEF PotsInv, MoneyInv, ClaimsInv, TypeInv, TypeOK, SamePrice
<1>3. QED
  BY <1>1, <1>2

LEMMA CreatePots ==
  ASSUME PotsInv, LedgerSteps, NEW cfg \in Configs, create_circle(cfg)
  PROVE  PotStep
<1> DEFINE id == next_circle_id + 1
<1>1. TypeOK /\ Counted /\ UNCHANGED <<payout_states, ledger>>
  BY DEF PotsInv, MoneyInv, ClaimsInv, TypeInv, create_circle, claims, money
<1>2. id \in CircleIds /\ \A c \in CircleIds : c # id => circles'[c] = circles[c]
  BY <1>1 DEF create_circle, TypeOK
<1>3. circles[id].status = "Absent"
  BY <1>1, <1>2 DEF Counted, TypeOK
<1> HIDE DEF id
<1>4. circles[id].contribution_amount = 0
  BY <1>2, <1>3 DEF PotsInv, Unfounded
<1>5. \A k \in CircleIds \X Rounds : PotPrice'[k] # PotPrice[k] => PotPrice[k] = 0
  BY <1>2, <1>4 DEF PotPrice
<1>6. \A c \in CircleIds, r \in Rounds : SameHeld(c, r)
  BY <1>1 DEF SameHeld
<1>7. \A c \in CircleIds, r \in Rounds : SameShares(c, r)
  BY <1>6, SharesFollowLedger
<1>8. UNCHANGED <<PotShares, PotOwner, PotHeld, PotTaken, PotClosed>>
  BY <1>1, <1>6, <1>7, SamePots, SameClaimsSame
<1>9. Pots!Found
  BY <1>5, <1>8, PotSteps
<1>10. QED
  BY <1>9 DEF PotStep, Pots!Next

\* A contribution or a cure: one more member puts the price in.
LEMMA CreditPots ==
  ASSUME PotsInv, LedgerSteps, NEW c \in CircleIds, NEW r \in Rounds,
         UNCHANGED <<circles, payout_states>>, circles[c].status # "Absent",
         credit_round_liability(c, r, circles[c].contribution_amount)
  PROVE  PotStep
<1> DEFINE k == <<c, r>>
           a == circles[c].contribution_amount
<1>1. TypeInv /\ TypeOK /\ MoneyInv
  BY DEF PotsInv, MoneyInv, ClaimsInv, TypeInv
<1>2. a \in Nat /\ a > 0
  BY <1>1 DEF TypeInv, TypeOK, CircleRecord, ConfigsKept, Established
<1>3. /\ ledger'[k].outstanding = ledger[k].outstanding + a
      /\ ledger'[k].outflows = ledger[k].outflows
      /\ \A j \in (CircleIds \X Rounds) \ {k} : ledger'[j] = ledger[j]
  BY <1>1, <1>2, CreditLedger
<1>4. ledger[k].outstanding \in Nat
  BY <1>1 DEF TypeOK, RoundLiability
<1>5. LedgerStep(c, r)
  BY DEF LedgerSteps
<1>6. Credited(c, r)
  <2>1. ledger'[k] # ledger[k]
    BY <1>2, <1>3, <1>4
  <2>2. ~Debited(c, r)
    BY DEF Debited, Closed
  <2>3. QED
    BY <1>5, <2>1, <2>2 DEF LedgerStep, Kept
<1>7. PICK m \in Participants(c) \ Funded(c, r) : Funded(c, r)' = Funded(c, r) \cup {m}
  BY <1>6 DEF Credited
<1>8. m \in MemberRefs /\ k \in CircleIds \X Rounds
  BY <1>1, <1>7, ParticipantsFinite
<1>9. \A d \in CircleIds, s \in Rounds : <<d, s>> # k => SameShares(d, s)
  BY <1>3, SharesFollowLedger DEF SameHeld
<1>10. k \notin PotClosed
  BY <1>6 DEF Credited, PotClosed, Settled, Closed
<1>11. m \notin PotShares[k] /\ PotShares' = [PotShares EXCEPT ![k] = PotShares[k] \cup {m}]
  <2>1. \A d \in CircleIds, s \in Rounds :
          Funded(d, s)' = IF <<d, s>> = k THEN Funded(c, r) \cup {m} ELSE Funded(d, s)
    BY <1>7, <1>9 DEF SameShares
  <2>2. PotShares[k] = Funded(c, r)
    BY <1>8 DEF PotShares
  <2>3. \A j \in CircleIds \X Rounds :
          Funded(j[1], j[2])' = IF j = k THEN PotShares[k] \cup {m} ELSE PotShares[j]
    BY <2>1, <2>2 DEF PotShares
  <2>4. PotShares' = [PotShares EXCEPT ![k] = PotShares[k] \cup {m}]
    BY <2>3 DEF PotShares
  <2>5. QED
    BY <1>7, <2>2, <2>4
<1>12. PotHeld' = [PotHeld EXCEPT ![k] = PotHeld[k] + PotPrice[k]]
  BY <1>3, <1>8 DEF PotHeld, PotPrice
<1>13. UNCHANGED PotTaken
  BY <1>3 DEF PotTaken
<1>14. UNCHANGED <<PotPrice, PotOwner, PotClosed>>
  BY DEF PotPrice, PotOwner, PotClosed
<1>15. Pots!PutIn(k, m)
  BY <1>10, <1>11, <1>12, <1>13, <1>14, PotPutIn
<1>16. QED
  BY <1>8, <1>15 DEF PotStep, Pots!Next

\* The slot of a round within the limit is a member, and no other slot's.
LEMMA SlotsDiffer ==
  ASSUME TypeInv, NEW c \in CircleIds, circles[c].status # "Absent",
         NEW r \in Rounds, r <= circles[c].member_limit
  PROVE  /\ ScheduledMember(c, r) \in MemberRefs
         /\ \A s \in Rounds : s <= circles[c].member_limit /\ s # r =>
              ScheduledMember(c, s) # ScheduledMember(c, r)
<1> DEFINE f == circles[c].payout_order
           n == circles[c].member_limit
<1>1. f \in Seq(MemberRefs) /\ n \in Nat /\ Len(f) = n /\ IsInjective(f)
  BY DEF TypeInv, TypeOK, CircleRecord, ConfigsKept, Established, validate_payout_order
<1>2. DOMAIN f = 1..n /\ f \in [1..n -> MemberRefs]
  BY <1>1
<1> HIDE DEF f, n
<1>3. \A s \in Rounds : s <= n => s \in 1..n
  BY <1>1, BoundsAssumption DEF Rounds
<1>4. r \in 1..n
  BY <1>3 DEF n
<1>5. \A i, j \in 1..n : f[i] = f[j] => i = j
  BY <1>1, <1>2 DEF IsInjective
<1>6. f[r] \in MemberRefs
  BY <1>2, <1>4
<1>7. \A s \in Rounds : s <= n /\ s # r => f[s] # f[r]
  BY <1>3, <1>4, <1>5
<1>8. QED
  BY <1>6, <1>7 DEF ScheduledMember, f, n

\* A payout or a recovery takes all there is.
LEMMA DebitPots ==
  ASSUME PotsInv, LedgerSteps, NEW c \in CircleIds, NEW r \in Rounds, NEW t \in Closed,
         UNCHANGED circles,
         payout_states[<<c, r>>].status \in {"SettlementAuthorized", "RecoveryPending"},
         payout_states' = [payout_states EXCEPT ![<<c, r>>] = [@ EXCEPT !.status = t]],
         NEW a \in Nat, debit_round_liability(c, r, a)
  PROVE  PotStep
<1> DEFINE k == <<c, r>>
           q == [payout_states[k] EXCEPT !.status = t]
<1>1. TypeInv /\ TypeOK /\ MoneyInv /\ k \in CircleIds \X Rounds
  BY DEF PotsInv, MoneyInv, ClaimsInv, TypeInv
<1>2. /\ q.status = t /\ q.scheduled_member_ref = payout_states[k].scheduled_member_ref
  BY <1>1 DEF TypeOK, PayoutState
<1> HIDE DEF q
<1>3. /\ payout_states'[k] = q
      /\ \A j \in (CircleIds \X Rounds) \ {k} : payout_states'[j] = payout_states[j]
  BY <1>1 DEF TypeOK, q
<1>4. \A j \in (CircleIds \X Rounds) \ {k} : ledger'[j] = ledger[j]
  BY <1>1, DebitLedger
<1>5. Debited(c, r)
  <2>1. LedgerStep(c, r)
    BY DEF LedgerSteps
  <2>2. payout_states'[k].status \in Closed /\ payout_states[k].status \notin Closed
    BY <1>2, <1>3 DEF Closed
  <2>3. QED
    BY <2>1, <2>2 DEF LedgerStep, Kept, Credited
<1>6. /\ ledger'[k].outstanding = 0
      /\ ledger'[k].outflows = ledger[k].outflows + ledger[k].outstanding
  BY <1>5 DEF Debited
<1>7. ledger[k].outflows = 0
  BY <1>1 DEF MoneyInv, AllConserved, Conserved, Closed
<1>8. ledger[k].outstanding \in Nat
  BY <1>1 DEF TypeOK, RoundLiability
<1>9. ClaimRecord(c, r)
  BY <1>1 DEF MoneyInv, ClaimsInv, ClaimRecords
<1>10. ledger[k].outstanding > 0
  <2>1. CASE payout_states[k].status = "RecoveryPending"
    BY <1>1, <2>1 DEF MoneyInv, RecoveriesFixed, RecoveryFixed
  <2>2. CASE payout_states[k].status = "SettlementAuthorized"
    <3>1. ledger[k].outstanding = ScheduledAmount(c) /\ circles[c].status # "Absent"
      BY <1>1, <1>9, <2>2, WholePot DEF ClaimRecord
    <3> DEFINE price == circles[c].contribution_amount
               limit == circles[c].member_limit
    <3>2. price \in Nat /\ price > 0 /\ limit \in Nat /\ limit >= 2
      BY <1>1, <3>1 DEF TypeInv, TypeOK, CircleRecord, ConfigsKept, Established
    <3>3. ledger[k].outstanding = price * limit
      BY <3>1 DEF ScheduledAmount
    <3> HIDE DEF price, limit
    <3>4. price * limit > 0
      BY <3>2
    <3>5. QED
      BY <3>3, <3>4
  <2>3. QED
    BY <2>1, <2>2
<1>11. PotOwner[k] # NoMember
  <2>1. /\ circles[c].status # "Absent" /\ r <= circles[c].member_limit
        /\ payout_states[k].scheduled_member_ref = ScheduledMember(c, r)
    BY <1>9 DEF ClaimRecord, ScheduledMember
  <2>2. ScheduledMember(c, r) \in MemberRefs
    BY <1>1, <2>1, SlotsDiffer
  <2>3. QED
    BY <1>1, <2>1, <2>2, SetupAssumption DEF PotOwner
<1>12. k \notin PotClosed /\ PotHeld[k] > 0
  BY <1>1, <1>10 DEF PotClosed, Settled, Closed, PotHeld
<1>13. \A d \in CircleIds, s \in Rounds : SameShares(d, s)
  <2>1. SameShares(c, r)
    BY <1>5 DEF Debited, FundedSame, SameShares
  <2>2. \A d \in CircleIds, s \in Rounds : <<d, s>> # k => SameShares(d, s)
    BY <1>4, SharesFollowLedger DEF SameHeld
  <2>3. QED
    BY <2>1, <2>2
<1>14. \A d \in CircleIds, s \in Rounds : SameOwner(d, s)
  BY <1>2, <1>3 DEF SameOwner
<1>15. UNCHANGED <<PotPrice, PotShares, PotOwner>>
  BY <1>13, <1>14, SamePots DEF SamePrice
<1>16. PotTaken' = [PotTaken EXCEPT ![k] = PotHeld[k]]
  <2>1. ledger'[k].outflows = ledger[k].outstanding
    BY <1>6, <1>7, <1>8
  <2>2. QED
    BY <1>1, <1>4, <2>1 DEF PotTaken, PotHeld
<1>17. PotHeld' = [PotHeld EXCEPT ![k] = 0]
  BY <1>1, <1>4, <1>6 DEF PotHeld
<1>18. PotClosed' = PotClosed \cup {k}
  BY <1>1, <1>2, <1>3 DEF PotClosed, Settled
<1>19. Pots!Take(k)
  BY <1>11, <1>12, <1>15, <1>16, <1>17, <1>18, PotTake
<1>20. QED
  BY <1>1, <1>19 DEF PotStep, Pots!Next

LEMMA FinalizePots ==
  ASSUME PotsInv, StepFacts, LedgerSteps, NEW c \in CircleIds, NEW r \in Rounds,
         finalize_round_payout_accounting(c, r), NEW m, m = ScheduledMember(c, r)
  PROVE  PotStep
<1> DEFINE k == <<c, r>>
           t == IF calculate_round_unresolved_deficit(c, r) > 0
                THEN "DeferredLocked" ELSE "Scheduled"
           q == [status |-> t, scheduled_member_ref |-> m, amount |-> ScheduledAmount(c)]
<1>1. /\ TypeInv /\ TypeOK /\ Unowned /\ ClaimRecords /\ UNCHANGED ledger
      /\ k \in CircleIds \X Rounds
  BY DEF PotsInv, MoneyInv, ClaimsInv, TypeInv, finalize_round_payout_accounting, money
<1>2. /\ payout_states' = [payout_states EXCEPT ![k] = q]
      /\ payout_states[k].status = "Absent"
      /\ circles[c].status = "Active" /\ r <= circles[c].member_limit
  BY DEF finalize_round_payout_accounting
<1>3. t \notin Settled /\ payout_states[k].status \notin Settled
  BY <1>2 DEF Settled, Closed
<1>4. q.status = t /\ q.scheduled_member_ref = m
  OBVIOUS
<1> HIDE DEF q, t
<1>5. m \in MemberRefs /\ \A s \in Rounds : s <= circles[c].member_limit /\ s # r =>
                            ScheduledMember(c, s) # m
  BY <1>1, <1>2, SlotsDiffer
<1>6. ASSUME NEW s \in Rounds PROVE payout_states[<<c, s>>].scheduled_member_ref # m
  <2>1. CASE payout_states[<<c, s>>].status = "Absent"
    BY <1>1, <1>5, <2>1, SetupAssumption DEF Unowned
  <2>2. CASE payout_states[<<c, s>>].status # "Absent"
    <3>1. /\ payout_states[<<c, s>>].scheduled_member_ref = ScheduledMember(c, s)
          /\ s <= circles[c].member_limit
      BY <1>1, <2>2 DEF ClaimRecords, ClaimRecord, ScheduledMember
    <3>2. s # r
      BY <1>2, <2>2
    <3>3. QED
      BY <1>5, <3>1, <3>2
  <2>3. QED
    BY <2>1, <2>2
<1>7. payout_states[k].scheduled_member_ref = NoMember
  BY <1>1, <1>2 DEF Unowned
<1>8. /\ payout_states'[k] = q
      /\ \A j \in (CircleIds \X Rounds) \ {k} : payout_states'[j] = payout_states[j]
  BY <1>1, <1>2 DEF TypeOK
<1>9. PotOwner[k] = NoMember /\ \A j \in CircleIds \X Rounds : j[1] = k[1] => PotOwner[j] # m
  <2>1. ASSUME NEW j \in CircleIds \X Rounds, j[1] = c PROVE PotOwner[j] # m
    <3>1. j = <<c, j[2]>> /\ j[2] \in Rounds
      BY <2>1
    <3>2. payout_states[j].scheduled_member_ref # m
      BY <1>6, <3>1
    <3>3. QED
      BY <3>2 DEF PotOwner
  <2>2. QED
    BY <1>1, <1>7, <2>1 DEF PotOwner
<1>10. PotOwner' = [PotOwner EXCEPT ![k] = m]
  BY <1>1, <1>4, <1>8 DEF PotOwner
<1>11. \A d \in CircleIds : SamePrice(d)
  <2>1. CASE UNCHANGED circles
    BY <2>1 DEF SamePrice
  <2>2. CASE circles' = [circles EXCEPT ![c] = [circles[c] EXCEPT !.current_round = r + 1]]
    BY <1>2, <2>2, RewrittenPrice
  <2>3. QED
    BY <2>1, <2>2 DEF finalize_round_payout_accounting
<1>12. \A d \in CircleIds, s \in Rounds : SameHeld(d, s) /\ SameShares(d, s)
  BY <1>1, SharesFollowLedger DEF SameHeld
<1>13. \A d \in CircleIds, s \in Rounds : SameClosed(d, s)
  BY <1>3, <1>4, <1>8 DEF SameClosed
<1>14. UNCHANGED <<PotPrice, PotShares, PotHeld, PotTaken, PotClosed>>
  BY <1>11, <1>12, <1>13, SamePots
<1>15. Pots!Assign(k, m)
  BY <1>9, <1>10, <1>14, PotAssign
<1>16. QED
  BY <1>1, <1>5, <1>15 DEF PotStep, Pots!Next

LEMMA PreparePots ==
  ASSUME PotsInv, StepFacts, LedgerSteps, ClaimAmountsHold, ClaimRecords',
         NEW c \in CircleIds, prepare_final_settlement(c)
  PROVE  PotStep
<1>1. /\ TypeInv /\ TypeOK /\ ClaimRecords /\ UNCHANGED ledger
      /\ circles[c].status # "Absent"
      /\ circles' = [circles EXCEPT ![c] = [circles[c] EXCEPT !.status = "SettlementPending"]]
  BY DEF PotsInv, MoneyInv, ClaimsInv, TypeInv, prepare_final_settlement, money
<1>2. \A d \in CircleIds : SamePrice(d)
  BY <1>1, RewrittenPrice
<1>3. \A d \in CircleIds, s \in Rounds : SameHeld(d, s) /\ SameShares(d, s)
  BY <1>1, SharesFollowLedger DEF SameHeld
<1>4. ASSUME NEW d \in CircleIds, NEW s \in Rounds
      PROVE  \/ payout_states'[<<d, s>>] = payout_states[<<d, s>>]
             \/ /\ payout_states[<<d, s>>].status = "DeferredLocked"
                /\ payout_states'[<<d, s>>].status \in {"RecoveryPending", "NoFundedRecovery"}
                /\ payout_states'[<<d, s>>].scheduled_member_ref
                     = payout_states[<<d, s>>].scheduled_member_ref
  <2> DEFINE t == IF payout_states[<<c, s>>].amount
                        - calculate_round_unresolved_deficit(c, s) = 0
                  THEN "NoFundedRecovery" ELSE "RecoveryPending"
  <2>1. payout_states'[<<d, s>>] =
          IF d = c /\ s \in Deficient(c) THEN [payout_states[<<d, s>>] EXCEPT !.status = t]
          ELSE payout_states[<<d, s>>]
    BY DEF prepare_final_settlement
  <2>2. t \in {"RecoveryPending", "NoFundedRecovery"}
    OBVIOUS
  <2> HIDE DEF t
  <2>3. s \in Deficient(c) => payout_states[<<c, s>>].status = "DeferredLocked"
    BY DEF Deficient
  <2>4. payout_states[<<d, s>>] \in PayoutState
    BY <1>1 DEF TypeOK
  <2>5. QED
    BY <2>1, <2>2, <2>3, <2>4 DEF PayoutState
<1>5. \A d \in CircleIds, s \in Rounds : SameOwner(d, s)
  BY <1>4 DEF SameOwner
<1>6. UNCHANGED <<PotPrice, PotShares, PotOwner, PotHeld, PotTaken>>
  BY <1>2, <1>3, <1>5, SamePots
<1>7. ASSUME NEW d \in CircleIds, NEW s \in Rounds,
             payout_states[<<d, s>>].status \in Settled
      PROVE  payout_states'[<<d, s>>].status \in Settled
  BY <1>4, <1>7 DEF Settled, Closed
<1>8. PotClosed \subseteq PotClosed'
  BY <1>7 DEF PotClosed
<1>9. ASSUME NEW d \in CircleIds, NEW s \in Rounds,
             payout_states'[<<d, s>>].status \in Settled,
             payout_states[<<d, s>>].status \notin Settled
      PROVE  /\ payout_states[<<d, s>>].scheduled_member_ref # NoMember
             /\ ledger[<<d, s>>].outstanding = 0
  <2>1. /\ payout_states[<<d, s>>].status = "DeferredLocked"
        /\ payout_states'[<<d, s>>].status = "NoFundedRecovery"
    BY <1>4, <1>9 DEF Settled, Closed
  <2>2. RecoveryFixed(d, s)'
    <3>1. payout_states'[<<d, s>>] # payout_states[<<d, s>>]
      BY <2>1
    <3>2. RecoveryStep(d, s)
      BY DEF ClaimAmountsHold
    <3>3. QED
      BY <2>1, <3>1, <3>2 DEF RecoveryStep
  <2>3. ledger'[<<d, s>>].outstanding = 0
    BY <2>1, <2>2 DEF RecoveryFixed
  <2>4. /\ circles[d].status # "Absent" /\ s <= circles[d].member_limit
        /\ payout_states[<<d, s>>].scheduled_member_ref = ScheduledMember(d, s)
    BY <1>1, <2>1 DEF ClaimRecords, ClaimRecord, ScheduledMember
  <2>5. ScheduledMember(d, s) \in MemberRefs
    BY <1>1, <2>4, SlotsDiffer
  <2>6. QED
    BY <1>1, <2>3, <2>4, <2>5, SetupAssumption
<1>10. \A k \in PotClosed' : k \notin PotClosed => PotOwner[k] # NoMember /\ PotHeld[k] = 0
  BY <1>9 DEF PotClosed, PotOwner, PotHeld
<1>11. Pots!GiveUp
  BY <1>6, <1>8, <1>10, PotSteps
<1>12. QED
  BY <1>11 DEF PotStep, Pots!Next

LEMMA JoinPots ==
  ASSUME PotsInv, StepFacts, LedgerSteps, NEW c \in CircleIds, NEW m, join_circle(c, m)
  PROVE  PotStep
<1>1. PICK q : circles' = [circles EXCEPT ![c] = q]
  BY DEF join_circle
<1>2. circles[c].status # "Absent" /\ UNCHANGED <<ledger, payout_states>>
  BY DEF join_circle, claims, money
<1>3. \A d \in CircleIds : SamePrice(d)
  BY <1>1, <1>2, RewrittenPrice
<1>4. QED
  BY <1>2, <1>3, QuietPots, SameClaimsSame

LEMMA AuthorizePots ==
  ASSUME PotsInv, LedgerSteps, NEW c \in CircleIds, NEW r \in Rounds, NEW nonce,
         authorize_payout_settlement(c, r, nonce)
  PROVE  PotStep
<1> DEFINE q == [payout_states[<<c, r>>] EXCEPT !.status = "SettlementAuthorized"]
<1>1. /\ payout_states' = [payout_states EXCEPT ![<<c, r>>] = q]
      /\ payout_states[<<c, r>>].status \in {"Scheduled", "DeferredLocked"}
      /\ UNCHANGED <<circles, ledger>>
  BY DEF authorize_payout_settlement, Authorizable, lifecycle, money
<1>2. TypeOK
  BY DEF PotsInv, MoneyInv, ClaimsInv, TypeInv
<1>3. /\ q.status = "SettlementAuthorized"
      /\ q.scheduled_member_ref = payout_states[<<c, r>>].scheduled_member_ref
  BY <1>2 DEF TypeOK, PayoutState
<1> HIDE DEF q
<1>4. \A d \in CircleIds, s \in Rounds :
        payout_states'[<<d, s>>] = IF <<d, s>> = <<c, r>> THEN q ELSE payout_states[<<d, s>>]
  BY <1>1, <1>2 DEF TypeOK
<1>5. \A d \in CircleIds, s \in Rounds : SameOwner(d, s) /\ SameClosed(d, s)
  BY <1>1, <1>3, <1>4 DEF SameOwner, SameClosed, Settled, Closed
<1>6. \A d \in CircleIds : SamePrice(d)
  BY <1>1 DEF SamePrice
<1>7. QED
  BY <1>1, <1>5, <1>6, QuietPots

LEMMA CreditingPots ==
  ASSUME PotsInv, LedgerSteps, NEW caller, NEW c \in CircleIds, NEW r \in Rounds,
         NEW m \in MemberRefs, NEW token, NEW amount, NEW nonce,
         \/ settle_contribution_from_helper(caller, c, r, m, token, amount, nonce)
         \/ settle_cure_from_helper(caller, c, r, m, token, amount, nonce)
  PROVE  PotStep
<1>1. /\ UNCHANGED <<circles, payout_states>>
      /\ obligations[<<c, r, m>>].status # "Absent"
      /\ credit_round_liability(c, r, circles[c].contribution_amount)
  BY DEF settle_contribution_from_helper, settle_cure_from_helper, lifecycle, claims
<1>2. circles[c].status # "Absent"
  BY <1>1 DEF PotsInv, MoneyInv, Owned
<1>3. QED
  BY <1>1, <1>2, CreditPots

LEMMA SettlingPots ==
  ASSUME PotsInv, LedgerSteps, NEW caller, NEW c \in CircleIds, NEW r \in Rounds,
         NEW token, NEW nonce,
         \/ settle_payout_from_helper(caller, c, r, token, nonce)
         \/ settle_recovery_from_helper(caller, c, r, token, nonce)
  PROVE  PotStep
<1>1. UNCHANGED circles
  BY DEF settle_payout_from_helper, settle_recovery_from_helper, lifecycle
<1>2. payout_states[<<c, r>>].status \in {"SettlementAuthorized", "RecoveryPending"}
  BY DEF settle_payout_from_helper, settle_recovery_from_helper
<1>3. PICK t \in Closed :
        payout_states' = [payout_states EXCEPT ![<<c, r>>] = [@ EXCEPT !.status = t]]
  BY DEF settle_payout_from_helper, settle_recovery_from_helper, Closed
<1>4. PICK a \in Nat : debit_round_liability(c, r, a)
  <2>1. payout_states[<<c, r>>].amount \in Nat /\ recovery_amounts[<<c, r>>] \in Nat
    BY DEF PotsInv, MoneyInv, ClaimsInv, TypeInv, TypeOK, PayoutState
  <2>2. \/ debit_round_liability(c, r, payout_states[<<c, r>>].amount)
        \/ debit_round_liability(c, r, recovery_amounts[<<c, r>>])
    BY DEF settle_payout_from_helper, settle_recovery_from_helper
  <2>3. ASSUME NEW x, x \in Nat, debit_round_liability(c, r, x)
        PROVE  \E a \in Nat : debit_round_liability(c, r, a)
    BY <2>3
  <2>4. QED
    BY <2>1, <2>2, <2>3
<1>5. QED
  BY <1>1, <1>2, <1>3, <1>4, DebitPots

LEMMA AnyPots == PotsInv /\ [Next]_vars => PotStep
<1> SUFFICES ASSUME PotsInv, [Next]_vars PROVE PotStep
  OBVIOUS
<1>1. MoneyInv /\ ClaimsInv' /\ StepFacts
  BY ClaimsStep, AnyStep DEF PotsInv, MoneyInv
<1>2. TypeInv' /\ ClaimRecords'
  BY <1>1 DEF ClaimsInv
<1>3. LedgerSteps /\ ClaimAmountsHold
  BY <1>1, <1>2, AnyMoney, AnyRecovery
<1>4. ASSUME UNCHANGED <<circles, payout_states, ledger>> PROVE PotStep
  <2>1. \A c \in CircleIds : SamePrice(c)
    BY <1>4 DEF SamePrice
  <2>2. QED
    BY <1>3, <1>4, <2>1, QuietPots, SameClaimsSame
<1>5. CASE Tick \/ UNCHANGED vars
  BY <1>4, <1>5 DEF Tick, vars, lifecycle, claims, money
<1>6. ASSUME NEW caller, NEW helper, initialize_settlement_helper(caller, helper)
      PROVE  PotStep
  BY <1>4, <1>6 DEF initialize_settlement_helper, claims, money
<1>7. ASSUME NEW c, NEW r, NEW m, finalize_contribution_default(c, r, m) PROVE PotStep
  BY <1>4, <1>7 DEF finalize_contribution_default, lifecycle, claims, money
<1>8. ASSUME NEW c \in CircleIds, NEW r \in Rounds, finalize_round_payout_accounting(c, r)
      PROVE  PotStep
  BY <1>1, <1>3, <1>8, FinalizePots
<1>9. ASSUME NEW c \in CircleIds, prepare_final_settlement(c) PROVE PotStep
  BY <1>1, <1>2, <1>3, <1>9, PreparePots
<1>10. QED
  BY <1>1, <1>3, <1>5, <1>6, <1>7, <1>8, <1>9, CreatePots, JoinPots, AuthorizePots,
     CreditingPots, SettlingPots DEF Next, Keeper, Settle

\* Only create_circle touches a circle that is not there.
LEMMA AbsentStays ==
  ASSUME PotsInv, [Next]_vars, NEW d \in CircleIds, circles'[d].status = "Absent"
  PROVE  circles'[d] = circles[d]
<1>1. TypeOK /\ StepFacts
  BY AnyStep DEF PotsInv, MoneyInv, ClaimsInv, TypeInv
<1>2. circles[d].status = "Absent"
  BY <1>1 DEF StepFacts, ConfigsFixed
<1>3. ASSUME NEW c \in CircleIds, NEW q, circles[c].status # "Absent",
             circles' = [circles EXCEPT ![c] = q]
      PROVE  circles'[d] = circles[d]
  BY <1>1, <1>2, <1>3 DEF TypeOK
<1>4. CASE UNCHANGED circles
  BY <1>4
<1>5. ASSUME NEW cfg, create_circle(cfg) PROVE circles'[d] = circles[d]
  <2> DEFINE id == next_circle_id + 1
  <2>1. id \in CircleIds /\ circles'[id].status = "OpenForMembers"
    BY <1>1, <1>5 DEF create_circle, TypeOK
  <2>2. \A c \in CircleIds : c # id => circles'[c] = circles[c]
    BY <1>1, <1>5 DEF create_circle, TypeOK
  <2> HIDE DEF id
  <2>3. QED
    BY <2>1, <2>2
<1>6. ASSUME NEW c \in CircleIds, NEW m, join_circle(c, m) PROVE circles'[d] = circles[d]
  BY <1>3, <1>6 DEF join_circle
<1>7. ASSUME NEW c \in CircleIds, NEW r, finalize_round_payout_accounting(c, r)
      PROVE  circles'[d] = circles[d]
  <2>1. CASE circles' = [circles EXCEPT ![c] = [circles[c] EXCEPT !.current_round = r + 1]]
    BY <1>3, <1>7, <2>1 DEF finalize_round_payout_accounting
  <2>2. QED
    BY <1>4, <1>7, <2>1 DEF finalize_round_payout_accounting
<1>8. ASSUME NEW c \in CircleIds, prepare_final_settlement(c) PROVE circles'[d] = circles[d]
  BY <1>3, <1>8 DEF prepare_final_settlement
<1>9. ASSUME NEW caller, NEW c, NEW r, NEW m, NEW token, NEW amount, NEW nonce,
             \/ settle_contribution_from_helper(caller, c, r, m, token, amount, nonce)
             \/ settle_cure_from_helper(caller, c, r, m, token, amount, nonce)
             \/ settle_payout_from_helper(caller, c, r, token, nonce)
             \/ settle_recovery_from_helper(caller, c, r, token, nonce)
             \/ finalize_contribution_default(c, r, m)
             \/ authorize_payout_settlement(c, r, nonce)
      PROVE  UNCHANGED circles
  BY <1>9 DEF settle_contribution_from_helper, settle_cure_from_helper,
              settle_payout_from_helper, settle_recovery_from_helper,
              finalize_contribution_default, authorize_payout_settlement, lifecycle
<1>10. CASE Tick \/ UNCHANGED vars
  BY <1>4, <1>10 DEF Tick, vars, lifecycle
<1>11. ASSUME NEW caller, NEW helper, initialize_settlement_helper(caller, helper)
       PROVE  UNCHANGED circles
  BY <1>11 DEF initialize_settlement_helper
<1>12. QED
  BY <1>4, <1>5, <1>6, <1>7, <1>8, <1>9, <1>10, <1>11 DEF Next, Keeper, Settle

LEMMA PotsInit == Init => PotsInv
<1> SUFFICES ASSUME Init PROVE PotsInv
  OBVIOUS
<1>1. Range(<< >>) = {}
  BY DEF Range
<1>2. Unfounded
  BY <1>1 DEF Init, NoCircle, Unfounded, Participants
<1>3. Unowned
  BY DEF Init, NoPayout, Unowned
<1>4. QED
  BY <1>2, <1>3, MoneyInit DEF PotsInv

LEMMA PotsStay == PotsInv /\ [Next]_vars => PotsInv'
<1> SUFFICES ASSUME PotsInv, [Next]_vars PROVE PotsInv'
  OBVIOUS
<1>1. MoneyInv' /\ ClaimSteps
  BY MoneyStep, AnyStep DEF PotsInv, MoneyInv, StepFacts
<1>2. Unfounded'
  <2> SUFFICES ASSUME NEW c \in CircleIds, circles'[c].status = "Absent"
               PROVE  circles'[c].contribution_amount = 0 /\ Participants(c)' = {}
    BY DEF Unfounded
  <2>1. circles'[c] = circles[c]
    BY AbsentStays
  <2>2. QED
    BY <2>1 DEF PotsInv, Unfounded, Participants
<1>3. Unowned'
  <2> SUFFICES ASSUME NEW c \in CircleIds, NEW r \in Rounds,
                      payout_states'[<<c, r>>].status = "Absent"
               PROVE  payout_states'[<<c, r>>].scheduled_member_ref = NoMember
    BY DEF Unowned
  <2>1. payout_states'[<<c, r>>] = payout_states[<<c, r>>]
    BY <1>1 DEF ClaimSteps, ClaimStep, Recorded, Moved
  <2>2. QED
    BY <2>1 DEF PotsInv, Unowned
<1>4. QED
  BY <1>1, <1>2, <1>3 DEF PotsInv

LEMMA InitPots == Init => Pots!Init
<1> SUFFICES ASSUME Init PROVE Pots!Init
  OBVIOUS
<1>1. \A k \in CircleIds \X Rounds :
        /\ circles[k[1]].contribution_amount = 0 /\ Funded(k[1], k[2]) = {}
        /\ payout_states[k].scheduled_member_ref = NoMember
        /\ payout_states[k].status \notin Settled
        /\ ledger[k].outstanding = 0 /\ ledger[k].outflows = 0
  <2>1. \A c \in CircleIds : circles[c].contribution_amount = 0 /\ Participants(c) = {}
    BY PotsInit DEF PotsInv, Unfounded, Init, NoCircle
  <2>2. \A k \in CircleIds \X Rounds : Funded(k[1], k[2]) = {}
    BY <2>1 DEF Funded
  <2>3. QED
    BY <2>1, <2>2 DEF Init, NoPayout, NoLiability, Settled, Closed
<1>2. QED
  BY <1>1 DEF Pots!Init

\* Whatever the entry points do, seen from the pots each step is one legal move
\* of one pot, or none: members put in once, the owner is named once and owns no
\* other pot, and what is in a pot leaves it whole, once, for its owner.
THEOREM ImplementsPotsHolds == Spec => ImplementsPots
<1>1. PotsInv /\ [Next]_vars => [Pots!Next]_(Pots!pots)
  BY AnyPots DEF PotStep
<1>2. Spec => []PotsInv
  BY PotsInit, PotsStay, PTL DEF Spec
<1>3. QED
  BY <1>1, <1>2, InitPots, PTL DEF Spec, ImplementsPots, Pots!Spec

-----------------------------------------------------------------------------
(* The settlement helper *)

CustodyTypes ==
  /\ balances \in [Tokens -> [Account -> Nat]]
  /\ token_liability \in [Tokens -> Nat]
  /\ round_token_liability \in [CircleIds \X Rounds \X Tokens -> Nat]

\* A circle's amount is one create_circle was called with.
Priced ==
  \A c \in CircleIds :
    circles[c].status # "Absent" => circles[c].contribution_amount \in Amounts

HelperInv == MoneyInv /\ Priced /\ CustodyTypes /\ BooksAgree /\ Solvent

-----------------------------------------------------------------------------
(* Amounts *)

LEMMA PricedStep == ClaimsInv /\ Priced /\ [Next]_vars => Priced'
<1> SUFFICES ASSUME ClaimsInv, Priced, [Next]_vars, NEW c \in CircleIds,
                    circles'[c].status # "Absent"
             PROVE  circles'[c].contribution_amount \in Amounts
  BY DEF Priced, Amounts
<1>1. TermsKept(c) \/ Opened(c)
  BY CircleTerms
<1>2. QED
  BY <1>1 DEF TermsKept, Opened, Priced

-----------------------------------------------------------------------------
(* Every step is one of the circle contract, or leaves it alone *)

LEMMA CoreIsNext ==
  ASSUME HelperInv, [HNext]_allvars
  PROVE  [Next]_vars
<1>1. ClaimsInv /\ TypeOK /\ Owned /\ Priced
  BY DEF HelperInv, MoneyInv, ClaimsInv, TypeInv
<1>2. CASE CoreStep
  BY <1>2, SetupAssumption, HelperAssumption DEF CoreStep, Next
<1>3. ASSUME NEW c \in CircleIds, NEW r \in Rounds, NEW m \in MemberRefs, NEW t \in Tokens,
             NEW nonce \in Nonces, NEW withdrawn,
             SettleContribution(c, r, m, t, nonce, withdrawn)
      PROVE  Next
  <2>1. circles[c].contribution_amount \in Amounts
    BY <1>1, <1>3 DEF SettleContribution, Owned, Priced
  <2>2. Settle(c, r)
    BY <1>3, <2>1, HelperAssumption DEF SettleContribution, Settle
  <2>3. QED
    BY <2>2 DEF Next
<1>4. ASSUME NEW c \in CircleIds, NEW r \in Rounds, NEW m \in MemberRefs, NEW t \in Tokens,
             NEW nonce \in Nonces, NEW withdrawn,
             SettleCure(c, r, m, t, nonce, withdrawn)
      PROVE  Next
  <2>1. circles[c].contribution_amount \in Amounts
    BY <1>1, <1>4 DEF SettleCure, Owned, Priced
  <2>2. Settle(c, r)
    BY <1>4, <2>1, HelperAssumption DEF SettleCure, Settle
  <2>3. QED
    BY <2>2 DEF Next
<1>5. ASSUME NEW c \in CircleIds, NEW r \in Rounds, NEW m, NEW t \in Tokens,
             NEW nonce \in Nonces, SettlePayout(c, r, m, t, nonce)
      PROVE  Next
  <2>1. Settle(c, r)
    BY <1>5, HelperAssumption DEF SettlePayout, Settle
  <2>2. QED
    BY <2>1 DEF Next
<1>6. ASSUME NEW c \in CircleIds, NEW r \in Rounds, NEW m, NEW t \in Tokens,
             NEW nonce \in Nonces, SettleRecovery(c, r, m, t, nonce)
      PROVE  Next
  <2>1. Settle(c, r)
    BY <1>6, HelperAssumption DEF SettleRecovery, Settle
  <2>2. QED
    BY <2>1 DEF Next
<1>7. CASE \E t \in Tokens : normalize_surplus(t) \/ \E amount \in 1..OutsideFunds : donate(t, amount)
  BY <1>7 DEF normalize_surplus, donate
<1>8. CASE UNCHANGED allvars
  BY <1>8 DEF allvars
<1>9. CASE privacy_invoke
  BY <1>9, <1>3, <1>4, <1>5, <1>6 DEF privacy_invoke
<1>10. QED
  BY <1>2, <1>7, <1>8, <1>9 DEF HNext

-----------------------------------------------------------------------------
(* Tokens and books *)

LEMMA TransferMoves ==
  ASSUME CustodyTypes, NEW t \in Tokens, NEW from \in Account, NEW to \in Account, from # to,
         NEW amount \in Nat, transfer(t, from, to, amount)
  PROVE  /\ balances' \in [Tokens -> [Account -> Nat]]
         /\ balances'[t][from] = balances[t][from] - amount
         /\ balances'[t][to] = balances[t][to] + amount
         /\ \A a \in Account \ {from, to} : balances'[t][a] = balances[t][a]
         /\ \A u \in Tokens \ {t} : balances'[u] = balances[u]
<1> DEFINE b == balances[t]
           less == b[from] - amount
           more == b[to] + amount
           q == [b EXCEPT ![from] = less, ![to] = more]
<1>1. b \in [Account -> Nat] /\ less \in Nat /\ more \in Nat
  BY DEF CustodyTypes, transfer
<1>2. balances' = [balances EXCEPT ![t] = q]
  BY DEF transfer
<1> HIDE DEF less, more
<1>3. /\ q \in [Account -> Nat] /\ q[from] = less /\ q[to] = more
      /\ \A a \in Account \ {from, to} : q[a] = b[a]
  BY <1>1
<1> HIDE DEF q
<1>4. /\ balances' \in [Tokens -> [Account -> Nat]] /\ balances'[t] = q
      /\ \A u \in Tokens \ {t} : balances'[u] = balances[u]
  BY <1>2, <1>3 DEF CustodyTypes
<1>5. QED
  BY <1>3, <1>4 DEF less, more

CustodyKept == CustodyTypes' /\ BooksAgree' /\ Solvent' /\ RecordMatched

\* Books: one token and one round of it move by the same amount in both
\* contracts.
Booked(c, r, t, total, left) ==
  /\ token_liability' = [token_liability EXCEPT ![t] = total]
  /\ round_token_liability' = [round_token_liability EXCEPT ![<<c, r, t>>] = left]
  /\ token_outstanding_liability' = [token_outstanding_liability EXCEPT ![t] = total]
  /\ ledger'[<<c, r>>].outstanding = left
  /\ \A k \in (CircleIds \X Rounds) \ {<<c, r>>} : ledger'[k] = ledger[k]

LEMMA BooksMove ==
  ASSUME CustodyTypes, TypeOK, BooksAgree, UNCHANGED circles,
         NEW c \in CircleIds, NEW r \in Rounds, NEW total \in Nat, NEW left \in Nat,
         circles[c].asset \in Tokens, Booked(c, r, circles[c].asset, total, left)
  PROVE  /\ token_liability' \in [Tokens -> Nat] /\ token_liability'[circles[c].asset] = total
         /\ \A u \in Tokens \ {circles[c].asset} : token_liability'[u] = token_liability[u]
         /\ round_token_liability' \in [CircleIds \X Rounds \X Tokens -> Nat]
         /\ BooksAgree'
<1> DEFINE t == circles[c].asset
<1>1. /\ token_liability' \in [Tokens -> Nat] /\ token_liability'[t] = total
      /\ \A u \in Tokens \ {t} : token_liability'[u] = token_liability[u]
  BY DEF CustodyTypes, Booked
<1>2. \A u \in Tokens : token_liability'[u] = token_outstanding_liability'[u]
  BY <1>1 DEF TypeOK, Booked, BooksAgree
<1>3. round_token_liability' \in [CircleIds \X Rounds \X Tokens -> Nat]
  BY DEF CustodyTypes, Booked
<1>4. ASSUME NEW d \in CircleIds, NEW s \in Rounds, NEW u \in Tokens
      PROVE  round_token_liability'[<<d, s, u>>] =
               IF u = circles[d].asset THEN ledger'[<<d, s>>].outstanding ELSE 0
  <2>1. round_token_liability[<<d, s, u>>] =
          IF u = circles[d].asset THEN ledger[<<d, s>>].outstanding ELSE 0
    BY DEF BooksAgree
  <2>2. CASE d = c /\ s = r
    <3>1. CASE u = t
      BY <2>2, <3>1 DEF CustodyTypes, Booked
    <3>2. CASE u # t
      <4>1. round_token_liability'[<<d, s, u>>] = round_token_liability[<<d, s, u>>]
        BY <3>2 DEF CustodyTypes, Booked
      <4>2. QED
        BY <2>1, <2>2, <3>2, <4>1
    <3>3. QED
      BY <3>1, <3>2
  <2>3. CASE ~(d = c /\ s = r)
    <3>1. ledger'[<<d, s>>] = ledger[<<d, s>>]
      BY <2>3 DEF Booked
    <3>2. round_token_liability'[<<d, s, u>>] = round_token_liability[<<d, s, u>>]
      BY <2>3 DEF CustodyTypes, Booked
    <3>3. QED
      BY <2>1, <3>1, <3>2
  <2>4. QED
    BY <2>2, <2>3
<1>5. BooksAgree'
  BY <1>2, <1>4 DEF BooksAgree
<1>6. QED
  BY <1>1, <1>3, <1>5

-----------------------------------------------------------------------------
(* One lemma per step *)

LEMMA CoreMovesNoMoney ==
  ASSUME CoreStep
  PROVE  UNCHANGED <<ledger, token_outstanding_liability>>
<1>1. CASE Tick
  BY <1>1 DEF Tick, money
<1>2. ASSUME NEW cfg, create_circle(cfg)
      PROVE  UNCHANGED <<ledger, token_outstanding_liability>>
  BY <1>2 DEF create_circle, money
<1>3. CASE initialize_settlement_helper(SetupAuthority, Helper)
  BY <1>3 DEF initialize_settlement_helper, money
<1>4. ASSUME NEW c, NEW m, join_circle(c, m)
      PROVE  UNCHANGED <<ledger, token_outstanding_liability>>
  BY <1>4 DEF join_circle, money
<1>5. ASSUME NEW c, NEW r, NEW m, finalize_contribution_default(c, r, m)
      PROVE  UNCHANGED <<ledger, token_outstanding_liability>>
  BY <1>5 DEF finalize_contribution_default, money
<1>6. ASSUME NEW c, NEW r, finalize_round_payout_accounting(c, r)
      PROVE  UNCHANGED <<ledger, token_outstanding_liability>>
  BY <1>6 DEF finalize_round_payout_accounting, money
<1>7. ASSUME NEW c, prepare_final_settlement(c)
      PROVE  UNCHANGED <<ledger, token_outstanding_liability>>
  BY <1>7 DEF prepare_final_settlement, money
<1>8. ASSUME NEW c, NEW r, NEW nonce, authorize_payout_settlement(c, r, nonce)
      PROVE  UNCHANGED <<ledger, token_outstanding_liability>>
  BY <1>8 DEF authorize_payout_settlement, money
<1>9. QED
  BY <1>1, <1>2, <1>3, <1>4, <1>5, <1>6, <1>7, <1>8 DEF CoreStep, Keeper

\* Nothing is recorded and no tokens move.
LEMMA QuietStep ==
  ASSUME HelperInv, [Next]_vars, UNCHANGED custody,
         UNCHANGED <<ledger, token_outstanding_liability>>
  PROVE  CustodyKept
<1>1. CustodyTypes /\ BooksAgree /\ Solvent /\ MoneyInv /\ ClaimsInv
  BY DEF HelperInv, MoneyInv
<1>2. UNCHANGED <<balances, token_liability, round_token_liability>>
  BY DEF custody
<1>3. ASSUME NEW c \in CircleIds, NEW r \in Rounds, NEW t \in Tokens
      PROVE  round_token_liability'[<<c, r, t>>] =
               IF t = circles'[c].asset THEN ledger'[<<c, r>>].outstanding ELSE 0
  <2>1. round_token_liability[<<c, r, t>>] =
          IF t = circles[c].asset THEN ledger[<<c, r>>].outstanding ELSE 0
    BY <1>1 DEF BooksAgree
  <2>2. CASE TermsKept(c)
    BY <1>2, <2>1, <2>2 DEF TermsKept
  <2>3. CASE Opened(c)
    <3>1. ledger[<<c, r>>].outstanding = 0
      BY <1>1, <2>3, AbsentHoldsNothing DEF Opened
    <3>2. QED
      BY <1>2, <2>1, <3>1
  <2>4. QED
    BY <1>1, <2>2, <2>3, CircleTerms
<1>4. BooksAgree'
  BY <1>1, <1>2, <1>3 DEF BooksAgree
<1>5. RecordMatched
  <2>1. ASSUME NEW k \in CircleIds \X Rounds
        PROVE  ~(ledger'[k].inflows > ledger[k].inflows) /\ ~(ledger'[k].outflows > ledger[k].outflows)
    <3>1. ledger[k].inflows \in Nat /\ ledger[k].outflows \in Nat
      BY <1>1 DEF ClaimsInv, TypeInv, TypeOK, RoundLiability
    <3>2. QED
      BY <3>1
  <2>2. QED
    BY <1>2, <2>1 DEF RecordMatched
<1>6. QED
  BY <1>1, <1>2, <1>4, <1>5 DEF CustodyKept, CustodyTypes, Solvent

\* A contribution or a cure: the invoke asserts the exact balance.
LEMMA InboundStep ==
  ASSUME HelperInv, UNCHANGED circles, NEW c \in CircleIds, NEW r \in Rounds, NEW t \in Tokens,
         NEW amount \in Nat, NEW withdrawn \in Nat, t = circles[c].asset,
         assert_exact_inbound_balance(t, amount, withdrawn),
         credit_round_liability(c, r, amount), credit_liability(c, r, t, amount),
         transfer(t, "pool", "helper", withdrawn)
  PROVE  CustodyKept
<1> DEFINE total == token_liability[t] + amount
           left  == round_token_liability[<<c, r, t>>] + amount
<1>1. CustodyTypes /\ BooksAgree /\ Solvent /\ TypeOK
  BY DEF HelperInv, MoneyInv, ClaimsInv, TypeInv
<1>2. /\ token_liability[t] = token_outstanding_liability[t]
      /\ round_token_liability[<<c, r, t>>] = ledger[<<c, r>>].outstanding
      /\ total \in Nat /\ left \in Nat /\ token_liability[t] \in Nat
  BY <1>1 DEF BooksAgree, CustodyTypes
<1>3. /\ ledger'[<<c, r>>].inflows = ledger[<<c, r>>].inflows + amount
      /\ ledger'[<<c, r>>].outflows = ledger[<<c, r>>].outflows
      /\ ledger'[<<c, r>>].outstanding = left
      /\ \A k \in (CircleIds \X Rounds) \ {<<c, r>>} : ledger'[k] = ledger[k]
  BY <1>1, <1>2, CreditLedger
<1>4. /\ token_liability' = [token_liability EXCEPT ![t] = total]
      /\ round_token_liability' = [round_token_liability EXCEPT ![<<c, r, t>>] = left]
  BY DEF credit_liability
<1>5. token_outstanding_liability' = [token_outstanding_liability EXCEPT ![t] = total]
  BY <1>2 DEF credit_round_liability
<1> HIDE DEF left
<1>6. Booked(c, r, t, total, left)
  BY <1>3, <1>4, <1>5 DEF Booked
<1>7. /\ token_liability' \in [Tokens -> Nat] /\ token_liability'[t] = total
      /\ \A u \in Tokens \ {t} : token_liability'[u] = token_liability[u]
      /\ round_token_liability' \in [CircleIds \X Rounds \X Tokens -> Nat]
      /\ BooksAgree'
  BY <1>1, <1>2, <1>6, BooksMove
<1>8. /\ balances' \in [Tokens -> [Account -> Nat]]
      /\ balances'[t]["helper"] = balances[t]["helper"] + withdrawn
      /\ balances'[t]["sink"] = balances[t]["sink"]
      /\ \A u \in Tokens \ {t} : balances'[u] = balances[u]
  <2>1. "pool" \in Account /\ "helper" \in Account /\ "sink" \in Account \ {"pool", "helper"}
    BY DEF Account
  <2>2. /\ balances' \in [Tokens -> [Account -> Nat]]
        /\ balances'[t]["pool"] = balances[t]["pool"] - withdrawn
        /\ balances'[t]["helper"] = balances[t]["helper"] + withdrawn
        /\ \A a \in Account \ {"pool", "helper"} : balances'[t][a] = balances[t][a]
        /\ \A u \in Tokens \ {t} : balances'[u] = balances[u]
    BY <1>1, <2>1, TransferMoves
  <2>3. QED
    BY <2>1, <2>2
<1>9. balances'[t]["helper"] = total
  BY <1>8 DEF assert_exact_inbound_balance
<1>10. Solvent'
  <2> SUFFICES ASSUME NEW u \in Tokens PROVE balances'[u]["helper"] >= token_liability'[u]
    BY DEF Solvent
  <2>1. CASE u = t
    BY <1>2, <1>7, <1>9, <2>1
  <2>2. CASE u # t
    BY <1>1, <1>7, <1>8, <2>2 DEF Solvent
  <2>3. QED
    BY <2>1, <2>2
<1>11. ASSUME NEW k \in CircleIds \X Rounds
       PROVE  /\ ledger'[k].inflows > ledger[k].inflows =>
                   balances'[circles[k[1]].asset]["helper"] =
                     token_liability[circles[k[1]].asset] + (ledger'[k].inflows - ledger[k].inflows)
              /\ ~(ledger'[k].outflows > ledger[k].outflows)
  <2>1. ledger[k].inflows \in Nat /\ ledger[k].outflows \in Nat
    BY <1>1 DEF TypeOK, RoundLiability
  <2>2. CASE k = <<c, r>>
    BY <1>2, <1>3, <1>9, <2>1, <2>2
  <2>3. CASE k # <<c, r>>
    BY <1>3, <2>1, <2>3
  <2>4. QED
    BY <2>2, <2>3
<1>12. ASSUME NEW u \in Tokens PROVE balances'[u]["sink"] = balances[u]["sink"]
  BY <1>8
<1>13. RecordMatched
  BY <1>11, <1>12 DEF RecordMatched
<1>14. QED
  BY <1>7, <1>8, <1>10, <1>13 DEF CustodyKept, CustodyTypes

\* A payout or a recovery leaves for the pool, out of the round's own tokens.
LEMMA OutboundStep ==
  ASSUME HelperInv, UNCHANGED circles, NEW c \in CircleIds, NEW r \in Rounds, NEW t \in Tokens,
         NEW amount \in Nat, t = circles[c].asset,
         debit_round_liability(c, r, amount), debit_liability(c, r, t, amount),
         transfer(t, "helper", "pool", amount)
  PROVE  CustodyKept
<1> DEFINE total == token_liability[t] - amount
           left  == round_token_liability[<<c, r, t>>] - amount
<1>1. CustodyTypes /\ BooksAgree /\ Solvent /\ TypeOK
  BY DEF HelperInv, MoneyInv, ClaimsInv, TypeInv
<1>2. /\ token_liability[t] = token_outstanding_liability[t]
      /\ round_token_liability[<<c, r, t>>] = ledger[<<c, r>>].outstanding
      /\ total \in Nat /\ left \in Nat /\ token_liability[t] \in Nat
  BY <1>1 DEF BooksAgree, CustodyTypes, debit_liability
<1>3. /\ ledger'[<<c, r>>].inflows = ledger[<<c, r>>].inflows
      /\ ledger'[<<c, r>>].outflows = ledger[<<c, r>>].outflows + amount
      /\ ledger'[<<c, r>>].outstanding = left
      /\ \A k \in (CircleIds \X Rounds) \ {<<c, r>>} : ledger'[k] = ledger[k]
  BY <1>1, <1>2, DebitLedger
<1>4. /\ token_liability' = [token_liability EXCEPT ![t] = total]
      /\ round_token_liability' = [round_token_liability EXCEPT ![<<c, r, t>>] = left]
  BY DEF debit_liability
<1>5. token_outstanding_liability' = [token_outstanding_liability EXCEPT ![t] = total]
  BY <1>2 DEF debit_round_liability
<1> HIDE DEF left
<1>6. Booked(c, r, t, total, left)
  BY <1>3, <1>4, <1>5 DEF Booked
<1>7. /\ token_liability' \in [Tokens -> Nat] /\ token_liability'[t] = total
      /\ \A u \in Tokens \ {t} : token_liability'[u] = token_liability[u]
      /\ round_token_liability' \in [CircleIds \X Rounds \X Tokens -> Nat]
      /\ BooksAgree'
  BY <1>1, <1>2, <1>6, BooksMove
<1>8. /\ balances' \in [Tokens -> [Account -> Nat]]
      /\ balances'[t]["helper"] = balances[t]["helper"] - amount
      /\ balances'[t]["pool"] = balances[t]["pool"] + amount
      /\ balances'[t]["sink"] = balances[t]["sink"]
      /\ \A u \in Tokens \ {t} : balances'[u] = balances[u]
  <2>1. "pool" \in Account /\ "helper" \in Account /\ "sink" \in Account \ {"pool", "helper"}
    BY DEF Account
  <2>2. /\ balances' \in [Tokens -> [Account -> Nat]]
        /\ balances'[t]["helper"] = balances[t]["helper"] - amount
        /\ balances'[t]["pool"] = balances[t]["pool"] + amount
        /\ \A a \in Account \ {"helper", "pool"} : balances'[t][a] = balances[t][a]
        /\ \A u \in Tokens \ {t} : balances'[u] = balances[u]
    BY <1>1, <2>1, TransferMoves
  <2>3. QED
    BY <2>1, <2>2
<1>9. balances[t]["helper"] \in Nat /\ balances[t]["helper"] >= token_liability[t]
  BY <1>1 DEF CustodyTypes, Account, Solvent
<1>10. Solvent'
  <2> SUFFICES ASSUME NEW u \in Tokens PROVE balances'[u]["helper"] >= token_liability'[u]
    BY DEF Solvent
  <2>1. CASE u = t
    BY <1>2, <1>7, <1>8, <1>9, <2>1
  <2>2. CASE u # t
    BY <1>1, <1>7, <1>8, <2>2 DEF Solvent
  <2>3. QED
    BY <2>1, <2>2
<1>11. ASSUME NEW k \in CircleIds \X Rounds
       PROVE  /\ ~(ledger'[k].inflows > ledger[k].inflows)
              /\ ledger'[k].outflows > ledger[k].outflows =>
                   balances'[circles[k[1]].asset]["pool"] =
                     balances[circles[k[1]].asset]["pool"] + (ledger'[k].outflows - ledger[k].outflows)
  <2>1. ledger[k].inflows \in Nat /\ ledger[k].outflows \in Nat
    BY <1>1 DEF TypeOK, RoundLiability
  <2>2. CASE k = <<c, r>>
    BY <1>3, <1>8, <2>1, <2>2
  <2>3. CASE k # <<c, r>>
    BY <1>3, <2>1, <2>3
  <2>4. QED
    BY <2>2, <2>3
<1>12. ASSUME NEW u \in Tokens PROVE balances'[u]["sink"] = balances[u]["sink"]
  BY <1>8
<1>13. RecordMatched
  BY <1>11, <1>12 DEF RecordMatched
<1>14. QED
  BY <1>7, <1>8, <1>10, <1>13 DEF CustodyKept, CustodyTypes

\* Tokens come or go beside the books; those that leave are the surplus.
LEMMA BesideStep ==
  ASSUME HelperInv, NEW t \in Tokens, UNCHANGED <<vars, token_liability, round_token_liability>>,
         balances' \in [Tokens -> [Account -> Nat]],
         balances'[t]["helper"] >= token_liability[t],
         \A u \in Tokens \ {t} : balances'[u] = balances[u],
         \/ balances'[t]["sink"] = balances[t]["sink"]
         \/ balances'[t]["sink"] - balances[t]["sink"] = Surplus(t)
  PROVE  CustodyKept
<1>1. CustodyTypes /\ BooksAgree /\ Solvent /\ TypeOK
  BY DEF HelperInv, MoneyInv, ClaimsInv, TypeInv
<1>2. CustodyTypes'
  BY <1>1 DEF CustodyTypes
<1>3. UNCHANGED <<circles, ledger, token_outstanding_liability>>
  BY DEF vars, lifecycle, money
<1>4. BooksAgree'
  BY <1>1, <1>3 DEF BooksAgree
<1>5. Solvent'
  <2> SUFFICES ASSUME NEW u \in Tokens PROVE balances'[u]["helper"] >= token_liability'[u]
    BY DEF Solvent
  <2>1. CASE u = t
    BY <2>1
  <2>2. CASE u # t
    BY <1>1, <2>2 DEF Solvent
  <2>3. QED
    BY <2>1, <2>2
<1>6. ASSUME NEW k \in CircleIds \X Rounds
      PROVE  ~(ledger'[k].inflows > ledger[k].inflows) /\ ~(ledger'[k].outflows > ledger[k].outflows)
  <2>1. ledger[k].inflows \in Nat /\ ledger[k].outflows \in Nat
    BY <1>1 DEF TypeOK, RoundLiability
  <2>2. QED
    BY <1>3, <2>1
<1>7. ASSUME NEW u \in Tokens, balances'[u]["sink"] # balances[u]["sink"]
      PROVE  balances'[u]["sink"] - balances[u]["sink"] = Surplus(u)
  <2>1. u = t
    BY <1>7
  <2>2. QED
    BY <1>7, <2>1
<1>8. UNCHANGED <<vars, token_liability>>
  OBVIOUS
<1>9. RecordMatched
  BY <1>6, <1>7, <1>8 DEF RecordMatched
<1>10. QED
  BY <1>2, <1>4, <1>5, <1>9 DEF CustodyKept

LEMMA NormalizeStep ==
  ASSUME HelperInv, NEW t \in Tokens, normalize_surplus(t)
  PROVE  CustodyKept
<1>1. CustodyTypes /\ "helper" \in Account /\ "sink" \in Account
  BY DEF HelperInv, Account
<1>2. balances[t]["helper"] \in Nat /\ balances[t]["sink"] \in Nat /\ token_liability[t] \in Nat
  BY <1>1 DEF CustodyTypes
<1>3. Surplus(t) \in Nat
  BY <1>2 DEF normalize_surplus, Surplus
<1>4. transfer(t, "helper", "sink", Surplus(t))
  BY DEF normalize_surplus
<1>5. /\ balances' \in [Tokens -> [Account -> Nat]]
      /\ balances'[t]["helper"] = balances[t]["helper"] - Surplus(t)
      /\ balances'[t]["sink"] = balances[t]["sink"] + Surplus(t)
      /\ \A u \in Tokens \ {t} : balances'[u] = balances[u]
  BY <1>1, <1>3, <1>4, TransferMoves
<1>6. balances'[t]["helper"] >= token_liability[t]
  BY <1>2, <1>5 DEF Surplus
<1>7. balances'[t]["sink"] - balances[t]["sink"] = Surplus(t)
  BY <1>2, <1>3, <1>5
<1>8. QED
  BY <1>5, <1>6, <1>7, BesideStep DEF normalize_surplus

LEMMA DonateStep ==
  ASSUME HelperInv, NEW t \in Tokens, NEW amount \in Nat, donate(t, amount)
  PROVE  CustodyKept
<1>1. /\ CustodyTypes /\ Solvent /\ "helper" \in Account /\ "outside" \in Account
      /\ "sink" \in Account \ {"outside", "helper"}
  BY DEF HelperInv, Account
<1>2. transfer(t, "outside", "helper", amount)
  BY DEF donate
<1>3. /\ balances' \in [Tokens -> [Account -> Nat]]
      /\ balances'[t]["helper"] = balances[t]["helper"] + amount
      /\ \A a \in Account \ {"outside", "helper"} : balances'[t][a] = balances[t][a]
      /\ \A u \in Tokens \ {t} : balances'[u] = balances[u]
  BY <1>1, <1>2, TransferMoves
<1>4. /\ balances[t]["helper"] \in Nat /\ token_liability[t] \in Nat
      /\ balances[t]["helper"] >= token_liability[t]
  BY <1>1 DEF CustodyTypes, Solvent
<1>5. balances'[t]["helper"] >= token_liability[t]
  BY <1>3, <1>4
<1>6. balances'[t]["sink"] = balances[t]["sink"]
  BY <1>1, <1>3
<1>7. QED
  BY <1>3, <1>5, <1>6, BesideStep DEF donate

LEMMA InvokeStep ==
  ASSUME HelperInv, privacy_invoke
  PROVE  CustodyKept
<1>1. TypeOK
  BY DEF HelperInv, MoneyInv, ClaimsInv, TypeInv
<1>2. 0..MaxWithdraw \subseteq Nat
  BY HelperAssumption
<1>3. \A c \in CircleIds, r \in Rounds :
        /\ circles[c].contribution_amount \in Nat
        /\ payout_states[<<c, r>>].amount \in Nat /\ recovery_amounts[<<c, r>>] \in Nat
  BY <1>1 DEF TypeOK, CircleRecord, PayoutState
<1>4. ASSUME NEW c \in CircleIds, NEW r \in Rounds, NEW m \in MemberRefs, NEW t \in Tokens,
             NEW nonce, NEW withdrawn \in Nat, SettleContribution(c, r, m, t, nonce, withdrawn)
      PROVE  CustodyKept
  <2> DEFINE amount == circles[c].contribution_amount
  <2>1. /\ t = circles[c].asset /\ amount \in Nat
        /\ assert_exact_inbound_balance(t, amount, withdrawn)
        /\ settle_contribution_from_helper(Helper, c, r, m, t, amount, nonce)
        /\ credit_liability(c, r, t, amount) /\ transfer(t, "pool", "helper", withdrawn)
    BY <1>3, <1>4 DEF SettleContribution, assert_circle_token
  <2> HIDE DEF amount
  <2>2. UNCHANGED circles /\ credit_round_liability(c, r, amount)
    BY <2>1 DEF settle_contribution_from_helper, lifecycle
  <2>3. QED
    BY <2>1, <2>2, InboundStep
<1>5. ASSUME NEW c \in CircleIds, NEW r \in Rounds, NEW m \in MemberRefs, NEW t \in Tokens,
             NEW nonce, NEW withdrawn \in Nat, SettleCure(c, r, m, t, nonce, withdrawn)
      PROVE  CustodyKept
  <2> DEFINE amount == circles[c].contribution_amount
  <2>1. /\ t = circles[c].asset /\ amount \in Nat
        /\ assert_exact_inbound_balance(t, amount, withdrawn)
        /\ settle_cure_from_helper(Helper, c, r, m, t, amount, nonce)
        /\ credit_liability(c, r, t, amount) /\ transfer(t, "pool", "helper", withdrawn)
    BY <1>3, <1>5 DEF SettleCure, assert_circle_token
  <2> HIDE DEF amount
  <2>2. UNCHANGED circles /\ credit_round_liability(c, r, amount)
    BY <2>1 DEF settle_cure_from_helper, lifecycle
  <2>3. QED
    BY <2>1, <2>2, InboundStep
<1>6. ASSUME NEW c \in CircleIds, NEW r \in Rounds, NEW m, NEW t \in Tokens, NEW nonce,
             SettlePayout(c, r, m, t, nonce)
      PROVE  CustodyKept
  <2> DEFINE amount == payout_states[<<c, r>>].amount
  <2>1. /\ t = circles[c].asset /\ amount \in Nat
        /\ settle_payout_from_helper(Helper, c, r, t, nonce)
        /\ debit_liability(c, r, t, amount) /\ transfer(t, "helper", "pool", amount)
    BY <1>3, <1>6 DEF SettlePayout, assert_circle_token
  <2>2. UNCHANGED circles /\ debit_round_liability(c, r, amount)
    BY <2>1 DEF settle_payout_from_helper, lifecycle
  <2> HIDE DEF amount
  <2>3. QED
    BY <2>1, <2>2, OutboundStep
<1>7. ASSUME NEW c \in CircleIds, NEW r \in Rounds, NEW m, NEW t \in Tokens, NEW nonce,
             SettleRecovery(c, r, m, t, nonce)
      PROVE  CustodyKept
  <2> DEFINE amount == recovery_amounts[<<c, r>>]
  <2>1. /\ t = circles[c].asset /\ amount \in Nat
        /\ settle_recovery_from_helper(Helper, c, r, t, nonce)
        /\ debit_liability(c, r, t, amount) /\ transfer(t, "helper", "pool", amount)
    BY <1>3, <1>7 DEF SettleRecovery, assert_circle_token
  <2>2. UNCHANGED circles /\ debit_round_liability(c, r, amount)
    BY <2>1 DEF settle_recovery_from_helper, lifecycle
  <2> HIDE DEF amount
  <2>3. QED
    BY <2>1, <2>2, OutboundStep
<1>8. QED
  BY <1>2, <1>4, <1>5, <1>6, <1>7 DEF privacy_invoke

-----------------------------------------------------------------------------
(* The invariant is inductive *)

LEMMA CustodyStep == HelperInv /\ [HNext]_allvars => CustodyKept
<1> SUFFICES ASSUME HelperInv, [HNext]_allvars PROVE CustodyKept
  OBVIOUS
<1>1. [Next]_vars
  BY CoreIsNext
<1>2. CASE CoreStep
  BY <1>1, <1>2, CoreMovesNoMoney, QuietStep DEF CoreStep
<1>3. CASE privacy_invoke
  BY <1>3, InvokeStep
<1>4. ASSUME NEW t \in Tokens, NEW amount \in 1..OutsideFunds, donate(t, amount)
      PROVE  CustodyKept
  BY <1>4, HelperAssumption, DonateStep
<1>5. CASE UNCHANGED allvars
  BY <1>1, <1>5, QuietStep DEF allvars, vars, money
<1>6. QED
  BY <1>2, <1>3, <1>4, <1>5, NormalizeStep DEF HNext

LEMMA HelperInit == HInit => HelperInv
<1> SUFFICES ASSUME HInit PROVE HelperInv
  OBVIOUS
<1>1. Init
  BY DEF HInit
<1>2. MoneyInv
  BY <1>1, MoneyInit
<1>3. Priced
  BY <1>1 DEF Init, NoCircle, Priced
<1>4. CustodyTypes
  BY HelperAssumption DEF HInit, CustodyTypes, Account
<1>5. BooksAgree
  BY <1>1 DEF HInit, Init, NoLiability, BooksAgree
<1>6. Solvent
  BY <1>4 DEF HInit, Solvent, CustodyTypes, Account
<1>7. QED
  BY <1>2, <1>3, <1>4, <1>5, <1>6 DEF HelperInv

LEMMA HelperStep == HelperInv /\ [HNext]_allvars => HelperInv'
<1> SUFFICES ASSUME HelperInv, [HNext]_allvars PROVE HelperInv'
  OBVIOUS
<1>1. [Next]_vars
  BY CoreIsNext
<1>2. MoneyInv'
  BY <1>1, MoneyStep DEF HelperInv
<1>3. Priced'
  BY <1>1, PricedStep DEF HelperInv, MoneyInv
<1>4. QED
  BY <1>2, <1>3, CustodyStep DEF HelperInv, CustodyKept

LEMMA HelperInvariant == HSpec => []HelperInv
BY HelperInit, HelperStep, PTL DEF HSpec

-----------------------------------------------------------------------------
(* Theorems *)

\* The helper is one lawful caller of the circle contract: seen through the
\* variables of the circle, the two together behave as the contract alone does
\* for all callers, and every theorem about it holds behind the helper.
THEOREM HelperImplementsCircle == HSpec => Spec
<1>1. HInit => Init
  BY DEF HInit
<1>2. HelperInv /\ [HNext]_allvars => [Next]_vars
  BY CoreIsNext
<1>3. QED
  BY <1>1, <1>2, HelperInvariant, PTL DEF HSpec, Spec

\* The books of the helper and of the circle contract, written by two contracts
\* in the course of one settlement, agree for every round and token.
THEOREM BooksAgreeHolds == HSpec => []BooksAgree
<1>1. HelperInv => BooksAgree
  BY DEF HelperInv
<1>2. QED
  BY <1>1, HelperInvariant, PTL

\* The same with the totals: each of the four maps of the two contracts says the
\* same of the money of a token, and the totals are the sums of the rounds.
THEOREM LedgersAgreeHolds == HSpec => []LedgersAgree
<1>1. HSpec => []TokenTotals
  BY HelperImplementsCircle, TokenTotalsHolds
<1>2. QED
  BY <1>1, BooksAgreeHolds, PTL DEF LedgersAgree

\* The tokens in the account cover the books of all circles that share it, after
\* any contributions, cures, payouts, recoveries, donations and normalizations.
THEOREM SolventHolds == HSpec => []Solvent
<1>1. HelperInv => Solvent
  BY DEF HelperInv
<1>2. QED
  BY <1>1, HelperInvariant, PTL

\* The circle contract records no movement of money that the tokens do not make
\* in the same step, and what normalize_surplus sends away is surplus.
THEOREM RecordsMatchTokensHolds == HSpec => RecordsMatchTokens
<1>1. HelperInv /\ [HNext]_allvars => [RecordMatched]_allvars
  BY CustodyStep DEF CustodyKept
<1>2. QED
  BY <1>1, HelperInvariant, PTL DEF HSpec, RecordsMatchTokens

-----------------------------------------------------------------------------
(* What the client tells.  The invariant adds how many have taken their    *)
(* place, that a round is locked only by somebody's default, and that      *)
(* recoveries come with the final settlement.                              *)

\* The places taken of a circle.
Seated(c) ==
  /\ circles[c].status = "Absent" => joined[c] = {}
  /\ circles[c].status # "Absent" =>
       /\ joined[c] \subseteq Participants(c)
       /\ circles[c].joined_count = Cardinality(joined[c])
  /\ circles[c].status = "OpenForMembers" => circles[c].joined_count < circles[c].member_limit
  /\ Begun(c) => circles[c].joined_count = circles[c].member_limit

Defaulted(c, r) == \E m \in Participants(c) : obligations[<<c, r, m>>].status = "MissedDefault"

Late == {"RecoveryPending", "NoFundedRecovery", "Recovered"}

Locked(c, r) ==
  /\ payout_states[<<c, r>>].status = "DeferredLocked" => Defaulted(c, r)
  /\ payout_states[<<c, r>>].status \in Late => circles[c].status = "SettlementPending"

\* The grace period comes after the deadline.
InWindows(k) == obligations[k].due_at <= obligations[k].grace_ends_at

SeatsInv ==
  /\ \A c \in CircleIds : Seated(c) /\ \A r \in Rounds : Locked(c, r)
  /\ \A k \in CircleIds \X Rounds \X MemberRefs : InWindows(k)

\* What a step may do to the places of a circle.
SeatsStay(c) ==
  /\ joined'[c] = joined[c] /\ circles'[c].joined_count = circles[c].joined_count
  /\ circles'[c].member_limit = circles[c].member_limit
  /\ circles'[c].payout_order = circles[c].payout_order
  /\ \A s \in {"Absent", "OpenForMembers"} : circles'[c].status = s <=> circles[c].status = s

SeatsOpen(c) ==
  /\ circles[c].status = "Absent" /\ circles'[c].status = "OpenForMembers"
  /\ circles'[c].joined_count = 0 /\ circles'[c].member_limit >= 2 /\ joined'[c] = joined[c]

SeatTaken(c) ==
  \E m \in MemberRefs :
    /\ circles[c].status = "OpenForMembers" /\ m \in Participants(c) \ joined[c]
    /\ joined'[c] = joined[c] \cup {m}
    /\ circles'[c].joined_count = circles[c].joined_count + 1
    /\ circles'[c].member_limit = circles[c].member_limit
    /\ circles'[c].payout_order = circles[c].payout_order
    /\ circles'[c].status = IF circles'[c].joined_count = circles[c].member_limit
                            THEN "Active" ELSE "OpenForMembers"

SeatStep(c) == SeatsStay(c) \/ SeatsOpen(c) \/ SeatTaken(c)

LEMMA UpdateKeepsSeats ==
  ASSUME TypeOK, NEW c \in CircleIds, UNCHANGED joined, NEW n, NEW s,
         \/ circles' = [circles EXCEPT ![c] = [circles[c] EXCEPT !.current_round = n]]
         \/ /\ circles' = [circles EXCEPT ![c] = [circles[c] EXCEPT !.status = s]]
            /\ {s, circles[c].status} \cap {"Absent", "OpenForMembers"} = {},
         NEW d \in CircleIds
  PROVE  SeatStep(d)
<1>1. circles[c] \in CircleRecord
  BY DEF TypeOK
<1> DEFINE round  == [circles[c] EXCEPT !.current_round = n]
           status == [circles[c] EXCEPT !.status = s]
<1>3. /\ round.joined_count = circles[c].joined_count /\ round.member_limit = circles[c].member_limit
      /\ round.payout_order = circles[c].payout_order /\ round.status = circles[c].status
  BY <1>1 DEF CircleRecord
<1>4. /\ status.joined_count = circles[c].joined_count /\ status.member_limit = circles[c].member_limit
      /\ status.payout_order = circles[c].payout_order /\ status.status = s
  BY <1>1 DEF CircleRecord
<1> HIDE DEF round, status
<1>2. PICK rec : /\ circles' = [circles EXCEPT ![c] = rec]
                 /\ rec.joined_count = circles[c].joined_count
                 /\ rec.member_limit = circles[c].member_limit
                 /\ rec.payout_order = circles[c].payout_order
                 /\ \A t \in {"Absent", "OpenForMembers"} : rec.status = t <=> circles[c].status = t
  <2>1. CASE circles' = [circles EXCEPT ![c] = round]
    BY <1>3, <2>1
  <2>2. CASE /\ circles' = [circles EXCEPT ![c] = status]
             /\ {s, circles[c].status} \cap {"Absent", "OpenForMembers"} = {}
    BY <1>4, <2>2
  <2> QED BY <2>1, <2>2 DEF round, status
<1> QED
  BY <1>2 DEF SeatStep, SeatsStay, TypeOK

LEMMA JoinSeats ==
  ASSUME TypeOK, NEW c \in CircleIds, NEW m \in MemberRefs, join_circle(c, m), NEW d \in CircleIds
  PROVE  SeatStep(d)
<1> DEFINE count  == circles[c].joined_count + 1
           status == IF count = circles[c].member_limit THEN "Active" ELSE circles[c].status
           rec == [circles[c] EXCEPT !.joined_count = count, !.status = status]
<1>1. /\ circles' = [circles EXCEPT ![c] = rec] /\ joined' = [joined EXCEPT ![c] = @ \cup {m}]
      /\ circles[c].status = "OpenForMembers" /\ m \in Participants(c) \ joined[c]
  BY DEF join_circle
<1>2. /\ rec.joined_count = count /\ rec.status = status
      /\ rec.member_limit = circles[c].member_limit /\ rec.payout_order = circles[c].payout_order
  <2> circles[c] \in CircleRecord
    BY DEF TypeOK
  <2> HIDE DEF count, status
  <2> QED
    BY DEF CircleRecord
<1> HIDE DEF rec
<1>3. circles \in [CircleIds -> CircleRecord] /\ joined \in [CircleIds -> SUBSET MemberRefs]
  BY DEF TypeOK
<1>4. circles'[c] = rec /\ joined'[c] = joined[c] \cup {m}
  BY <1>1, <1>3
<1>5. CASE d = c
  <2>1. SeatTaken(c)
    BY <1>1, <1>2, <1>4 DEF SeatTaken
  <2> QED BY <1>5, <2>1 DEF SeatStep
<1>6. CASE d # c
  BY <1>1, <1>3, <1>6 DEF SeatStep, SeatsStay
<1> QED
  BY <1>5, <1>6

LEMMA AnySeats ==
  ASSUME ClaimsInv, [Next]_vars, NEW d \in CircleIds
  PROVE  SeatStep(d)
<1>1. TypeOK
  BY DEF ClaimsInv, TypeInv
<1>2. ASSUME UNCHANGED <<circles, joined>> PROVE SeatStep(d)
  BY <1>2 DEF SeatStep, SeatsStay
<1>3. CASE Tick \/ UNCHANGED vars
  BY <1>2, <1>3 DEF Tick, vars, lifecycle
<1>4. ASSUME NEW cfg \in Configs, create_circle(cfg) PROVE SeatStep(d)
  <2> DEFINE id == next_circle_id + 1
             rec == [asset |-> cfg.token, contribution_amount |-> cfg.contribution_amount,
                     cadence_seconds |-> cfg.cadence_seconds,
                     grace_period_seconds |-> cfg.grace_period_seconds,
                     member_limit |-> cfg.member_limit, current_round |-> 1,
                     status |-> "OpenForMembers", joined_count |-> 0,
                     payout_order |-> cfg.payout_order]
  <2>1. id \in CircleIds /\ circles' = [circles EXCEPT ![id] = rec] /\ UNCHANGED joined
    BY <1>4 DEF create_circle
  <2>2. circles[id].status = "Absent"
    BY <1>1, <2>1 DEF ClaimsInv, Counted, TypeOK
  <2>3. rec.status = "OpenForMembers" /\ rec.joined_count = 0 /\ rec.member_limit >= 2
    BY <1>4 DEF create_circle
  <2> HIDE DEF id, rec
  <2>4. CASE d = id
    BY <1>1, <2>1, <2>2, <2>3, <2>4 DEF SeatStep, SeatsOpen, TypeOK
  <2>5. CASE d # id
    BY <1>1, <2>1, <2>5 DEF SeatStep, SeatsStay, TypeOK
  <2> QED
    BY <2>4, <2>5
<1>5. ASSUME NEW caller, NEW helper, initialize_settlement_helper(caller, helper)
      PROVE  SeatStep(d)
  BY <1>2, <1>5 DEF initialize_settlement_helper
<1>6. ASSUME NEW c \in CircleIds, NEW m \in MemberRefs, join_circle(c, m) PROVE SeatStep(d)
  BY <1>1, <1>6, JoinSeats
<1>7. ASSUME NEW c, NEW r, NEW m, finalize_contribution_default(c, r, m) PROVE SeatStep(d)
  BY <1>2, <1>7 DEF finalize_contribution_default, lifecycle
<1>8. ASSUME NEW c \in CircleIds, NEW r, finalize_round_payout_accounting(c, r)
      PROVE  SeatStep(d)
  BY <1>1, <1>2, <1>8, UpdateKeepsSeats DEF finalize_round_payout_accounting
<1>9. ASSUME NEW c, NEW r, NEW nonce, authorize_payout_settlement(c, r, nonce)
      PROVE  SeatStep(d)
  BY <1>2, <1>9 DEF authorize_payout_settlement, lifecycle
<1>10. ASSUME NEW c \in CircleIds, prepare_final_settlement(c) PROVE SeatStep(d)
  <2>1. /\ circles' = [circles EXCEPT ![c] = [circles[c] EXCEPT !.status = "SettlementPending"]]
        /\ circles[c].status = "Active" /\ UNCHANGED joined
    BY <1>10 DEF prepare_final_settlement
  <2>2. {"SettlementPending", circles[c].status} \cap {"Absent", "OpenForMembers"} = {}
    BY <2>1
  <2> QED BY <1>1, <2>1, <2>2, UpdateKeepsSeats
<1>11. ASSUME NEW caller, NEW c, NEW r, NEW token, NEW nonce, NEW m, NEW amount,
              \/ settle_contribution_from_helper(caller, c, r, m, token, amount, nonce)
              \/ settle_cure_from_helper(caller, c, r, m, token, amount, nonce)
              \/ settle_payout_from_helper(caller, c, r, token, nonce)
              \/ settle_recovery_from_helper(caller, c, r, token, nonce)
       PROVE  SeatStep(d)
  BY <1>2, <1>11 DEF settle_contribution_from_helper, settle_cure_from_helper,
     settle_payout_from_helper, settle_recovery_from_helper, lifecycle
<1>12. ASSUME NEW c \in CircleIds, NEW r \in Rounds, Settle(c, r) PROVE SeatStep(d)
  BY <1>11, <1>12 DEF Settle
<1> QED
  BY <1>3, <1>4, <1>5, <1>6, <1>7, <1>8, <1>9, <1>10, <1>12 DEF Next, Keeper

LEMMA SeatedStep ==
  ASSUME ClaimsInv, TypeInv', NEW c \in CircleIds, Seated(c), SeatStep(c)
  PROVE  Seated(c)'
<1>1. /\ TypeInv
      /\ circles[c].status \in CircleStatus /\ circles'[c].status \in CircleStatus
      /\ circles[c].joined_count \in Nat /\ circles[c].member_limit \in Nat
      /\ circles'[c].joined_count \in Nat /\ circles'[c].member_limit \in Nat
  BY DEF ClaimsInv, TypeInv, TypeOK, CircleRecord
<1>2. CASE SeatsStay(c)
  <2>1. Participants(c)' = Participants(c)
    BY <1>2 DEF SeatsStay, Participants
  <2>2. Begun(c)' <=> Begun(c)
    BY <1>1, <1>2 DEF SeatsStay, Begun, CircleStatus
  <2> QED
    BY <1>2, <2>1, <2>2 DEF SeatsStay, Seated
<1>3. CASE SeatsOpen(c)
  <2>1. joined'[c] = {} /\ Cardinality({}) = 0
    BY <1>3, FS_EmptySet, Zenon DEF SeatsOpen, Seated
  <2>2. ~Begun(c)' /\ circles'[c].joined_count < circles'[c].member_limit
    BY <1>1, <1>3 DEF SeatsOpen, Begun
  <2> QED
    BY <1>3, <2>1, <2>2 DEF SeatsOpen, Seated
<1>4. CASE SeatTaken(c)
  <2>1. PICK m \in MemberRefs :
          /\ circles[c].status = "OpenForMembers" /\ m \in Participants(c) \ joined[c]
          /\ joined'[c] = joined[c] \cup {m}
          /\ circles'[c].joined_count = circles[c].joined_count + 1
          /\ circles'[c].member_limit = circles[c].member_limit
          /\ circles'[c].payout_order = circles[c].payout_order
          /\ circles'[c].status = IF circles'[c].joined_count = circles[c].member_limit
                                  THEN "Active" ELSE "OpenForMembers"
    BY <1>4 DEF SeatTaken
  <2>2. Participants(c)' = Participants(c)
    BY <2>1 DEF Participants
  <2>3. joined[c] \subseteq Participants(c) /\ circles[c].joined_count = Cardinality(joined[c])
    BY <2>1 DEF Seated
  <2>4. IsFiniteSet(joined[c])
    BY <1>1, <2>3, ParticipantsFinite, FS_Subset
  <2>5. Cardinality(joined[c] \cup {m}) = Cardinality(joined[c]) + 1
    BY <2>1, <2>4, FS_AddElement
  <2>6. circles[c].joined_count < circles[c].member_limit
    BY <2>1 DEF Seated
  <2>7. circles'[c].joined_count = Cardinality(joined'[c]) /\ joined'[c] \subseteq Participants(c)'
    BY <2>1, <2>2, <2>3, <2>5
  <2>8. /\ circles'[c].status = "OpenForMembers" => circles'[c].joined_count < circles'[c].member_limit
        /\ Begun(c)' => circles'[c].joined_count = circles'[c].member_limit
        /\ circles'[c].status # "Absent"
    BY <1>1, <2>1, <2>6 DEF Begun
  <2> QED
    BY <2>7, <2>8 DEF Seated
<1> QED
  BY <1>2, <1>3, <1>4 DEF SeatStep

\* A recovery is prepared with the final settlement of its circle.
LateStep(c, r) ==
  payout_states'[<<c, r>>].status \in Late =>
    payout_states[<<c, r>>].status \in Late \/ circles'[c].status = "SettlementPending"

LateSteps == \A c \in CircleIds, r \in Rounds : LateStep(c, r)

LEMMA OtherLate ==
  ASSUME TypeOK, NEW c \in CircleIds, NEW r \in Rounds, NEW q,
         payout_states' = [payout_states EXCEPT ![<<c, r>>] = q],
         q.status \in Late => payout_states[<<c, r>>].status \in Late
  PROVE  LateSteps
BY DEF TypeOK, LateSteps, LateStep

LEMMA MovingLate ==
  ASSUME TypeOK, NEW c \in CircleIds, NEW r \in Rounds, NEW nonce,
         \/ authorize_payout_settlement(c, r, nonce)
         \/ \E caller, token : settle_payout_from_helper(caller, c, r, token, nonce)
         \/ \E caller, token : settle_recovery_from_helper(caller, c, r, token, nonce)
  PROVE  LateSteps
<1>1. PICK t \in {"SettlementAuthorized", "Paid", "Recovered"} :
        /\ t = "Recovered" => payout_states[<<c, r>>].status = "RecoveryPending"
        /\ payout_states' = [payout_states EXCEPT ![<<c, r>>] = [@ EXCEPT !.status = t]]
  BY DEF authorize_payout_settlement, settle_payout_from_helper, settle_recovery_from_helper
<1> DEFINE q == [payout_states[<<c, r>>] EXCEPT !.status = t]
<1>2. q.status = t
  BY DEF TypeOK, PayoutState
<1> HIDE DEF q
<1>3. payout_states' = [payout_states EXCEPT ![<<c, r>>] = q]
  BY <1>1 DEF q
<1>4. q.status \in Late => payout_states[<<c, r>>].status \in Late
  BY <1>1, <1>2 DEF Late
<1> QED
  BY <1>3, <1>4, OtherLate

LEMMA PrepareLate ==
  ASSUME TypeOK, NEW c \in CircleIds, prepare_final_settlement(c)
  PROVE  LateSteps
<1> SUFFICES ASSUME NEW d \in CircleIds, NEW r \in Rounds PROVE LateStep(d, r)
  BY DEF LateSteps
<1>1. CASE d = c
  <2>1. circles'[c] = [circles[c] EXCEPT !.status = "SettlementPending"]
    BY DEF prepare_final_settlement, TypeOK
  <2>2. circles'[c].status = "SettlementPending"
    BY <2>1 DEF TypeOK, CircleRecord
  <2> QED BY <1>1, <2>2 DEF LateStep
<1>2. CASE d # c
  BY <1>2 DEF prepare_final_settlement, LateStep
<1> QED
  BY <1>1, <1>2

LEMMA AnyLate ==
  ASSUME ClaimsInv, [Next]_vars
  PROVE  LateSteps
<1>1. TypeOK
  BY DEF ClaimsInv, TypeInv
<1>2. ASSUME UNCHANGED payout_states PROVE LateSteps
  BY <1>2 DEF LateSteps, LateStep
<1>3. CASE Tick \/ UNCHANGED vars
  BY <1>2, <1>3 DEF Tick, vars, claims
<1>4. ASSUME NEW cfg, create_circle(cfg) PROVE LateSteps
  BY <1>2, <1>4 DEF create_circle, claims
<1>5. ASSUME NEW caller, NEW helper, initialize_settlement_helper(caller, helper)
      PROVE  LateSteps
  BY <1>2, <1>5 DEF initialize_settlement_helper, claims
<1>6. ASSUME NEW c, NEW m, join_circle(c, m) PROVE LateSteps
  BY <1>2, <1>6 DEF join_circle, claims
<1>7. ASSUME NEW c, NEW r, NEW m, finalize_contribution_default(c, r, m)
      PROVE  LateSteps
  BY <1>2, <1>7 DEF finalize_contribution_default, claims
<1>8. ASSUME NEW caller, NEW c, NEW r, NEW token, NEW nonce, NEW m, NEW amount,
             \/ settle_contribution_from_helper(caller, c, r, m, token, amount, nonce)
             \/ settle_cure_from_helper(caller, c, r, m, token, amount, nonce)
      PROVE  LateSteps
  BY <1>2, <1>8 DEF settle_contribution_from_helper, settle_cure_from_helper, claims
<1>9. ASSUME NEW c \in CircleIds, NEW r \in Rounds, finalize_round_payout_accounting(c, r)
      PROVE  LateSteps
  <2> DEFINE t == IF calculate_round_unresolved_deficit(c, r) > 0
                  THEN "DeferredLocked" ELSE "Scheduled"
             q == [status |-> t, scheduled_member_ref |-> circles[c].payout_order[r],
                   amount |-> ScheduledAmount(c)]
  <2>1. payout_states' = [payout_states EXCEPT ![<<c, r>>] = q]
    BY <1>9 DEF finalize_round_payout_accounting, ScheduledMember
  <2>2. q.status \notin Late
    BY DEF Late
  <2> HIDE DEF q
  <2> QED
    BY <1>1, <2>1, <2>2, OtherLate
<1> QED
  BY <1>1, <1>3, <1>4, <1>5, <1>6, <1>7, <1>8, <1>9, PrepareLate, MovingLate
     DEF Next, Keeper, Settle

LEMMA LockedStep ==
  ASSUME MoneyInv, RoundsInv, TypeInv', StepFacts, RoundSteps, LateSteps,
         NEW c \in CircleIds, NEW r \in Rounds, Locked(c, r)
  PROVE  Locked(c, r)'
<1>1. /\ TypeInv /\ ClaimRecord(c, r) /\ ClaimStep(c, r) /\ LateStep(c, r) /\ RoundStep(c)
      /\ ObligationMoves /\ ConfigsFixed
  BY DEF MoneyInv, ClaimsInv, ClaimRecords, StepFacts, ClaimSteps, LateSteps, RoundSteps
<1>2. ASSUME payout_states[<<c, r>>].status # "Absent" \/ circles[c].status = "Active", Defaulted(c, r)
      PROVE  Defaulted(c, r)'
  <2>1. Participants(c)' = Participants(c)
    BY <1>1, <1>2 DEF ConfigsFixed, ClaimRecord, Participants
  <2>2. PICK m \in Participants(c) : obligations[<<c, r, m>>].status = "MissedDefault"
    BY <1>2 DEF Defaulted
  <2>3. m \in MemberRefs
    BY <1>1, <2>2, ParticipantsFinite
  <2>4. obligations'[<<c, r, m>>].status = "MissedDefault"
    BY <1>1, <2>2, <2>3 DEF ObligationMoves
  <2> QED BY <2>1, <2>2, <2>4 DEF Defaulted
<1>3. ASSUME payout_states'[<<c, r>>].status = "DeferredLocked" PROVE Defaulted(c, r)'
  <2>1. CASE payout_states[<<c, r>>].status = "DeferredLocked"
    BY <1>2, <2>1 DEF Locked
  <2>2. CASE payout_states[<<c, r>>].status # "DeferredLocked"
    <3>1. Recorded(c, r)
      BY <1>1, <1>3, <2>2 DEF ClaimStep, Moved
    <3>2. calculate_round_unresolved_deficit(c, r) > 0 /\ circles[c].status = "Active"
      BY <1>3, <3>1 DEF Recorded
    <3>3. Unresolved(c, r) # {}
      <4> SUFFICES ASSUME Unresolved(c, r) = {} PROVE FALSE
        OBVIOUS
      <4>1. Cardinality(Unresolved(c, r)) = 0
        BY FS_EmptySet
      <4>2. circles[c].contribution_amount \in Nat
        BY <1>1 DEF TypeInv, TypeOK, CircleRecord
      <4> QED BY <3>2, <4>1, <4>2 DEF calculate_round_unresolved_deficit
    <3>4. Defaulted(c, r)
      BY <3>3 DEF Unresolved, Defaulted
    <3> QED BY <1>2, <3>2, <3>4
  <2> QED BY <2>1, <2>2
<1>4. ASSUME payout_states'[<<c, r>>].status \in Late PROVE circles'[c].status = "SettlementPending"
  <2>1. CASE payout_states[<<c, r>>].status \in Late
    <3>1. circles[c].status = "SettlementPending"
      BY <2>1 DEF Locked
    <3> QED
      BY <1>1, <3>1 DEF RoundStep, Stayed, Continues, Created, Activated, Advanced, Completed, Prepared
  <2>2. CASE payout_states[<<c, r>>].status \notin Late
    BY <1>1, <1>4, <2>2 DEF LateStep
  <2> QED BY <2>1, <2>2
<1> QED
  BY <1>3, <1>4 DEF Locked

LEMMA SeatsInit == Init => SeatsInv
<1> SUFFICES ASSUME Init PROVE SeatsInv
  OBVIOUS
<1>1. /\ \A c \in CircleIds : circles[c].status = "Absent" /\ joined[c] = {}
      /\ \A c \in CircleIds, r \in Rounds : payout_states[<<c, r>>].status = "Absent"
  BY DEF Init, NoCircle, NoPayout
<1>2. \A c \in CircleIds : Seated(c)
  BY <1>1 DEF Seated, Begun
<1>3. \A c \in CircleIds, r \in Rounds : Locked(c, r)
  BY <1>1 DEF Locked, Late
<1>4. \A k \in CircleIds \X Rounds \X MemberRefs : InWindows(k)
  BY DEF Init, NoObligation, InWindows
<1> QED
  BY <1>2, <1>3, <1>4 DEF SeatsInv

LEMMA SeatsStep == MoneyInv /\ RoundsInv /\ SeatsInv /\ [Next]_vars => SeatsInv'
<1> SUFFICES ASSUME MoneyInv, RoundsInv, SeatsInv, [Next]_vars PROVE SeatsInv'
  OBVIOUS
<1>1. ClaimsInv /\ TypeInv /\ TypeInv' /\ StepFacts /\ RoundSteps /\ LateSteps
  BY TypeStep, AnyStep, AnyRounds, AnyLate DEF MoneyInv, ClaimsInv
<1>2. \A c \in CircleIds : Seated(c)'
  BY <1>1, AnySeats, SeatedStep DEF SeatsInv
<1>3. \A c \in CircleIds, r \in Rounds : Locked(c, r)'
  BY <1>1, LockedStep DEF SeatsInv
<1>4. ASSUME NEW k \in CircleIds \X Rounds \X MemberRefs PROVE InWindows(k)'
  <2>1. PICK c \in CircleIds, r \in Rounds, m \in MemberRefs : k = <<c, r, m>>
    OBVIOUS
  <2>2. obligations[k].due_at <= obligations[k].grace_ends_at
    BY DEF SeatsInv, InWindows
  <2> QED
    BY <1>1, <2>1, <2>2 DEF StepFacts, ObligationMoves, InWindows
<1> QED
  BY <1>2, <1>3, <1>4 DEF SeatsInv

LEMMA ViewsInvariant == Spec => [](MoneyInv /\ RoundsInv /\ SeatsInv)
<1>1. Init => MoneyInv /\ RoundsInv /\ SeatsInv
  BY MoneyInit, RoundsInit, SeatsInit
<1>2. MoneyInv /\ RoundsInv /\ SeatsInv /\ [Next]_vars => (MoneyInv /\ RoundsInv /\ SeatsInv)'
  BY MoneyStep, RoundsStep, SeatsStep DEF MoneyInv
<1> QED
  BY <1>1, <1>2, PTL DEF Spec

-----------------------------------------------------------------------------
(* What the reads return of a circle that exists *)

LEMMA ExistingFacts ==
  ASSUME MoneyInv, RoundsInv, SeatsInv, NEW c \in Existing
  PROVE  /\ c \in CircleIds /\ TypeOK
         /\ circles[c].status \in {"OpenForMembers", "Active", "SettlementPending"}
         /\ circles[c].current_round \in Rounds /\ circles[c].member_limit \in Nat
         /\ circles[c].current_round <= circles[c].member_limit
         /\ 1..circles[c].member_limit \subseteq Rounds
         /\ circles[c].joined_count \in Nat
         /\ circles[c].status = "OpenForMembers" =>
              /\ circles[c].joined_count < circles[c].member_limit
              /\ circles[c].current_round = 1
         /\ Begun(c) => circles[c].joined_count = circles[c].member_limit
<1>1. /\ c \in CircleIds /\ circles[c].status # "Absent" /\ TypeInv /\ TypeOK
  BY DEF Existing, MoneyInv, ClaimsInv, TypeInv
<1>2. /\ circles[c].status \in CircleStatus /\ circles[c].current_round \in Nat
      /\ circles[c].member_limit \in Nat /\ circles[c].joined_count \in Nat
  BY <1>1 DEF TypeOK, CircleRecord
<1>3. Counting(c) /\ Seated(c)
  BY <1>1 DEF RoundsInv, Ordered, SeatsInv
<1>4. circles[c].member_limit <= MAX_MEMBER_LIMIT
  BY <1>1 DEF TypeInv, ConfigsKept, Established
<1>5. /\ circles[c].current_round >= 1 /\ circles[c].current_round <= circles[c].member_limit
      /\ circles[c].status = "OpenForMembers" => circles[c].current_round = 1
  BY <1>1, <1>3 DEF Counting
<1>6. circles[c].current_round \in Rounds /\ 1..circles[c].member_limit \subseteq Rounds
  BY <1>2, <1>4, <1>5, BoundsAssumption DEF Rounds
<1>7. circles[c].status \in {"OpenForMembers", "Active", "SettlementPending"}
  BY <1>1, <1>2 DEF CircleStatus
<1>8. /\ circles[c].status = "OpenForMembers" => circles[c].joined_count < circles[c].member_limit
      /\ Begun(c) => circles[c].joined_count = circles[c].member_limit
  BY <1>3 DEF Seated
<1> QED
  BY <1>1, <1>2, <1>5, <1>6, <1>7, <1>8

LEMMA StatusTold ==
  ASSUME MoneyInv, RoundsInv, SeatsInv, NEW c \in Existing
  PROVE  mapStatus(circles[c]) = IF circles[c].status = "SettlementPending" THEN "complete"
                                 ELSE IF circles[c].status = "Active" THEN "active" ELSE "forming"
<1>1. /\ circles[c].status \in {"OpenForMembers", "Active", "SettlementPending"}
      /\ circles[c].joined_count \in Nat /\ circles[c].member_limit \in Nat
      /\ circles[c].status = "OpenForMembers" => circles[c].joined_count < circles[c].member_limit
  BY ExistingFacts
<1>2. CASE circles[c].status = "OpenForMembers"
  <2>1. ~(circles[c].joined_count >= circles[c].member_limit)
    BY <1>1, <1>2
  <2> QED BY <1>2, <2>1 DEF mapStatus
<1>3. CASE circles[c].status = "Active"
  BY <1>3 DEF mapStatus
<1>4. CASE circles[c].status = "SettlementPending"
  BY <1>4 DEF mapStatus
<1> QED
  BY <1>1, <1>2, <1>3, <1>4

\* An obligation that is pending is one of the current round of an active circle.
LEMMA PendingIsActive ==
  ASSUME MoneyInv, RoundsInv, SeatsInv, NEW c \in Existing, NEW m \in MemberRefs,
         obligations[<<c, circles[c].current_round, m>>].status = "Pending"
  PROVE  circles[c].status = "Active"
<1> DEFINE r == circles[c].current_round
<1>1. /\ c \in CircleIds /\ r \in Rounds /\ r <= circles[c].member_limit
      /\ circles[c].status \in {"OpenForMembers", "Active", "SettlementPending"}
  BY ExistingFacts
<1>2. Waiting(c) /\ AllSettling(c) /\ ClaimRecord(c, r)
  BY <1>1 DEF RoundsInv, Ordered, MoneyInv, ClaimsInv, ClaimRecords
<1>3. m \in Participants(c)
  BY <1>1 DEF MoneyInv, Owned
<1>4. circles[c].status # "OpenForMembers"
  BY <1>1, <1>2 DEF Waiting, Begun
<1>5. ASSUME circles[c].status = "SettlementPending" PROVE FALSE
  <2>1. payout_states[<<c, r>>].status # "Absent"
    BY <1>1, <1>2, <1>5 DEF AllSettling, Undecided
  <2> QED BY <1>2, <1>3, <2>1 DEF ClaimRecord, AllDecided
<1> QED
  BY <1>1, <1>4, <1>5

-----------------------------------------------------------------------------
(* A member's view *)

LEMMA WindowsOf ==
  ASSUME NEW o \in Obligation, NEW t \in Nat
  PROVE  /\ obligationState(o, t) \in {"none", "paid", "missed", "due", "grace", "overdue"}
         /\ obligationState(o, t) = "none" <=> o.status = "Absent"
         /\ obligationState(o, t) = "paid" <=> o.status \in {"OnTime", "LateWithinGrace"}
         /\ obligationState(o, t) = "missed" <=> o.status = "MissedDefault"
         /\ obligationState(o, t) = "due" <=> o.status = "Pending" /\ t < o.due_at
         /\ obligationState(o, t) = "grace" <=>
              o.status = "Pending" /\ t >= o.due_at /\ t < o.grace_ends_at
         /\ obligationState(o, t) = "overdue" <=>
              o.status = "Pending" /\ t >= o.due_at /\ t >= o.grace_ends_at
<1>1. /\ o.status \in {"Absent", "Pending", "OnTime", "LateWithinGrace", "MissedDefault"}
      /\ o.due_at \in Nat /\ o.grace_ends_at \in Nat
  BY DEF Obligation, ContributionStatus
<1>2. CASE o.status = "Absent"
  BY <1>2 DEF obligationState
<1>3. CASE o.status \in {"OnTime", "LateWithinGrace"}
  BY <1>3 DEF obligationState
<1>4. CASE o.status = "MissedDefault"
  BY <1>4 DEF obligationState
<1>5. CASE o.status = "Pending"
  <2>1. obligationState(o, t) = IF t < o.due_at THEN "due"
                                ELSE IF t < o.grace_ends_at THEN "grace" ELSE "overdue"
    BY <1>5 DEF obligationState
  <2> QED BY <1>1, <1>5, <2>1
<1> QED
  BY <1>1, <1>2, <1>3, <1>4, <1>5

LEMMA TaskOf ==
  ASSUME NEW v, NEW o, NEW t, v.youJoined \in BOOLEAN, v.reserved \in BOOLEAN,
         obligationState(o, t) \in {"none", "paid", "missed", "due", "grace", "overdue"}
  PROVE  LET task == contributorTask(v, o, t)
         IN  /\ canJoin(v) => task = "join"
             /\ ~canJoin(v) /\ ~v.youJoined => task = "none"
             /\ v.youJoined /\ obligationState(o, t) # "paid" => task = obligationState(o, t)
             /\ v.youJoined /\ obligationState(o, t) = "paid" =>
                  task = IF v.current_round \in v.yourSlot THEN "turn" ELSE "none"
<1>1. lifecycleOf(v) = "readyToJoin" <=> canJoin(v)
  BY DEF lifecycleOf, canJoin
<1>2. canJoin(v) => ~v.youJoined
  BY DEF canJoin
<1>3. PICK s : s = roundSummary(v, o, t)
  OBVIOUS
<1>4. /\ s.payment = IF v.youJoined THEN obligationState(o, t) ELSE "notJoined"
      /\ s.yourTurn = (v.current_round \in v.yourSlot)
  BY <1>3 DEF roundSummary, paymentOf
<1>5. CASE canJoin(v)
  BY <1>1, <1>2, <1>5 DEF contributorTask
<1>6. CASE ~canJoin(v) /\ ~v.youJoined
  BY <1>1, <1>2, <1>6 DEF contributorTask
<1>7. CASE v.youJoined
  <2>1. contributorTask(v, o, t) =
          IF s.payment = "paid" THEN IF s.yourTurn THEN "turn" ELSE "none" ELSE s.payment
    BY <1>1, <1>2, <1>3, <1>7 DEF contributorTask
  <2> QED BY <1>2, <1>4, <1>7, <2>1
<1> QED
  BY <1>5, <1>6, <1>7

\* The control is there for whoever has a place that is not taken yet.
LEMMA JoinOffered ==
  ASSUME MoneyInv, RoundsInv, SeatsInv, NEW c \in Existing, NEW m
  PROVE  canJoin(get_circle(c, m)) <=> JoinAccepted(c, m)
<1>1. /\ circles[c].status \in {"OpenForMembers", "Active", "SettlementPending"}
      /\ circles[c].status = "OpenForMembers" => circles[c].joined_count < circles[c].member_limit
  BY ExistingFacts
<1>2. mapStatus(circles[c]) = "forming" <=> circles[c].status = "OpenForMembers"
  BY <1>1, StatusTold
<1>3. canJoin(get_circle(c, m)) <=>
        /\ m \in Participants(c) /\ m \notin joined[c] /\ mapStatus(circles[c]) = "forming"
        /\ circles[c].joined_count < circles[c].member_limit
  BY DEF canJoin, get_circle
<1> QED
  BY <1>1, <1>2, <1>3 DEF JoinAccepted

LEMMA OffersAgree ==
  ASSUME MoneyInv, RoundsInv, SeatsInv
  PROVE  OfferedIsAccepted
<1> SUFFICES ASSUME NEW c \in Existing, NEW m \in MemberRefs
             PROVE  LET v    == get_circle(c, m)
                        o    == get_round_obligation(c, v.current_round, m)
                        task == contributorTask(v, o, now)
                    IN  /\ task = "join" <=> JoinAccepted(c, m)
                        /\ task \in {"due", "grace"} => ContributionAccepted(c, m)
                        /\ ContributionAccepted(c, m) =>
                             \/ task \in {"due", "grace"}
                             \/ task = "overdue" /\ now = o.grace_ends_at
                        /\ task = "due" => now <= o.due_at
                        /\ task = "grace" => now >= o.due_at
                        /\ task = "turn" =>
                             /\ has_contributed(c, v.current_round, m)
                             /\ ScheduledMember(c, v.current_round) = m
  BY DEF OfferedIsAccepted
<1>1. /\ c \in CircleIds /\ TypeOK
      /\ circles[c].status \in {"OpenForMembers", "Active", "SettlementPending"}
      /\ circles[c].current_round \in Rounds
      /\ circles[c].joined_count \in Nat /\ circles[c].member_limit \in Nat
      /\ circles[c].status = "OpenForMembers" => circles[c].joined_count < circles[c].member_limit
  BY ExistingFacts
<1>2. PICK v, o : v = get_circle(c, m) /\ o = get_round_obligation(c, circles[c].current_round, m)
  OBVIOUS
<1>3. /\ v.size = circles[c].member_limit /\ v.current_round = circles[c].current_round
      /\ v.status = mapStatus(circles[c]) /\ v.joinedCount = circles[c].joined_count
      /\ v.reserved = (m \in Participants(c)) /\ v.youJoined = (m \in joined[c])
      /\ v.yourSlot = {s \in DOMAIN circles[c].payout_order : circles[c].payout_order[s] = m}
  BY <1>2 DEF get_circle
<1>4. o = obligations[<<c, circles[c].current_round, m>>] /\ o \in Obligation /\ now \in Nat
  BY <1>1, <1>2 DEF get_round_obligation, TypeOK
<1>5. PICK w, task : w = obligationState(o, now) /\ task = contributorTask(v, o, now)
  OBVIOUS
<1>6. /\ w \in {"none", "paid", "missed", "due", "grace", "overdue"}
      /\ w = "paid" <=> o.status \in {"OnTime", "LateWithinGrace"}
      /\ w = "due" <=> o.status = "Pending" /\ now < o.due_at
      /\ w = "grace" <=> o.status = "Pending" /\ now >= o.due_at /\ now < o.grace_ends_at
      /\ w = "overdue" <=> o.status = "Pending" /\ now >= o.due_at /\ now >= o.grace_ends_at
  BY <1>4, <1>5, WindowsOf
<1>7. /\ canJoin(v) => task = "join"
      /\ ~canJoin(v) /\ ~v.youJoined => task = "none"
      /\ v.youJoined /\ w # "paid" => task = w
      /\ v.youJoined /\ w = "paid" => task = IF v.current_round \in v.yourSlot THEN "turn" ELSE "none"
  <2>1. v.youJoined \in BOOLEAN /\ v.reserved \in BOOLEAN
    BY <1>3
  <2>2. LET k == contributorTask(v, o, now)
        IN  /\ canJoin(v) => k = "join"
            /\ ~canJoin(v) /\ ~v.youJoined => k = "none"
            /\ v.youJoined /\ obligationState(o, now) # "paid" => k = obligationState(o, now)
            /\ v.youJoined /\ obligationState(o, now) = "paid" =>
                 k = IF v.current_round \in v.yourSlot THEN "turn" ELSE "none"
    BY <1>5, <1>6, <2>1, TaskOf
  <2> QED BY <1>5, <2>2
<1>8. canJoin(v) <=> JoinAccepted(c, m)
  BY <1>2, JoinOffered
<1>9. JoinAccepted(c, m) => m \notin joined[c]
  BY DEF JoinAccepted
<1>10. ContributionAccepted(c, m) <=>
         circles[c].status = "Active" /\ m \in joined[c] /\ o.status = "Pending" /\ now <= o.grace_ends_at
  BY <1>4 DEF ContributionAccepted
<1>11. o.status = "Pending" => circles[c].status = "Active"
  BY <1>4, PendingIsActive
<1>12. v.youJoined = (m \in joined[c]) /\ v.youJoined \in BOOLEAN
  BY <1>3
<1>13. task = "join" <=> JoinAccepted(c, m)
  BY <1>6, <1>7, <1>8, <1>9, <1>12
<1>14. task \in {"due", "grace", "overdue"} <=> v.youJoined /\ w \in {"due", "grace", "overdue"} /\ task = w
  BY <1>6, <1>7, <1>8, <1>9, <1>12
<1>15. o.due_at \in Nat /\ o.grace_ends_at \in Nat
  BY <1>4 DEF Obligation
<1>16. task \in {"due", "grace"} => ContributionAccepted(c, m)
  <2>1. o.due_at <= o.grace_ends_at
    BY <1>1, <1>4 DEF SeatsInv, InWindows
  <2> SUFFICES ASSUME task \in {"due", "grace"} PROVE ContributionAccepted(c, m)
    OBVIOUS
  <2>2. m \in joined[c] /\ w \in {"due", "grace"}
    BY <1>12, <1>14
  <2>3. o.status = "Pending" /\ now <= o.grace_ends_at
    BY <1>4, <1>6, <1>15, <2>1, <2>2
  <2> QED BY <1>10, <1>11, <2>2, <2>3
<1>17. ContributionAccepted(c, m) =>
         \/ task \in {"due", "grace"}
         \/ task = "overdue" /\ now = o.grace_ends_at
  <2> SUFFICES ASSUME ContributionAccepted(c, m)
               PROVE  \/ task \in {"due", "grace"}
                      \/ task = "overdue" /\ now = o.grace_ends_at
    OBVIOUS
  <2>1. w \in {"due", "grace", "overdue"} /\ (w = "overdue" => now = o.grace_ends_at)
    BY <1>4, <1>6, <1>10, <1>15
  <2>2. task = w
    BY <1>7, <1>10, <1>12, <2>1
  <2> QED BY <2>1, <2>2
<1>18. /\ task = "due" => now <= o.due_at
       /\ task = "grace" => now >= o.due_at
  BY <1>4, <1>6, <1>14, <1>15
<1>19. task = "turn" =>
         /\ has_contributed(c, circles[c].current_round, m)
         /\ ScheduledMember(c, circles[c].current_round) = m
  <2> SUFFICES ASSUME task = "turn"
               PROVE  /\ has_contributed(c, circles[c].current_round, m)
                      /\ ScheduledMember(c, circles[c].current_round) = m
    OBVIOUS
  <2>1. w = "paid" /\ v.current_round \in v.yourSlot
    BY <1>6, <1>7, <1>12
  <2>2. o.status \in {"OnTime", "LateWithinGrace"}
    BY <1>6, <2>1
  <2>3. circles[c].payout_order[circles[c].current_round] = m
    BY <1>3, <2>1
  <2> QED BY <1>4, <2>2, <2>3 DEF has_contributed, get_round_obligation, ScheduledMember
<1> QED
  BY <1>2, <1>3, <1>5, <1>13, <1>16, <1>17, <1>18, <1>19

-----------------------------------------------------------------------------
(* The organizer's view *)

\* Places are slots: each is held by one participant, and every participant has one.
LEMMA SlotsOf ==
  ASSUME TypeInv, NEW c \in CircleIds, circles[c].status # "Absent"
  PROVE  /\ \A s \in 1..circles[c].member_limit :
              circles[c].payout_order[s] \in Participants(c) /\ circles[c].payout_order[s] \in MemberRefs
         /\ \A m \in Participants(c) :
              \E s \in 1..circles[c].member_limit : circles[c].payout_order[s] = m
<1> DEFINE f == circles[c].payout_order
<1>1. f \in Seq(MemberRefs) /\ Len(f) = circles[c].member_limit
  BY DEF TypeInv, TypeOK, CircleRecord, ConfigsKept, Established, validate_payout_order
<1>2. DOMAIN f = 1..circles[c].member_limit
  BY <1>1
<1>3. Participants(c) = {f[s] : s \in DOMAIN f}
  BY DEF Participants, Range
<1>4. Participants(c) \subseteq MemberRefs
  BY ParticipantsFinite
<1> HIDE DEF f
<1>5. \A s \in 1..circles[c].member_limit : f[s] \in Participants(c)
  BY <1>2, <1>3
<1>6. \A m \in Participants(c) : \E s \in 1..circles[c].member_limit : f[s] = m
  BY <1>2, <1>3
<1> QED
  BY <1>4, <1>5, <1>6 DEF f

\* The obligation of the current round of the place s, and whether it is taken.
Owed(c, s) == obligations[<<c, circles[c].current_round, circles[c].payout_order[s]>>]

Taken(c, s) == circles[c].payout_order[s] \in joined[c]

Told == {"paid", "due", "grace", "overdue", "missed"}

LEMMA FactsOf ==
  ASSUME NEW c
  PROVE  LET f == get_organizer_facts(c)
         IN  /\ f.memberLimit = circles[c].member_limit
             /\ f.joinedCount = circles[c].joined_count
             /\ f.round = circles[c].current_round
             /\ f.circleStatus = mapStatus(circles[c])
             /\ f.payout = payout_states[<<c, circles[c].current_round>>].status
             /\ DOMAIN f.places = 1..circles[c].member_limit
             /\ \A s \in 1..circles[c].member_limit :
                  f.places[s].joined = Taken(c, s) /\ f.places[s].obligation = Owed(c, s)
<1>1. PICK f : f = get_organizer_facts(c)
  OBVIOUS
<1>2. /\ f.memberLimit = circles[c].member_limit
      /\ f.joinedCount = circles[c].joined_count
      /\ f.round = circles[c].current_round
      /\ f.circleStatus = mapStatus(circles[c])
      /\ f.payout = payout_states[<<c, circles[c].current_round>>].status
      /\ f.places = [s \in 1..circles[c].member_limit |->
                       [joined |-> circles[c].payout_order[s] \in joined[c],
                        obligation |-> obligations[<<c, circles[c].current_round, circles[c].payout_order[s]>>]]]
  BY <1>1 DEF get_organizer_facts, readPayoutAccounting
<1>3. DOMAIN f.places = 1..circles[c].member_limit
  BY <1>2
<1>4. \A s \in 1..circles[c].member_limit :
        f.places[s].joined = Taken(c, s) /\ f.places[s].obligation = Owed(c, s)
  BY <1>2 DEF Taken, Owed
<1> QED
  BY <1>1, <1>2, <1>3, <1>4

\* How many places are in a state, and that some place is.
InState(c, t, w) ==
  {s \in 1..circles[c].member_limit : Taken(c, s) /\ obligationState(Owed(c, s), t) = w}

LEMMA CountsAre ==
  ASSUME NEW c, circles[c].member_limit \in Nat, NEW t, NEW w \in Told
  PROVE  /\ countsOf(get_organizer_facts(c), t)[w] = Cardinality(InState(c, t, w))
         /\ IsFiniteSet(InState(c, t, w)) /\ Cardinality(InState(c, t, w)) \in Nat
         /\ Cardinality(InState(c, t, w)) > 0 <=> InState(c, t, w) # {}
<1>1. PICK f : f = get_organizer_facts(c)
  OBVIOUS
<1>2. countsOf(f, t)[w] = Cardinality({p \in DOMAIN f.places :
        f.places[p].joined /\ obligationState(f.places[p].obligation, t) = w})
  BY DEF countsOf, Told
<1>3. {p \in DOMAIN f.places :
         f.places[p].joined /\ obligationState(f.places[p].obligation, t) = w} = InState(c, t, w)
  BY <1>1, FactsOf DEF InState
<1>4. IsFiniteSet(1..circles[c].member_limit) /\ InState(c, t, w) \subseteq 1..circles[c].member_limit
  <2>1. 1 \in Int /\ circles[c].member_limit \in Int
    OBVIOUS
  <2> QED BY <2>1, FS_Interval DEF InState
<1>5. IsFiniteSet(InState(c, t, w))
  BY <1>4, FS_Subset
<1>6. Cardinality(InState(c, t, w)) \in Nat
  BY <1>5, FS_CardinalityType
<1>7. Cardinality(InState(c, t, w)) = 0 <=> InState(c, t, w) = {}
  BY <1>5, FS_EmptySet
<1>8. Cardinality(InState(c, t, w)) > 0 <=> InState(c, t, w) # {}
  <2>1. PICK k : k = Cardinality(InState(c, t, w))
    OBVIOUS
  <2>2. k \in Nat /\ (k = 0 <=> InState(c, t, w) = {})
    BY <1>6, <1>7, <2>1
  <2>3. k > 0 <=> k # 0
    BY <2>2
  <2> QED BY <2>1, <2>2, <2>3
<1>9. countsOf(f, t)[w] = Cardinality(InState(c, t, w))
  BY <1>2, <1>3
<1> QED
  BY <1>1, <1>5, <1>6, <1>8, <1>9

\* Once the circle has begun every place is taken and owes something; if nobody
\* has to act, the paid and the missed ones are all of them.
LEMMA BegunPlaces ==
  ASSUME MoneyInv, RoundsInv, SeatsInv, NEW c \in Existing, Begun(c),
         NEW s \in 1..circles[c].member_limit
  PROVE  /\ Taken(c, s) /\ Owed(c, s) \in Obligation /\ Owed(c, s).status # "Absent"
         /\ obligationState(Owed(c, s), now) \in Told
         /\ obligationState(Owed(c, s), now) \in {"due", "grace", "overdue"}
              <=> Owed(c, s).status = "Pending"
<1>1. /\ c \in CircleIds /\ TypeInv /\ TypeOK /\ circles[c].status # "Absent"
      /\ circles[c].current_round \in Rounds /\ circles[c].current_round \in Nat
  BY ExistingFacts DEF Existing, MoneyInv, ClaimsInv, TypeOK, CircleRecord, TypeInv
<1>2. circles[c].payout_order[s] \in Participants(c) /\ circles[c].payout_order[s] \in MemberRefs
  BY <1>1, SlotsOf
<1>3. InOrder(c)
  BY <1>1 DEF RoundsInv, Ordered
<1>4. Taken(c, s)
  BY <1>2, <1>3 DEF InOrder, Taken
<1>5. Owed(c, s).status # "Absent"
  <2>1. RoundInOrder(c, circles[c].current_round)
    BY <1>1, <1>3 DEF InOrder
  <2>2. PICK m \in Participants(c) : m = circles[c].payout_order[s]
    BY <1>2
  <2>3. obligations[<<c, circles[c].current_round, m>>].status # "Absent"
    BY <1>1, <2>1 DEF RoundInOrder
  <2> QED BY <2>2, <2>3 DEF Owed
<1>6. Owed(c, s) \in Obligation /\ now \in Nat
  BY <1>1, <1>2 DEF TypeOK, Owed
<1>7. PICK w : w = obligationState(Owed(c, s), now)
  OBVIOUS
<1>8. PICK o : o = Owed(c, s)
  OBVIOUS
<1>9. /\ w \in {"none", "paid", "missed", "due", "grace", "overdue"}
      /\ w = "none" <=> o.status = "Absent"
      /\ w = "paid" <=> o.status \in {"OnTime", "LateWithinGrace"}
      /\ w = "missed" <=> o.status = "MissedDefault"
      /\ o.status \in ContributionStatus
  BY <1>6, <1>7, <1>8, WindowsOf DEF Obligation
<1>10. w \in Told /\ (w \in {"due", "grace", "overdue"} <=> o.status = "Pending")
  BY <1>5, <1>8, <1>9 DEF Told, ContributionStatus
<1> QED
  BY <1>4, <1>5, <1>6, <1>7, <1>8, <1>10

LEMMA AllAccounted ==
  ASSUME MoneyInv, RoundsInv, SeatsInv, NEW c \in Existing, Begun(c),
         \A w \in {"due", "grace", "overdue"} : InState(c, now, w) = {}
  PROVE  Cardinality(InState(c, now, "paid")) + Cardinality(InState(c, now, "missed"))
           = circles[c].member_limit
<1>1. circles[c].member_limit \in Nat
  BY ExistingFacts
<1> DEFINE P == InState(c, now, "paid")
           M == InState(c, now, "missed")
<1>2. IsFiniteSet(P) /\ IsFiniteSet(M)
  BY <1>1, CountsAre DEF Told
<1>3. P \cap M = {}
  BY DEF InState
<1>4. P \cup M = 1..circles[c].member_limit
  <2>1. P \cup M \subseteq 1..circles[c].member_limit
    BY DEF InState
  <2>2. ASSUME NEW s \in 1..circles[c].member_limit PROVE s \in P \cup M
    <3>1. Taken(c, s) /\ obligationState(Owed(c, s), now) \in Told
      BY BegunPlaces
    <3>2. \A w \in {"due", "grace", "overdue"} : obligationState(Owed(c, s), now) # w
      BY <3>1 DEF InState
    <3> QED BY <3>1, <3>2 DEF InState, Told
  <2> QED BY <2>1, <2>2
<1>5. Cardinality(1..circles[c].member_limit) = circles[c].member_limit
  <2>1. 1 \in Int /\ circles[c].member_limit \in Int
    BY <1>1
  <2>2. Cardinality(1..circles[c].member_limit)
          = IF 1 > circles[c].member_limit THEN 0 ELSE circles[c].member_limit - 1 + 1
    BY <2>1, FS_Interval
  <2> QED BY <1>1, <2>2
<1>6. Cardinality(P \cup M) = Cardinality(P) + Cardinality(M) - Cardinality(P \cap M)
  BY <1>2, FS_Union
<1>7. Cardinality(P \cap M) = 0
  BY <1>3, FS_EmptySet
<1>8. Cardinality(P) \in Nat /\ Cardinality(M) \in Nat
  BY <1>2, FS_CardinalityType
<1>9. PICK p, k, i, u, l : /\ p = Cardinality(P) /\ k = Cardinality(M) /\ i = Cardinality(P \cap M)
                          /\ u = Cardinality(P \cup M) /\ l = circles[c].member_limit
  OBVIOUS
<1>10. u = l
  BY <1>4, <1>5, <1>9, Zenon
<1> HIDE DEF P, M
<1>11. p + k = l
  BY <1>1, <1>6, <1>7, <1>8, <1>9, <1>10
<1> QED
  BY <1>9, <1>11 DEF P, M

\* Somebody has not decided yet.
Acting(c) == \E w \in {"due", "grace", "overdue"} : InState(c, now, w) # {}

LEMMA ActingIsPending ==
  ASSUME MoneyInv, RoundsInv, SeatsInv, NEW c \in Existing, Begun(c)
  PROVE  Acting(c) <=> ~AllDecided(c, circles[c].current_round)
<1>1. /\ c \in CircleIds /\ TypeInv /\ circles[c].status # "Absent"
  BY ExistingFacts DEF Existing, MoneyInv, ClaimsInv
<1>2. ASSUME Acting(c) PROVE ~AllDecided(c, circles[c].current_round)
  <2>1. PICK w \in {"due", "grace", "overdue"}, s \in 1..circles[c].member_limit :
          obligationState(Owed(c, s), now) = w
    BY <1>2 DEF Acting, InState
  <2>2. Owed(c, s).status = "Pending"
    BY <2>1, BegunPlaces
  <2>3. circles[c].payout_order[s] \in Participants(c)
    BY <1>1, SlotsOf
  <2> QED BY <2>2, <2>3 DEF Owed, AllDecided
<1>3. ASSUME ~AllDecided(c, circles[c].current_round) PROVE Acting(c)
  <2>1. PICK m \in Participants(c) :
          obligations[<<c, circles[c].current_round, m>>].status \in {"Absent", "Pending"}
    BY <1>3 DEF AllDecided
  <2>2. PICK s \in 1..circles[c].member_limit : circles[c].payout_order[s] = m
    BY <1>1, SlotsOf
  <2>3. Owed(c, s).status \in {"Absent", "Pending"}
    BY <2>1, <2>2 DEF Owed
  <2>4. Taken(c, s) /\ obligationState(Owed(c, s), now) \in {"due", "grace", "overdue"}
    BY <2>3, BegunPlaces
  <2> QED BY <2>4 DEF Acting, InState
<1> QED
  BY <1>2, <1>3

\* What the circle waits for, by its status.
LEMMA StateOfOpen ==
  ASSUME MoneyInv, RoundsInv, SeatsInv, NEW c \in Existing, circles[c].status # "Active"
  PROVE  stateOf(get_organizer_facts(c), now)
           = IF circles[c].status = "OpenForMembers" THEN "waitingToJoin" ELSE "complete"
<1>1. PICK f : f = get_organizer_facts(c)
  OBVIOUS
<1>2. f.circleStatus = mapStatus(circles[c]) /\ f.joinedCount = circles[c].joined_count
      /\ f.memberLimit = circles[c].member_limit
  BY <1>1, FactsOf
<1>3. /\ circles[c].status \in {"OpenForMembers", "SettlementPending"}
      /\ circles[c].status = "OpenForMembers" => circles[c].joined_count < circles[c].member_limit
  BY ExistingFacts
<1>4. CASE circles[c].status = "SettlementPending"
  <2>1. f.circleStatus = "complete"
    BY <1>2, <1>4, StatusTold
  <2> QED BY <1>1, <1>4, <2>1 DEF stateOf
<1>5. CASE circles[c].status = "OpenForMembers"
  <2>1. f.circleStatus = "forming" /\ f.joinedCount < f.memberLimit
    BY <1>2, <1>3, <1>5, StatusTold
  <2> QED BY <1>1, <1>5, <2>1 DEF stateOf
<1> QED
  BY <1>3, <1>4, <1>5

LEMMA StateOfActive ==
  ASSUME MoneyInv, RoundsInv, SeatsInv, NEW c \in Existing, circles[c].status = "Active"
  PROVE  stateOf(get_organizer_facts(c), now)
           = IF InState(c, now, "overdue") # {} THEN "pastGrace"
             ELSE IF InState(c, now, "grace") # {} THEN "gracePeriod"
             ELSE IF InState(c, now, "due") # {} THEN "waitingForContributions"
             ELSE IF payout_states[<<c, circles[c].current_round>>].status = "Absent"
                  THEN "accountingReady"
             ELSE stateForPayout(payout_states[<<c, circles[c].current_round>>].status)
<1> DEFINE g == get_organizer_facts(c)
<1>1. PICK f, n, claim : /\ f = g /\ n = countsOf(f, now)
                         /\ claim = payout_states[<<c, circles[c].current_round>>].status
  OBVIOUS
<1>2. Begun(c) /\ circles[c].member_limit \in Nat
      /\ circles[c].joined_count = circles[c].member_limit
  BY ExistingFacts DEF Begun
<1>3. /\ f.circleStatus = "active" /\ f.joinedCount = f.memberLimit
      /\ f.memberLimit = circles[c].member_limit /\ f.payout = claim
  BY <1>1, <1>2, FactsOf, StatusTold
<1>4. \A w \in Told : /\ n[w] = Cardinality(InState(c, now, w)) /\ n[w] \in Nat
                      /\ n[w] > 0 <=> InState(c, now, w) # {}
  BY <1>1, <1>2, CountsAre
<1>5. stateOf(f, now) = IF n["overdue"] > 0 THEN "pastGrace"
                        ELSE IF n["grace"] > 0 THEN "gracePeriod"
                        ELSE IF n["due"] > 0 THEN "waitingForContributions"
                        ELSE IF n["paid"] + n["missed"] < f.memberLimit THEN "unavailable"
                        ELSE IF f.payout = "Absent" THEN "accountingReady"
                        ELSE stateForPayout(f.payout)
  <2>1. f.circleStatus # "complete" /\ ~(f.joinedCount < f.memberLimit)
    BY <1>2, <1>3
  <2> QED BY <1>1, <2>1 DEF stateOf
<1>6. ASSUME \A w \in {"due", "grace", "overdue"} : InState(c, now, w) = {}
      PROVE  ~(n["paid"] + n["missed"] < f.memberLimit)
  <2>1. Cardinality(InState(c, now, "paid")) + Cardinality(InState(c, now, "missed"))
          = circles[c].member_limit
    BY <1>2, <1>6, AllAccounted
  <2>2. n["paid"] + n["missed"] = f.memberLimit
    BY <1>3, <1>4, <2>1 DEF Told
  <2> QED BY <1>2, <1>3, <2>2
<1>7. /\ n["overdue"] > 0 <=> InState(c, now, "overdue") # {}
      /\ n["grace"] > 0 <=> InState(c, now, "grace") # {}
      /\ n["due"] > 0 <=> InState(c, now, "due") # {}
  BY <1>4 DEF Told
<1>8. CASE InState(c, now, "overdue") # {}
  BY <1>1, <1>5, <1>7, <1>8
<1>9. CASE InState(c, now, "overdue") = {} /\ InState(c, now, "grace") # {}
  BY <1>1, <1>5, <1>7, <1>9
<1>10. CASE /\ InState(c, now, "overdue") = {} /\ InState(c, now, "grace") = {}
            /\ InState(c, now, "due") # {}
  BY <1>1, <1>5, <1>7, <1>10
<1>11. CASE /\ InState(c, now, "overdue") = {} /\ InState(c, now, "grace") = {}
            /\ InState(c, now, "due") = {}
  BY <1>1, <1>3, <1>5, <1>6, <1>7, <1>11
<1> QED
  BY <1>8, <1>9, <1>10, <1>11

\* What the organizer is told it waits for is what the contract would do next.
LEMMA WaitsForTheNextCall ==
  ASSUME MoneyInv, RoundsInv, SeatsInv, NEW c \in Existing
  PROVE  LET state == stateOf(get_organizer_facts(c), now)
             last  == circles[c].current_round
         IN  /\ state # "unavailable"
             /\ state = "waitingToJoin" <=> circles[c].status = "OpenForMembers"
             /\ state = "accountingReady" <=> ReadyToFinalize(c)
             /\ state = "pastGrace" => \E m \in Participants(c) :
                  LET o == obligations[<<c, last, m>>]
                  IN  o.status = "Pending" /\ now >= o.grace_ends_at
             /\ state = "waitingForRecipient" =>
                  Authorizable(c, last) /\ last = circles[c].member_limit
             /\ state = "settling" =>
                  ledger[<<c, last>>].outstanding = payout_states[<<c, last>>].amount
             /\ state = "roundPaid" => ledger[<<c, last>>].outstanding = 0
<1>1. PICK state, r, claim : /\ state = stateOf(get_organizer_facts(c), now)
                             /\ r = circles[c].current_round
                             /\ claim = payout_states[<<c, r>>].status
  OBVIOUS
<1>2. /\ c \in CircleIds /\ TypeInv /\ TypeOK /\ circles[c].status # "Absent" /\ r \in Rounds /\ r \in Nat
      /\ circles[c].status \in {"OpenForMembers", "Active", "SettlementPending"}
  BY <1>1, ExistingFacts DEF Existing, MoneyInv, ClaimsInv, TypeInv, TypeOK, CircleRecord
<1>3. claim \in PayoutStatus
  BY <1>1, <1>2 DEF TypeOK, PayoutState
<1>4. CASE circles[c].status # "Active"
  <2>1. state = IF circles[c].status = "OpenForMembers" THEN "waitingToJoin" ELSE "complete"
    BY <1>1, <1>4, StateOfOpen
  <2>2. ~ReadyToFinalize(c)
    BY <1>4 DEF ReadyToFinalize
  <2> QED BY <1>1, <1>4, <2>1, <2>2
<1>5. CASE circles[c].status = "Active"
  <2>1. state = IF InState(c, now, "overdue") # {} THEN "pastGrace"
                ELSE IF InState(c, now, "grace") # {} THEN "gracePeriod"
                ELSE IF InState(c, now, "due") # {} THEN "waitingForContributions"
                ELSE IF claim = "Absent" THEN "accountingReady" ELSE stateForPayout(claim)
    BY <1>1, <1>5, StateOfActive
  <2>2. claim # "Absent" => stateForPayout(claim) =
          IF claim = "Scheduled" THEN "waitingForRecipient"
          ELSE IF claim = "DeferredLocked" THEN "payoutHeld"
          ELSE IF claim = "SettlementAuthorized" THEN "settling"
          ELSE IF claim = "Paid" THEN "roundPaid" ELSE "finalSettlement"
    BY DEF stateForPayout
  <2>3. /\ state # "unavailable" /\ state # "waitingToJoin"
        /\ state = "accountingReady" <=> ~Acting(c) /\ claim = "Absent"
        /\ state = "pastGrace" => InState(c, now, "overdue") # {}
        /\ state = "waitingForRecipient" => claim = "Scheduled"
        /\ state = "settling" => claim = "SettlementAuthorized"
        /\ state = "roundPaid" => claim = "Paid"
    BY <2>1, <2>2 DEF Acting
  <2>4. state = "accountingReady" <=> ReadyToFinalize(c)
    <3>1. Acting(c) <=> ~AllDecided(c, r)
      BY <1>1, <1>5, ActingIsPending DEF Begun
    <3> QED BY <1>1, <1>5, <2>3, <3>1 DEF ReadyToFinalize, AllDecided
  <2>5. ASSUME InState(c, now, "overdue") # {}
        PROVE  \E m \in Participants(c) :
                 obligations[<<c, r, m>>].status = "Pending" /\ now >= obligations[<<c, r, m>>].grace_ends_at
    <3>1. PICK s \in 1..circles[c].member_limit : obligationState(Owed(c, s), now) = "overdue"
      BY <2>5 DEF InState
    <3>2. Owed(c, s) \in Obligation /\ now \in Nat
      BY <1>2, <1>5, BegunPlaces DEF Begun, TypeOK
    <3>3. Owed(c, s).status = "Pending" /\ now >= Owed(c, s).grace_ends_at
      BY <3>1, <3>2, WindowsOf
    <3>4. circles[c].payout_order[s] \in Participants(c)
      BY <1>2, SlotsOf
    <3> QED BY <1>1, <3>3, <3>4 DEF Owed
  <2>6. claim = "Scheduled" => Authorizable(c, r) /\ r = circles[c].member_limit
    <3>1. RoundInOrder(c, r)
      BY <1>2, <1>5 DEF RoundsInv, Ordered, InOrder, Begun
    <3> QED BY <1>1, <1>2, <3>1 DEF RoundInOrder, Authorizable
  <2>7. claim = "SettlementAuthorized" => ledger[<<c, r>>].outstanding = payout_states[<<c, r>>].amount
    BY <1>1, <1>2, WholePot
  <2>8. claim = "Paid" => ledger[<<c, r>>].outstanding = 0
    <3>1. Conserved(c, r)
      BY <1>2 DEF MoneyInv, AllConserved
    <3>2. ledger[<<c, r>>].inflows \in Nat
      BY <1>2 DEF TypeOK, RoundLiability
    <3> QED BY <1>1, <3>1, <3>2 DEF Conserved, Closed
  <2> QED
    BY <1>1, <1>5, <2>3, <2>4, <2>5, <2>6, <2>7, <2>8
<1> QED
  BY <1>4, <1>5

Nudges == {"due", "grace", "overdue", "missed"}

LEMMA AttentionIs ==
  ASSUME NEW c, circles[c].member_limit \in Nat
  PROVE  LET f == get_organizer_facts(c)
             a == attentionOf(f, now)
         IN  /\ \A w \in Nudges : w \in a <=> InState(c, now, w) # {}
             /\ "notJoined" \in a <=> circles[c].joined_count < circles[c].member_limit
             /\ stateOf(f, now) \in {"accountingReady", "waitingForRecipient"} => stateOf(f, now) \in a
<1>1. PICK f, n, st : f = get_organizer_facts(c) /\ n = countsOf(f, now) /\ st = stateOf(f, now)
  OBVIOUS
<1>2. /\ f.joinedCount = circles[c].joined_count /\ f.memberLimit = circles[c].member_limit
  BY <1>1, FactsOf
<1> DEFINE W == {s \in {"due", "grace", "overdue", "missed"} : n[s] > 0}
           J == IF f.joinedCount < f.memberLimit THEN {"notJoined"} ELSE {}
           S == {st} \cap {"accountingReady", "waitingForRecipient"}
           P == IF f.priorPayout \in {"Scheduled", "DeferredLocked"} THEN {f.priorPayout} ELSE {}
<1>3. attentionOf(f, now) = ((W \cup J) \cup S) \cup P
  BY <1>1 DEF attentionOf
<1>4. \A w \in Nudges : w \in W <=> InState(c, now, w) # {}
  BY <1>1, CountsAre DEF Nudges, Told
<1>5. \A w \in Nudges : w \notin J /\ w \notin S /\ w \notin P
  BY DEF Nudges
<1>6. "notJoined" \notin W /\ "notJoined" \notin S /\ "notJoined" \notin P
  OBVIOUS
<1>7. "notJoined" \in J <=> circles[c].joined_count < circles[c].member_limit
  BY <1>2
<1>8. st \in {"accountingReady", "waitingForRecipient"} => st \in S
  OBVIOUS
<1> HIDE DEF W, J, S, P
<1> QED
  BY <1>1, <1>3, <1>4, <1>5, <1>6, <1>7, <1>8

\* With nothing on the list, the round is settled or being settled.
LEMMA QuietMeansSettled ==
  ASSUME MoneyInv, RoundsInv, SeatsInv, NEW c \in Existing,
         attentionOf(get_organizer_facts(c), now) = {}
  PROVE  \/ circles[c].status = "SettlementPending"
         \/ payout_states[<<c, circles[c].current_round>>].status \in {"SettlementAuthorized", "Paid"}
<1>1. PICK state, r, claim, a : /\ state = stateOf(get_organizer_facts(c), now)
                                /\ r = circles[c].current_round
                                /\ claim = payout_states[<<c, r>>].status
                                /\ a = attentionOf(get_organizer_facts(c), now)
  OBVIOUS
<1>2. /\ c \in CircleIds /\ TypeInv /\ TypeOK /\ circles[c].status # "Absent" /\ r \in Rounds
      /\ circles[c].status \in {"OpenForMembers", "Active", "SettlementPending"}
      /\ circles[c].member_limit \in Nat
      /\ circles[c].status = "OpenForMembers" => circles[c].joined_count < circles[c].member_limit
  BY <1>1, ExistingFacts DEF Existing, MoneyInv, ClaimsInv
<1>3. /\ \A w \in Nudges : InState(c, now, w) = {}
      /\ ~(circles[c].joined_count < circles[c].member_limit)
      /\ state \notin {"accountingReady", "waitingForRecipient"}
  BY <1>1, <1>2, AttentionIs
<1>4. ASSUME circles[c].status = "Active"
      PROVE  claim \in {"SettlementAuthorized", "Paid"}
  <2>1. state = IF claim = "Absent" THEN "accountingReady" ELSE stateForPayout(claim)
    BY <1>1, <1>3, <1>4, StateOfActive DEF Nudges
  <2>2. claim # "Absent" /\ claim # "Scheduled"
    BY <1>3, <2>1 DEF stateForPayout
  <2>3. claim # "DeferredLocked"
    <3> SUFFICES ASSUME claim = "DeferredLocked" PROVE FALSE
      OBVIOUS
    <3>1. Defaulted(c, r)
      BY <1>1, <1>2 DEF SeatsInv, Locked
    <3>2. PICK m \in Participants(c) : obligations[<<c, r, m>>].status = "MissedDefault"
      BY <3>1 DEF Defaulted
    <3>3. PICK s \in 1..circles[c].member_limit : circles[c].payout_order[s] = m
      BY <1>2, SlotsOf
    <3>4. Owed(c, s).status = "MissedDefault"
      BY <1>1, <3>2, <3>3 DEF Owed
    <3>5. Taken(c, s) /\ Owed(c, s) \in Obligation /\ now \in Nat
      BY <1>2, <1>4, BegunPlaces DEF Begun, TypeOK
    <3>6. obligationState(Owed(c, s), now) = "missed"
      BY <3>4, <3>5, WindowsOf
    <3>7. s \in InState(c, now, "missed")
      BY <3>5, <3>6 DEF InState
    <3> QED BY <1>3, <3>7 DEF Nudges
  <2>4. claim \notin Late
    BY <1>1, <1>2, <1>4 DEF SeatsInv, Locked
  <2>5. claim \in PayoutStatus
    BY <1>1, <1>2 DEF TypeOK, PayoutState
  <2> QED BY <2>2, <2>3, <2>4, <2>5 DEF Late, PayoutStatus
<1> QED
  BY <1>1, <1>2, <1>3, <1>4

\* The rows that ask for a nudge are those of the list.
LEMMA RowsMatchList ==
  ASSUME MoneyInv, RoundsInv, SeatsInv, NEW c \in Existing
  PROVE  LET f == get_organizer_facts(c)
         IN  (\E p \in DOMAIN f.places : placeRows(f, now)[p].needsAttention)
               <=> attentionOf(f, now) \cap {"notJoined", "due", "grace", "overdue", "missed"} # {}
<1>1. PICK f, a : f = get_organizer_facts(c) /\ a = attentionOf(f, now)
  OBVIOUS
<1>2. /\ c \in CircleIds /\ TypeInv /\ TypeOK /\ circles[c].status # "Absent"
      /\ circles[c].status \in {"OpenForMembers", "Active", "SettlementPending"}
      /\ circles[c].member_limit \in Nat
      /\ circles[c].status = "OpenForMembers" => circles[c].joined_count < circles[c].member_limit
      /\ Begun(c) => circles[c].joined_count = circles[c].member_limit
  BY ExistingFacts DEF Existing, MoneyInv, ClaimsInv
<1>3. DOMAIN f.places = 1..circles[c].member_limit
  BY <1>1, FactsOf
<1>4. \A p \in 1..circles[c].member_limit : placeRows(f, now)[p].needsAttention
        <=> ~Taken(c, p) \/ obligationState(Owed(c, p), now) \in Nudges
  <2> SUFFICES ASSUME NEW p \in 1..circles[c].member_limit
               PROVE  placeRows(f, now)[p].needsAttention
                        <=> ~Taken(c, p) \/ obligationState(Owed(c, p), now) \in Nudges
    OBVIOUS
  <2>1. f.places[p].joined = Taken(c, p) /\ f.places[p].obligation = Owed(c, p)
    BY <1>1, FactsOf
  <2>2. placeRows(f, now)[p].needsAttention =
          (~f.places[p].joined
             \/ obligationState(f.places[p].obligation, now) \in {"due", "grace", "overdue", "missed"})
    BY <1>3 DEF placeRows
  <2> QED BY <2>1, <2>2 DEF Nudges
<1>5. a \cap {"notJoined", "due", "grace", "overdue", "missed"} # {}
        <=> "notJoined" \in a \/ \E w \in Nudges : w \in a
  BY DEF Nudges
<1>6. /\ \A w \in Nudges : w \in a <=> InState(c, now, w) # {}
      /\ "notJoined" \in a <=> circles[c].joined_count < circles[c].member_limit
  BY <1>1, <1>2, AttentionIs
<1>7. CASE Begun(c)
  <2>1. "notJoined" \notin a
    BY <1>2, <1>6, <1>7
  <2>2. \A p \in 1..circles[c].member_limit : Taken(c, p)
    BY <1>7, BegunPlaces
  <2>3. (\E w \in Nudges : InState(c, now, w) # {})
          <=> \E p \in 1..circles[c].member_limit : obligationState(Owed(c, p), now) \in Nudges
    BY <2>2 DEF InState
  <2> QED BY <1>1, <1>3, <1>4, <1>5, <1>6, <2>1, <2>2, <2>3
<1>8. CASE circles[c].status = "OpenForMembers"
  <2>1. "notJoined" \in a
    BY <1>2, <1>6, <1>8
  <2>2. \E p \in 1..circles[c].member_limit : ~Taken(c, p)
    <3> SUFFICES ASSUME \A p \in 1..circles[c].member_limit : Taken(c, p) PROVE FALSE
      OBVIOUS
    <3>1. Participants(c) \subseteq joined[c]
      BY <1>2, SlotsOf DEF Taken
    <3>2. Seated(c)
      BY <1>2 DEF SeatsInv
    <3>3. joined[c] = Participants(c) /\ circles[c].joined_count = Cardinality(joined[c])
      BY <1>2, <3>1, <3>2 DEF Seated
    <3>4. Cardinality(Participants(c)) = circles[c].member_limit
      BY <1>2, ParticipantsCounted
    <3>5. circles[c].joined_count = circles[c].member_limit
      BY <3>3, <3>4, Zenon
    <3> QED BY <1>2, <1>8, <3>5
  <2> QED BY <1>1, <1>3, <1>4, <1>5, <2>1, <2>2
<1> QED
  BY <1>2, <1>7, <1>8 DEF Begun

\* The timeline shows a round as done when its claim is recorded, on final
\* contributions, and as upcoming when it is not.
LEMMA TimelineTold ==
  ASSUME MoneyInv, RoundsInv, SeatsInv, NEW c \in Existing, NEW r \in 1..circles[c].member_limit
  PROVE  LET tones == circleTimeline(get_circle(c, NoMember))
         IN  /\ tones[r] = "done" =>
                  payout_states[<<c, r>>].status # "Absent" /\ AllDecided(c, r)
             /\ tones[r] = "upcoming" => payout_states[<<c, r>>].status = "Absent"
<1>1. PICK v, tone : v = get_circle(c, NoMember) /\ tone = circleTimeline(v)[r]
  OBVIOUS
<1>2. /\ c \in CircleIds /\ r \in Rounds /\ r \in Nat
      /\ circles[c].status \in {"OpenForMembers", "Active", "SettlementPending"}
      /\ circles[c].member_limit \in Nat /\ r <= circles[c].member_limit
      /\ circles[c].current_round \in Nat
      /\ circles[c].status = "OpenForMembers" => circles[c].current_round = 1
  BY ExistingFacts DEF TypeOK, CircleRecord
<1>3. v.size = circles[c].member_limit /\ v.current_round = circles[c].current_round
      /\ v.status = mapStatus(circles[c])
  BY <1>1 DEF get_circle
<1>4. v.status = "complete" <=> circles[c].status = "SettlementPending"
  BY <1>3, StatusTold
<1>5. tone = CASE v.status = "complete" -> "done"
               [] v.status # "complete" /\ r <= v.size /\ r < v.current_round -> "done"
               [] v.status # "complete" /\ r <= v.size /\ r = v.current_round -> "current"
               [] OTHER -> "upcoming"
  <2>1. r \in 1..(v.size + 1)
    BY <1>2, <1>3
  <2> QED BY <1>1, <2>1 DEF circleTimeline
<1>6. /\ tone = "done" <=> v.status = "complete" \/ r < v.current_round
      /\ tone = "upcoming" => v.status # "complete" /\ r > v.current_round
  <2>1. CASE v.status = "complete"
    BY <1>5, <2>1
  <2>2. CASE v.status # "complete" /\ r < v.current_round
    BY <1>2, <1>3, <1>5, <2>2
  <2>3. CASE v.status # "complete" /\ r = v.current_round
    BY <1>2, <1>3, <1>5, <2>3
  <2>4. CASE v.status # "complete" /\ r > v.current_round
    BY <1>2, <1>3, <1>5, <2>4
  <2> QED BY <1>2, <1>3, <2>1, <2>2, <2>3, <2>4
<1>7. ClaimRecord(c, r) /\ Ordered(c)
  BY <1>2 DEF RoundsInv, MoneyInv, ClaimsInv, ClaimRecords
<1>8. ASSUME tone = "done" PROVE payout_states[<<c, r>>].status # "Absent"
  <2>1. CASE circles[c].status = "SettlementPending"
    BY <1>2, <1>7, <2>1 DEF Ordered, AllSettling, Undecided
  <2>2. CASE circles[c].status = "Active"
    BY <1>2, <1>3, <1>4, <1>6, <1>7, <1>8, <2>2 DEF Ordered, InOrder, Begun, RoundInOrder
  <2>3. CASE circles[c].status = "OpenForMembers"
    BY <1>2, <1>3, <1>4, <1>6, <1>8, <2>3
  <2> QED BY <1>2, <2>1, <2>2, <2>3
<1>9. ASSUME tone = "upcoming" PROVE payout_states[<<c, r>>].status = "Absent"
  <2>1. CASE circles[c].status = "Active"
    BY <1>2, <1>3, <1>6, <1>7, <1>9, <2>1 DEF Ordered, InOrder, Begun, RoundInOrder
  <2>2. CASE circles[c].status = "OpenForMembers"
    BY <1>2, <1>7, <2>2 DEF Ordered, Waiting, Begun
  <2> QED BY <1>2, <1>4, <1>6, <1>9, <2>1, <2>2
<1> QED
  BY <1>1, <1>7, <1>8, <1>9 DEF ClaimRecord

LEMMA OrganizerAgrees ==
  ASSUME MoneyInv, RoundsInv, SeatsInv
  PROVE  OrganizerTold
BY WaitsForTheNextCall, QuietMeansSettled, RowsMatchList, TimelineTold DEF OrganizerTold

\* Members and organizers are told what the contract would accept, at every
\* moment of a circle: who is asked to join, to pay and to collect, and what
\* the one thing is that the circle waits for.
THEOREM ClientToldHolds == Spec => []ClientTold
<1>1. MoneyInv /\ RoundsInv /\ SeatsInv => ClientTold
  BY OffersAgree, OrganizerAgrees DEF ClientTold
<1> QED
  BY <1>1, ViewsInvariant, PTL

-----------------------------------------------------------------------------
(* A member's record *)

\* A step decides at most one obligation.
OneDecided ==
  \E d \in CircleIds \X Rounds \X MemberRefs :
    \A k \in CircleIds \X Rounds \X MemberRefs :
      obligations[k].status \notin Final /\ obligations'[k].status \in Final => k = d

NoneDecided ==
  \A k \in CircleIds \X Rounds \X MemberRefs :
    obligations'[k].status \in Final => obligations[k].status \in Final

LEMMA OpeningDecidesNone ==
  ASSUME NEW c, NEW r, NEW members, create_round_obligations(c, r, members)
  PROVE  NoneDecided
<1> DEFINE open == [status |-> "Pending", due_at |-> now + circles[c].cadence_seconds,
                    grace_ends_at |-> now + circles[c].cadence_seconds
                                        + circles[c].grace_period_seconds]
<1>1. obligations' = [k \in CircleIds \X Rounds \X MemberRefs |->
                        IF k[1] = c /\ k[2] = r /\ k[3] \in Participants(c)
                        THEN open ELSE obligations[k]]
  BY DEF create_round_obligations
<1>2. open.status \notin Final
  BY DEF Final
<1> HIDE DEF open
<1> QED
  BY <1>1, <1>2 DEF NoneDecided

LEMMA AnyDecides ==
  ASSUME TypeOK, [Next]_vars
  PROVE  NoneDecided \/ OneDecided
<1>1. ASSUME UNCHANGED obligations PROVE NoneDecided
  BY <1>1 DEF NoneDecided
<1>2. CASE Tick \/ UNCHANGED vars
  BY <1>1, <1>2 DEF Tick, vars, history
<1>3. ASSUME NEW cfg, create_circle(cfg) PROVE NoneDecided
  BY <1>1, <1>3 DEF create_circle, history
<1>4. ASSUME NEW caller, NEW helper, initialize_settlement_helper(caller, helper)
      PROVE  NoneDecided
  BY <1>1, <1>4 DEF initialize_settlement_helper, history
<1>5. ASSUME NEW c, NEW m, join_circle(c, m) PROVE NoneDecided
  BY <1>1, <1>5, OpeningDecidesNone DEF join_circle
<1>6. ASSUME NEW c, NEW r, finalize_round_payout_accounting(c, r) PROVE NoneDecided
  BY <1>1, <1>6, OpeningDecidesNone DEF finalize_round_payout_accounting
<1>7. ASSUME NEW c, prepare_final_settlement(c) PROVE NoneDecided
  BY <1>1, <1>7 DEF prepare_final_settlement
<1>8. ASSUME NEW caller, NEW c, NEW r, NEW token, NEW nonce, NEW m, NEW amount,
             \/ authorize_payout_settlement(c, r, nonce)
             \/ settle_cure_from_helper(caller, c, r, m, token, amount, nonce)
             \/ settle_payout_from_helper(caller, c, r, token, nonce)
             \/ settle_recovery_from_helper(caller, c, r, token, nonce)
      PROVE  NoneDecided
  BY <1>1, <1>8 DEF authorize_payout_settlement, settle_cure_from_helper,
     settle_payout_from_helper, settle_recovery_from_helper, history
<1>9. ASSUME NEW c \in CircleIds, NEW r \in Rounds, NEW m \in MemberRefs,
             \/ finalize_contribution_default(c, r, m)
             \/ \E caller, token, amount, nonce :
                  settle_contribution_from_helper(caller, c, r, m, token, amount, nonce)
      PROVE  OneDecided
  <2>1. PICK d \in CircleIds \X Rounds \X MemberRefs : d = <<c, r, m>>
    OBVIOUS
  <2>2. \A k \in CircleIds \X Rounds \X MemberRefs : k # d => obligations'[k] = obligations[k]
    BY <1>9, <2>1 DEF finalize_contribution_default, settle_contribution_from_helper, TypeOK
  <2> QED BY <2>2 DEF OneDecided
<1> QED
  BY <1>2, <1>3, <1>4, <1>5, <1>6, <1>7, <1>8, <1>9 DEF Next, Keeper, Settle

\* The rounds of a member that ended in an outcome.
Outcomes(c, m, o) ==
  {r \in 1..circles[c].current_round : obligations[<<c, r, m>>].status = o}

\* The round of a circle goes on by one at most, within its limit.
LEMMA RoundGoesOn ==
  ASSUME MoneyInv, RoundsInv, SeatsInv, RoundSteps, NEW c \in Existing
  PROVE  /\ circles'[c].current_round \in {circles[c].current_round, circles[c].current_round + 1}
         /\ circles'[c].current_round \in Nat
         /\ 1..circles'[c].current_round \subseteq Rounds
<1>1. /\ c \in CircleIds /\ circles[c].status # "Absent"
      /\ circles[c].current_round \in Nat /\ circles[c].member_limit \in Nat
      /\ circles[c].current_round <= circles[c].member_limit
      /\ 1..circles[c].member_limit \subseteq Rounds
  BY ExistingFacts DEF Existing, TypeOK, CircleRecord
<1>2. RoundStep(c)
  BY <1>1 DEF RoundSteps
<1>3. \/ circles'[c].current_round = circles[c].current_round
      \/ /\ circles'[c].current_round = circles[c].current_round + 1
         /\ circles[c].current_round < circles[c].member_limit
  BY <1>1, <1>2 DEF RoundStep, Stayed, Continues, Created, Activated, Advanced, Completed, Prepared
<1>4. circles'[c].current_round \in Nat /\ circles'[c].current_round <= circles[c].member_limit
  BY <1>1, <1>3
<1>5. 1..circles'[c].current_round \subseteq 1..circles[c].member_limit
  BY <1>1, <1>4
<1> QED
  BY <1>1, <1>3, <1>4, <1>5

\* What was decided belongs to a round that has begun, and stays decided.
LEMMA OutcomesGrow ==
  ASSUME MoneyInv, RoundsInv, SeatsInv, StepFacts, RoundSteps,
         NEW c \in Existing, NEW m \in MemberRefs, NEW o \in Final
  PROVE  Outcomes(c, m, o) \subseteq Outcomes(c, m, o)'
<1>1. /\ c \in CircleIds /\ circles[c].current_round \in Nat
      /\ circles[c].current_round <= circles[c].member_limit
      /\ 1..circles[c].member_limit \subseteq Rounds /\ circles[c].member_limit \in Nat
  BY ExistingFacts DEF TypeOK, CircleRecord
<1>2. circles'[c].current_round \in {circles[c].current_round, circles[c].current_round + 1}
  BY RoundGoesOn
<1> SUFFICES ASSUME NEW r \in Outcomes(c, m, o) PROVE r \in Outcomes(c, m, o)'
  OBVIOUS
<1>3. r \in 1..circles[c].current_round /\ obligations[<<c, r, m>>].status = o
  BY DEF Outcomes
<1>4. r \in Rounds /\ r \in 1..circles'[c].current_round
  BY <1>1, <1>2, <1>3
<1>5. obligations'[<<c, r, m>>] = obligations[<<c, r, m>>]
  BY <1>1, <1>3, <1>4 DEF StepFacts, ObligationMoves, Final
<1> QED
  BY <1>3, <1>4, <1>5 DEF Outcomes

LEMMA DecidedHasBegun ==
  ASSUME MoneyInv, RoundsInv, SeatsInv, NEW c \in Existing, NEW m \in MemberRefs,
         NEW r \in Rounds, obligations[<<c, r, m>>].status # "Absent"
  PROVE  r <= circles[c].current_round
<1>1. c \in CircleIds /\ Ordered(c) /\ m \in Participants(c)
  BY ExistingFacts DEF RoundsInv, MoneyInv, Owned
<1>2. Begun(c)
  BY <1>1 DEF Ordered, Waiting
<1> QED
  BY <1>1, <1>2 DEF Ordered, InOrder, RoundInOrder

\* All the rounds of a member that are decided.
Record(c, m) == Outcomes(c, m, "OnTime") \cup Outcomes(c, m, "LateWithinGrace")
                  \cup Outcomes(c, m, "MissedDefault")

LEMMA RecordGrowsByOne ==
  ASSUME MoneyInv, RoundsInv, SeatsInv, StepFacts, RoundSteps, NoneDecided \/ OneDecided,
         NEW c \in Existing, NEW m \in MemberRefs
  PROVE  \E r : Record(c, m)' \subseteq Record(c, m) \cup {r}
<1>1. c \in CircleIds /\ circles[c].current_round \in Nat
  BY ExistingFacts DEF TypeOK, CircleRecord
<1>2. 1..circles'[c].current_round \subseteq Rounds /\ circles'[c].current_round \in Nat
  BY RoundGoesOn
<1>3. ASSUME NEW r \in Record(c, m)', obligations[<<c, r, m>>].status \in Final
      PROVE  r \in Record(c, m)
  <2>1. r \in Rounds /\ r \in Nat /\ r >= 1
    BY <1>2 DEF Record, Outcomes
  <2>2. r <= circles[c].current_round
    BY <1>3, <2>1, DecidedHasBegun DEF Final
  <2>3. r \in 1..circles[c].current_round
    BY <1>1, <2>1, <2>2
  <2> QED BY <1>3, <2>3 DEF Record, Outcomes, Final
<1>4. \A r \in Record(c, m)' :
        <<c, r, m>> \in CircleIds \X Rounds \X MemberRefs /\ obligations'[<<c, r, m>>].status \in Final
  BY <1>1, <1>2 DEF Record, Outcomes, Final
<1>5. CASE NoneDecided
  <2>1. Record(c, m)' \subseteq Record(c, m)
    BY <1>3, <1>4, <1>5 DEF NoneDecided
  <2> QED BY <2>1
<1>6. CASE OneDecided
  <2>1. PICK d \in CircleIds \X Rounds \X MemberRefs :
          \A k \in CircleIds \X Rounds \X MemberRefs :
            obligations[k].status \notin Final /\ obligations'[k].status \in Final => k = d
    BY <1>6 DEF OneDecided
  <2>2. \A r \in Record(c, m)' : r \in Record(c, m) \/ <<c, r, m>> = d
    BY <1>3, <1>4, <2>1
  <2>3. \A r : <<c, r, m>> = d => r = d[2]
    OBVIOUS
  <2> QED BY <2>2, <2>3
<1> QED
  BY <1>5, <1>6

\* Counts of disjoint sets.
LEMMA ThreeParts ==
  ASSUME NEW A, NEW B, NEW C, IsFiniteSet(A), IsFiniteSet(B), IsFiniteSet(C),
         A \cap B = {}, (A \cup B) \cap C = {}
  PROVE  /\ IsFiniteSet((A \cup B) \cup C)
         /\ Cardinality((A \cup B) \cup C) = Cardinality(A) + Cardinality(B) + Cardinality(C)
<1>1. /\ IsFiniteSet(A \cup B)
      /\ Cardinality(A \cup B) = Cardinality(A) + Cardinality(B) - Cardinality(A \cap B)
  BY FS_Union
<1>2. /\ IsFiniteSet((A \cup B) \cup C)
      /\ Cardinality((A \cup B) \cup C)
           = Cardinality(A \cup B) + Cardinality(C) - Cardinality((A \cup B) \cap C)
  BY <1>1, FS_Union
<1>3. Cardinality(A \cap B) = 0 /\ Cardinality((A \cup B) \cap C) = 0
  BY FS_EmptySet, Zenon
<1>4. Cardinality(A) \in Nat /\ Cardinality(B) \in Nat /\ Cardinality(C) \in Nat
  BY FS_CardinalityType
<1>5. PICK a, b, c, ab, abc, x, y :
        /\ a = Cardinality(A) /\ b = Cardinality(B) /\ c = Cardinality(C)
        /\ ab = Cardinality(A \cup B) /\ abc = Cardinality((A \cup B) \cup C)
        /\ x = Cardinality(A \cap B) /\ y = Cardinality((A \cup B) \cap C)
  OBVIOUS
<1>6. ab = a + b - x /\ abc = ab + c - y /\ x = 0 /\ y = 0 /\ a \in Nat /\ b \in Nat /\ c \in Nat
  BY <1>1, <1>2, <1>3, <1>4, <1>5, Zenon
<1>7. abc = a + b + c
  BY <1>6
<1> QED
  BY <1>2, <1>5, <1>7

\* The rounds of a list of outcomes that ended in one, and those that ended.
With(f, o) == {r \in DOMAIN f : f[r] = o}

Ended(f) == (With(f, "OnTime") \cup With(f, "LateWithinGrace")) \cup With(f, "MissedDefault")

LEMMA StandingCounts ==
  ASSUME NEW f, IsFiniteSet(DOMAIN f)
  PROVE  LET s == standingFrom(f)
         IN  /\ s.onTimeCount = Cardinality(With(f, "OnTime"))
             /\ s.lateCount = Cardinality(With(f, "LateWithinGrace"))
             /\ s.defaultCount = Cardinality(With(f, "MissedDefault"))
             /\ s.onTimeCount + s.lateCount + s.defaultCount = Cardinality(Ended(f))
             /\ \A o : IsFiniteSet(With(f, o))
             /\ IsFiniteSet(Ended(f))
<1>1. ASSUME NEW o PROVE IsFiniteSet(With(f, o))
  <2>1. With(f, o) \subseteq DOMAIN f
    BY DEF With
  <2> QED BY <2>1, FS_Subset
<1> PICK A, B, C : /\ A = With(f, "OnTime") /\ B = With(f, "LateWithinGrace")
                   /\ C = With(f, "MissedDefault")
  OBVIOUS
<1>2. A \cap B = {} /\ (A \cup B) \cap C = {}
  BY DEF With
<1>3. IsFiniteSet(A) /\ IsFiniteSet(B) /\ IsFiniteSet(C)
  BY <1>1
<1>4. Ended(f) = (A \cup B) \cup C
  BY DEF Ended
<1>5. PICK s : s = standingFrom(f)
  OBVIOUS
<1>6. /\ s.onTimeCount = Cardinality(A) /\ s.lateCount = Cardinality(B)
      /\ s.defaultCount = Cardinality(C)
  BY <1>5 DEF standingFrom, With
<1>7. /\ IsFiniteSet((A \cup B) \cup C)
      /\ Cardinality((A \cup B) \cup C) = Cardinality(A) + Cardinality(B) + Cardinality(C)
  BY <1>2, <1>3, ThreeParts
<1>8. s.onTimeCount + s.lateCount + s.defaultCount = Cardinality(Ended(f)) /\ IsFiniteSet(Ended(f))
  BY <1>4, <1>6, <1>7
<1> QED
  BY <1>1, <1>5, <1>6, <1>8

LEMMA StandingCompared ==
  ASSUME NEW f, NEW g, IsFiniteSet(DOMAIN f), IsFiniteSet(DOMAIN g),
         \A o \in Final : With(f, o) \subseteq With(g, o),
         NEW r, Ended(g) \subseteq Ended(f) \cup {r}
  PROVE  LET s == standingFrom(f)
             t == standingFrom(g)
         IN  /\ t.onTimeCount >= s.onTimeCount
             /\ t.lateCount >= s.lateCount
             /\ t.defaultCount >= s.defaultCount
             /\ t.onTimeCount + t.lateCount + t.defaultCount
                  <= s.onTimeCount + s.lateCount + s.defaultCount + 1
<1>1. PICK s, t : s = standingFrom(f) /\ t = standingFrom(g)
  OBVIOUS
<1>2. /\ s.onTimeCount = Cardinality(With(f, "OnTime"))
      /\ s.lateCount = Cardinality(With(f, "LateWithinGrace"))
      /\ s.defaultCount = Cardinality(With(f, "MissedDefault"))
      /\ s.onTimeCount + s.lateCount + s.defaultCount = Cardinality(Ended(f))
      /\ IsFiniteSet(Ended(f))
  BY <1>1, StandingCounts
<1>3. /\ t.onTimeCount = Cardinality(With(g, "OnTime"))
      /\ t.lateCount = Cardinality(With(g, "LateWithinGrace"))
      /\ t.defaultCount = Cardinality(With(g, "MissedDefault"))
      /\ t.onTimeCount + t.lateCount + t.defaultCount = Cardinality(Ended(g))
      /\ \A o : IsFiniteSet(With(g, o))
  BY <1>1, StandingCounts
<1>4. \A o \in Final : Cardinality(With(f, o)) <= Cardinality(With(g, o))
  BY <1>3, FS_Subset
<1>5. Cardinality(Ended(g)) <= Cardinality(Ended(f) \cup {r}) /\ IsFiniteSet(Ended(f) \cup {r})
  BY <1>2, FS_AddElement, FS_Subset
<1>6. /\ Cardinality(Ended(f)) \in Nat /\ Cardinality(Ended(f) \cup {r}) \in Nat
      /\ Cardinality(Ended(g)) \in Nat
      /\ Cardinality(Ended(f) \cup {r}) <= Cardinality(Ended(f)) + 1
  <2>1. Cardinality(Ended(f)) \in Nat /\ Cardinality(Ended(f) \cup {r}) \in Nat
    BY <1>2, <1>5, FS_CardinalityType
  <2>2. IsFiniteSet(Ended(g)) /\ Cardinality(Ended(g)) \in Nat
    BY <1>5, FS_Subset, FS_CardinalityType
  <2>3. Cardinality(Ended(f) \cup {r})
          = IF r \in Ended(f) THEN Cardinality(Ended(f)) ELSE Cardinality(Ended(f)) + 1
    BY <1>2, FS_AddElement
  <2>4. PICK a, d : a = Cardinality(Ended(f)) /\ d = Cardinality(Ended(f) \cup {r})
    OBVIOUS
  <2>5. d <= a + 1
    BY <2>1, <2>3, <2>4
  <2> QED BY <2>1, <2>2, <2>4, <2>5, Zenon
<1>7. PICK a, b, d : a = Cardinality(Ended(f)) /\ b = Cardinality(Ended(g))
                     /\ d = Cardinality(Ended(f) \cup {r})
  OBVIOUS
<1>8. b <= a + 1
  BY <1>5, <1>6, <1>7
<1>9. t.onTimeCount + t.lateCount + t.defaultCount
        <= s.onTimeCount + s.lateCount + s.defaultCount + 1
  <2>1. t.onTimeCount + t.lateCount + t.defaultCount = b
    BY <1>3, <1>7
  <2>2. s.onTimeCount + s.lateCount + s.defaultCount = a
    BY <1>2, <1>7
  <2> QED BY <1>8, <2>1, <2>2
<1>10. /\ t.onTimeCount >= s.onTimeCount /\ t.lateCount >= s.lateCount
       /\ t.defaultCount >= s.defaultCount
  <2>1. ASSUME NEW o \in Final, NEW x, NEW y,
               x = Cardinality(With(f, o)), y = Cardinality(With(g, o))
        PROVE  y >= x
    <3>1. With(f, o) \subseteq With(g, o) /\ IsFiniteSet(With(g, o))
      BY <1>3
    <3>2. Cardinality(With(f, o)) <= Cardinality(With(g, o))
      BY <1>4
    <3>3. x \in Nat /\ y \in Nat
      BY <2>1, <3>1, FS_Subset, FS_CardinalityType
    <3> QED BY <2>1, <3>2, <3>3
  <2> QED BY <1>2, <1>3, <2>1 DEF Final
<1> QED
  BY <1>1, <1>9, <1>10

\* A member's record is never rewritten: no count goes down in any step of the
\* circle, and a step adds one outcome at most.
THEOREM StandingOnlyGrowsHolds == Spec => StandingOnlyGrows
<1>1. ASSUME MoneyInv, RoundsInv, SeatsInv, [Next]_vars PROVE StandingGrows
  <2>1. TypeOK /\ StepFacts /\ RoundSteps /\ (NoneDecided \/ OneDecided)
    BY <1>1, AnyStep, AnyRounds, AnyDecides DEF MoneyInv, ClaimsInv, TypeInv
  <2>2. SUFFICES ASSUME NEW c \in Existing, NEW m \in MemberRefs
                 PROVE  LET s == get_reputation(c, m)
                            n == get_reputation(c, m)'
                        IN  /\ n.onTimeCount >= s.onTimeCount
                            /\ n.lateCount >= s.lateCount
                            /\ n.defaultCount >= s.defaultCount
                            /\ n.onTimeCount + n.lateCount + n.defaultCount
                                 <= s.onTimeCount + s.lateCount + s.defaultCount + 1
    BY DEF StandingGrows
  <2>3. PICK f : f = [r \in 1..circles[c].current_round |-> obligations[<<c, r, m>>].status]
    OBVIOUS
  <2>4. PICK g : g = [r \in 1..circles'[c].current_round |-> obligations'[<<c, r, m>>].status]
    OBVIOUS
  <2>5. PICK n, k : n = circles[c].current_round /\ k = circles'[c].current_round
    OBVIOUS
  <2>6. IsFiniteSet(DOMAIN f) /\ IsFiniteSet(DOMAIN g)
    <3>1. k \in Nat
      BY <1>1, <2>1, <2>5, RoundGoesOn
    <3>2. n \in Nat
      BY <2>1, <2>5 DEF TypeOK, CircleRecord, Existing
    <3>3. 1 \in Int /\ n \in Int /\ k \in Int
      BY <3>1, <3>2
    <3>4. IsFiniteSet(1..n) /\ IsFiniteSet(1..k)
      BY <3>3, FS_Interval
    <3>5. DOMAIN f = 1..n /\ DOMAIN g = 1..k
      BY <2>3, <2>4, <2>5
    <3> QED BY <3>4, <3>5
  <2>7. \A o : With(f, o) = Outcomes(c, m, o) /\ With(g, o) = Outcomes(c, m, o)'
    BY <2>3, <2>4 DEF With, Outcomes
  <2>8. \A o \in Final : With(f, o) \subseteq With(g, o)
    BY <1>1, <2>1, <2>7, OutcomesGrow
  <2>9. PICK r : Ended(g) \subseteq Ended(f) \cup {r}
    <3>1. Ended(f) = Record(c, m) /\ Ended(g) = Record(c, m)'
      BY <2>7 DEF Ended, Record
    <3> QED BY <1>1, <2>1, <3>1, RecordGrowsByOne
  <2>10. get_reputation(c, m) = standingFrom(f) /\ get_reputation(c, m)' = standingFrom(g)
    BY <2>3, <2>4 DEF get_reputation
  <2> QED BY <2>6, <2>8, <2>9, <2>10, StandingCompared
<1> QED
  BY <1>1, ViewsInvariant, PTL DEF Spec, StandingOnlyGrows

-----------------------------------------------------------------------------
(* No circle is stuck.  The invariant adds that only a circle in final      *)
(* settlement has been prepared for it.                                     *)

PreparedOnce ==
  \A c \in final_settlement_prepared : circles[c].status = "SettlementPending"

LEMMA PreparedStep == ClaimsInv /\ PreparedOnce /\ [Next]_vars => PreparedOnce'
<1> SUFFICES ASSUME ClaimsInv, PreparedOnce, [Next]_vars, NEW c \in final_settlement_prepared'
             PROVE  circles'[c].status = "SettlementPending"
  BY DEF PreparedOnce
<1>1. TypeOK /\ RoundSteps
  BY AnyRounds DEF ClaimsInv, TypeInv
<1>2. CASE c \in final_settlement_prepared
  <2>1. c \in CircleIds /\ circles[c].status = "SettlementPending"
    BY <1>1, <1>2 DEF TypeOK, PreparedOnce
  <2>2. RoundStep(c)
    BY <1>1, <2>1 DEF RoundSteps
  <2> QED BY <2>1, <2>2 DEF RoundStep, Stayed, Continues, Created, Activated, Advanced,
                            Completed, Prepared
<1>3. CASE c \notin final_settlement_prepared
  <2> DEFINE kept == UNCHANGED final_settlement_prepared
  <2>1. ~kept
    BY <1>3
  <2>2. UNCHANGED claims => kept
    BY DEF claims
  <2>3. /\ Tick => kept
        /\ UNCHANGED vars => kept
        /\ \A cfg : create_circle(cfg) => kept
        /\ \A caller, helper : initialize_settlement_helper(caller, helper) => kept
    BY <2>2 DEF Tick, vars, create_circle, initialize_settlement_helper
  <2>4. ASSUME NEW d, NEW m PROVE join_circle(d, m) => kept
    BY <2>2 DEF join_circle
  <2>5. ASSUME NEW d, NEW r, NEW m PROVE finalize_contribution_default(d, r, m) => kept
    BY <2>2 DEF finalize_contribution_default
  <2>6. ASSUME NEW d, NEW r PROVE finalize_round_payout_accounting(d, r) => kept
    BY DEF finalize_round_payout_accounting
  <2>7. ASSUME NEW d, NEW r, NEW nonce PROVE authorize_payout_settlement(d, r, nonce) => kept
    BY DEF authorize_payout_settlement
  <2>8. ASSUME NEW caller, NEW d, NEW r, NEW m, NEW token, NEW amount, NEW nonce
         PROVE  /\ settle_contribution_from_helper(caller, d, r, m, token, amount, nonce) => kept
                /\ settle_cure_from_helper(caller, d, r, m, token, amount, nonce) => kept
    BY <2>2 DEF settle_contribution_from_helper, settle_cure_from_helper
  <2>9. ASSUME NEW caller, NEW d, NEW r, NEW token, NEW nonce
         PROVE  /\ settle_payout_from_helper(caller, d, r, token, nonce) => kept
                /\ settle_recovery_from_helper(caller, d, r, token, nonce) => kept
    BY DEF settle_payout_from_helper, settle_recovery_from_helper
  <2> HIDE DEF kept
  <2>10. PICK d \in CircleIds : prepare_final_settlement(d)
    BY <2>1, <2>3, <2>4, <2>5, <2>6, <2>7, <2>8, <2>9 DEF Next, Keeper, Settle
  <2>11. c = d
    BY <1>3, <2>10 DEF prepare_final_settlement
  <2>12. circles' = [circles EXCEPT ![d] = [@ EXCEPT !.status = "SettlementPending"]]
    BY <2>10 DEF prepare_final_settlement
  <2>13. circles \in [CircleIds -> CircleRecord]
    BY <1>1 DEF TypeOK
  <2> QED BY <2>11, <2>12, <2>13 DEF CircleRecord
<1> QED
  BY <1>2, <1>3

StuckInv == MoneyInv /\ RoundsInv /\ SeatsInv /\ PreparedOnce

LEMMA StuckInvariant == Spec => []StuckInv
<1>1. Init => PreparedOnce
  BY DEF Init, PreparedOnce
<1>2. MoneyInv => ClaimsInv
  BY DEF MoneyInv
<1> QED
  BY <1>1, <1>2, ViewsInvariant, PreparedStep, PTL DEF Spec, StuckInv

\* In an active circle whose last claim is recorded every round has its claim,
\* and none of them is a recovery.
LEMMA AllClaimed ==
  ASSUME StuckInv, NEW c \in CircleIds, circles[c].status = "Active",
         payout_states[<<c, circles[c].current_round>>].status # "Absent",
         NEW r \in 1..circles[c].member_limit
  PROVE  /\ r \in Rounds /\ circles[c].current_round = circles[c].member_limit
         /\ payout_states[<<c, r>>].status
              \in {"Scheduled", "DeferredLocked", "SettlementAuthorized", "Paid"}
<1>1. MoneyInv /\ RoundsInv /\ SeatsInv /\ c \in Existing
  BY DEF StuckInv, Existing
<1>2. /\ TypeOK /\ circles[c].current_round \in Rounds /\ r \in Rounds
      /\ circles[c].member_limit \in Nat /\ circles[c].current_round <= circles[c].member_limit
  BY <1>1, ExistingFacts
<1>3. \A s \in Rounds : RoundInOrder(c, s)
  BY <1>1 DEF RoundsInv, Ordered, InOrder, Begun
<1>4. circles[c].current_round = circles[c].member_limit
  BY <1>2, <1>3 DEF RoundInOrder, Rounds
<1>5. payout_states[<<c, r>>].status # "Absent"
  BY <1>2, <1>3, <1>4 DEF RoundInOrder, Rounds
<1>6. payout_states[<<c, r>>].status \in PayoutStatus
  BY <1>2 DEF TypeOK, PayoutState
<1>7. payout_states[<<c, r>>].status \notin Late
  BY <1>1, <1>2 DEF SeatsInv, Locked
<1> QED
  BY <1>2, <1>4, <1>5, <1>6, <1>7 DEF PayoutStatus, Late

LEMMA ActiveMovesOn ==
  ASSUME StuckInv, NEW c \in CircleIds, circles[c].status = "Active"
  PROVE  \/ \E m \in Participants(c) :
              obligations[<<c, circles[c].current_round, m>>].status = "Pending"
         \/ ReadyToFinalize(c)
         \/ \E r \in Rounds : Authorizable(c, r)
         \/ ReadyToSettle(c)
<1> DEFINE last == circles[c].current_round
<1>1. MoneyInv /\ RoundsInv /\ SeatsInv /\ c \in Existing /\ TypeInv
  BY DEF StuckInv, Existing, MoneyInv, ClaimsInv
<1>2. /\ last \in Rounds /\ circles[c].member_limit \in Nat /\ last <= circles[c].member_limit
      /\ 1..circles[c].member_limit \subseteq Rounds
  BY <1>1, ExistingFacts
<1>3. CASE payout_states[<<c, last>>].status = "Absent"
  <2>1. RoundInOrder(c, last) /\ last <= last
    BY <1>1, <1>2 DEF RoundsInv, Ordered, InOrder, Begun, Rounds
  <2>2. \A m \in Participants(c) : obligations[<<c, last, m>>].status # "Absent"
    BY <2>1 DEF RoundInOrder
  <2> QED BY <1>3, <2>2 DEF ReadyToFinalize
<1>4. CASE payout_states[<<c, last>>].status # "Absent"
  <2>1. last = circles[c].member_limit
    <3>1. last \in 1..circles[c].member_limit
      BY <1>2 DEF Rounds
    <3> QED BY <1>4, <3>1, AllClaimed
  <2>2. SUFFICES ASSUME ~ \E r \in Rounds : Authorizable(c, r) PROVE NoneUndecided(c)
    BY <1>4, <2>1 DEF ReadyToSettle
  <2>3. SUFFICES ASSUME NEW r \in 1..circles[c].member_limit
                 PROVE  \/ payout_states[<<c, r>>].status \in {"SettlementAuthorized", "Paid"}
                        \/ r \in Deficient(c) /\ calculate_round_unresolved_deficit(c, r) > 0
    BY DEF NoneUndecided
  <2>4. /\ r \in Rounds
        /\ payout_states[<<c, r>>].status
             \in {"Scheduled", "DeferredLocked", "SettlementAuthorized", "Paid"}
    BY <1>4, AllClaimed
  <2>5. CASE payout_states[<<c, r>>].status = "DeferredLocked"
    <3>1. AllDecided(c, r) /\ circles[c].status # "Absent"
      BY <1>1, <2>4, <2>5 DEF MoneyInv, ClaimsInv, ClaimRecords, ClaimRecord
    <3>2. calculate_round_unresolved_deficit(c, r) \in Nat
      BY <1>1, <2>4, <2>5, <3>1, OpenRoundHolds DEF Closed
    <3>3. calculate_round_unresolved_deficit(c, r) # 0
      BY <2>2, <2>4, <2>5 DEF Authorizable
    <3> QED BY <2>5, <3>2, <3>3 DEF Deficient
  <2> QED BY <2>2, <2>4, <2>5 DEF Authorizable
<1> QED
  BY <1>3, <1>4

LEMMA PreparationAccepted ==
  ASSUME StuckInv, NEW c \in CircleIds, ReadyToSettle(c), NEW r \in Deficient(c)
  PROVE  LET due  == payout_states[<<c, r>>].amount
             owed == calculate_round_unresolved_deficit(c, r)
         IN  owed <= due /\ ledger[<<c, r>>].outstanding = due - owed
<1>1. /\ MoneyInv /\ RoundsInv /\ SeatsInv /\ c \in Existing
      /\ r \in 1..circles[c].member_limit /\ payout_states[<<c, r>>].status = "DeferredLocked"
  BY DEF StuckInv, Existing, ReadyToSettle, Deficient
<1>2. r \in Rounds
  BY <1>1, ExistingFacts
<1>3. /\ circles[c].status # "Absent" /\ AllDecided(c, r)
      /\ payout_states[<<c, r>>].amount = ScheduledAmount(c)
  BY <1>1, <1>2 DEF MoneyInv, ClaimsInv, ClaimRecords, ClaimRecord
<1> QED
  BY <1>1, <1>2, <1>3, OpenRoundHolds DEF Closed

LEMMA SettlementMovesOn ==
  ASSUME StuckInv, NEW c \in CircleIds, circles[c].status = "SettlementPending",
         NEW r \in 1..circles[c].member_limit
  PROVE  \/ payout_states[<<c, r>>].status \in {"SettlementAuthorized", "RecoveryPending"}
         \/ /\ payout_states[<<c, r>>].status \in Closed \cup {"NoFundedRecovery"}
            /\ ledger[<<c, r>>].outstanding = 0
<1>1. MoneyInv /\ RoundsInv /\ SeatsInv /\ c \in Existing
  BY DEF StuckInv, Existing
<1>2. TypeOK /\ r \in Rounds
  BY <1>1, ExistingFacts
<1>3. payout_states[<<c, r>>].status \notin Undecided
  BY <1>1, <1>2 DEF RoundsInv, Ordered, AllSettling
<1>4. payout_states[<<c, r>>].status \in PayoutStatus
  BY <1>2 DEF TypeOK, PayoutState
<1>5. /\ Conserved(c, r) /\ RecoveryFixed(c, r)
      /\ ledger[<<c, r>>].inflows \in Nat
  BY <1>1, <1>2 DEF MoneyInv, AllConserved, RecoveriesFixed, TypeOK, RoundLiability
<1>6. payout_states[<<c, r>>].status \in Closed => ledger[<<c, r>>].outstanding = 0
  <2>1. ASSUME payout_states[<<c, r>>].status \in Closed
        PROVE  /\ ledger[<<c, r>>].outflows = ledger[<<c, r>>].inflows
               /\ ledger[<<c, r>>].outstanding
                    = ledger[<<c, r>>].inflows - ledger[<<c, r>>].outflows
    BY <1>5, <2>1 DEF Conserved
  <2> QED BY <1>5, <2>1
<1>7. payout_states[<<c, r>>].status = "NoFundedRecovery" => ledger[<<c, r>>].outstanding = 0
  BY <1>5 DEF RecoveryFixed
<1> QED
  BY <1>3, <1>4, <1>6, <1>7 DEF Undecided, PayoutStatus, Closed

\* A circle that has begun is never left without a next call that needs nobody who
\* owes, and the consistency asserts of prepare_final_settlement cannot refuse it.
THEOREM NeverStuckHolds == Spec => []NeverStuck
<1>1. ASSUME StuckInv, FinalizeNeverRefused PROVE NeverStuck
  <2> SUFFICES ASSUME NEW c \in CircleIds
      PROVE
        /\ circles[c].status = "Active" =>
             \/ \E m \in Participants(c) :
                  obligations[<<c, circles[c].current_round, m>>].status = "Pending"
             \/ ReadyToFinalize(c)
             \/ \E r \in Rounds : Authorizable(c, r)
             \/ ReadyToSettle(c)
        /\ ReadyToSettle(c) =>
             /\ c \notin final_settlement_prepared
             /\ \A r \in Deficient(c) :
                  LET due  == payout_states[<<c, r>>].amount
                      owed == calculate_round_unresolved_deficit(c, r)
                  IN  owed <= due /\ ledger[<<c, r>>].outstanding = due - owed
        /\ circles[c].status = "SettlementPending" =>
             \A r \in 1..circles[c].member_limit :
               \/ payout_states[<<c, r>>].status \in {"SettlementAuthorized", "RecoveryPending"}
               \/ /\ payout_states[<<c, r>>].status \in Closed \cup {"NoFundedRecovery"}
                  /\ ledger[<<c, r>>].outstanding = 0
    BY <1>1 DEF NeverStuck
  <2>1. ReadyToSettle(c) => c \notin final_settlement_prepared
    BY <1>1 DEF StuckInv, PreparedOnce, ReadyToSettle
  <2> QED BY <1>1, <2>1, ActiveMovesOn, PreparationAccepted, SettlementMovesOn
<1> QED
  BY <1>1, StuckInvariant, FinalizeNeverRefusedHolds, PTL

-----------------------------------------------------------------------------
(* The screen of a circle and what it sends: what it says of whose turn it *)
(* is and of what is missing is so, and no assert refuses a member's join, *)
(* payment or claim.                                                       *)

\* What an obligation that was never recorded reads as.
Blank == \A k \in CircleIds \X Rounds \X MemberRefs :
           obligations[k].status = "Absent" => obligations[k] = NoObligation

PageInv == MoneyInv /\ RoundsInv /\ SeatsInv /\ AllTotals /\ Blank

LEMMA BlankStays == ClaimsInv /\ Blank /\ [Next]_vars => Blank'
<1> SUFFICES ASSUME ClaimsInv, Blank, [Next]_vars,
                    NEW k \in CircleIds \X Rounds \X MemberRefs,
                    obligations'[k].status = "Absent"
             PROVE  obligations'[k] = NoObligation
  BY DEF Blank
<1>1. ObligationMoves
  BY AnyStep DEF StepFacts
<1>2. PICK c \in CircleIds, r \in Rounds, m \in MemberRefs : k = <<c, r, m>>
  OBVIOUS
<1>3. obligations'[k] = obligations[k]
  BY <1>1, <1>2 DEF ObligationMoves, Final
<1> QED
  BY <1>3 DEF Blank

LEMMA PageInvariant == Spec => []PageInv
<1>1. Init => Blank
  BY DEF Init, Blank
<1>2. ClaimsInv /\ Blank /\ [Next]_vars => Blank'
  BY BlankStays
<1>3. MoneyInv => ClaimsInv
  BY DEF MoneyInv
<1> QED
  BY <1>1, <1>2, <1>3, ViewsInvariant, TotalsInit, TotalsStep, PTL DEF Spec, PageInv

-----------------------------------------------------------------------------
(* The seats *)

LEMMA SmallRemainder ==
  ASSUME NEW n \in Nat, NEW d \in Nat, n < d
  PROVE  (n % d) = n
BY SMTT(30)

LEMMA SpotlessRecord ==
  ASSUME NEW f, IsFiniteSet(DOMAIN f), "alwaysOnTime" \in StandingCard(standingFrom(f)), NEW r \in DOMAIN f
  PROVE  f[r] \notin {"LateWithinGrace", "MissedDefault"}
<1>1. PICK s : s = standingFrom(f)
  OBVIOUS
<1>2. s.lateCount = 0 /\ s.defaultCount = 0
  BY <1>1 DEF StandingCard
<1>3. /\ Cardinality(With(f, "LateWithinGrace")) = 0 /\ Cardinality(With(f, "MissedDefault")) = 0
      /\ IsFiniteSet(With(f, "LateWithinGrace")) /\ IsFiniteSet(With(f, "MissedDefault"))
  BY <1>1, <1>2, StandingCounts
<1>4. With(f, "LateWithinGrace") = {} /\ With(f, "MissedDefault") = {}
  BY <1>3, FS_EmptySet
<1> QED
  BY <1>4 DEF With

\* The seat the screen marks as collecting is the one the contract pays for the
\* round, and a record that reads spotless has no late or missed round behind it.
THEOREM SeatsToldHolds == Spec => []SeatsTold
<1>1. ASSUME PageInv PROVE SeatsTold
  <2> SUFFICES ASSUME NEW c \in Existing, NEW m \in MemberRefs \cup {NoMember}
      PROVE  LET v == get_circle(c, m)
             IN  /\ \A s \in 1..v.size :
                      Seats(v)[s].turn <=> circles[c].payout_order[s] = ScheduledMember(c, v.current_round)
                 /\ yourTurn(v) <=> m = ScheduledMember(c, v.current_round)
                 /\ m # NoMember /\ "alwaysOnTime" \in StandingCard(get_reputation(c, m)) =>
                      \A r \in 1..v.current_round :
                        obligations[<<c, r, m>>].status \notin {"LateWithinGrace", "MissedDefault"}
    BY DEF SeatsTold
  <2>1. /\ MoneyInv /\ RoundsInv /\ SeatsInv /\ TypeInv
        /\ c \in CircleIds /\ circles[c].status # "Absent"
    BY <1>1 DEF PageInv, MoneyInv, ClaimsInv, Existing
  <2>2. PICK v : v = get_circle(c, m)
    OBVIOUS
  <2>3. PICK n, round : n = circles[c].member_limit /\ round = circles[c].current_round
    OBVIOUS
  <2>4. /\ v.size = n /\ v.current_round = round
        /\ v.yourSlot = {s \in DOMAIN circles[c].payout_order : circles[c].payout_order[s] = m}
    BY <2>2, <2>3 DEF get_circle
  <2>5. n \in Nat /\ round \in Nat /\ round >= 1 /\ round <= n
    BY <2>1, <2>3, ExistingFacts DEF TypeInv, TypeOK, CircleRecord, Rounds
  <2>6. collectorSlotOf(v) = round
    <3>1. round - 1 \in Nat /\ round - 1 < n
      BY <2>5
    <3>2. ((round - 1) % n) = round - 1
      BY <2>5, <3>1, SmallRemainder
    <3> QED BY <2>4, <2>5, <3>2 DEF collectorSlotOf
  <2>7. /\ DOMAIN circles[c].payout_order = 1..n
        /\ \A s, t \in 1..n : circles[c].payout_order[s] = circles[c].payout_order[t] => s = t
    <3>1. circles[c].payout_order \in Seq(MemberRefs)
      BY <2>1 DEF TypeInv, TypeOK, CircleRecord
    <3>2. Len(circles[c].payout_order) = n /\ IsInjective(circles[c].payout_order)
      BY <2>1, <2>3 DEF TypeInv, ConfigsKept, Established, validate_payout_order
    <3>3. DOMAIN circles[c].payout_order = 1..n
      BY <3>1, <3>2
    <3> QED BY <3>2, <3>3 DEF IsInjective
  <2>8. \A s \in 1..v.size :
          Seats(v)[s].turn <=> circles[c].payout_order[s] = ScheduledMember(c, v.current_round)
    <3> SUFFICES ASSUME NEW s \in 1..v.size
        PROVE  Seats(v)[s].turn <=> circles[c].payout_order[s] = ScheduledMember(c, v.current_round)
      OBVIOUS
    <3>1. Seats(v)[s].turn = (s = round)
      BY <2>6, Zenon DEF Seats
    <3>2. s \in 1..n /\ round \in 1..n
      BY <2>4, <2>5
    <3>3. ScheduledMember(c, v.current_round) = circles[c].payout_order[round]
      BY <2>4 DEF ScheduledMember
    <3>4. circles[c].payout_order[s] = circles[c].payout_order[round] <=> s = round
      BY <2>7, <3>2, Zenon
    <3> QED BY <3>1, <3>3, <3>4, Zenon
  <2>9. yourTurn(v) <=> m = ScheduledMember(c, v.current_round)
    BY <2>4, <2>5, <2>6, <2>7 DEF yourTurn, ScheduledMember
  <2>10. ASSUME "alwaysOnTime" \in StandingCard(get_reputation(c, m)), NEW r \in 1..v.current_round
         PROVE  obligations[<<c, r, m>>].status \notin {"LateWithinGrace", "MissedDefault"}
    <3> DEFINE f == [q \in 1..circles[c].current_round |-> obligations[<<c, q, m>>].status]
    <3>1. IsFiniteSet(DOMAIN f)
      <4>1. 1 \in Int /\ circles[c].current_round \in Int
        BY <2>3, <2>5
      <4> QED BY <4>1, FS_Interval
    <3>2. "alwaysOnTime" \in StandingCard(standingFrom(f))
      BY <2>10 DEF get_reputation
    <3>3. r \in DOMAIN f /\ f[r] = obligations[<<c, r, m>>].status
      BY <2>3, <2>4
    <3> HIDE DEF f
    <3> QED BY <3>1, <3>2, <3>3, SpotlessRecord
  <2> QED BY <2>2, <2>8, <2>9, <2>10
<1> QED
  BY <1>1, PageInvariant, PTL

-----------------------------------------------------------------------------
(* The organizer's lines *)

\* The lines about paying are there from the round that begins on, and whatever
\* calls for attention has a line with its count.
THEOREM SummaryToldHolds == Spec => []SummaryTold
<1>1. ASSUME PageInv PROVE SummaryTold
  <2> SUFFICES ASSUME NEW c \in Existing
      PROVE  LET s == organizerSummary(get_organizer_facts(c), now)
             IN  /\ "paid" \in s.rows <=> circles[c].status # "OpenForMembers"
                 /\ s.attention \cap {"grace", "overdue", "missed"} \subseteq s.rows
                 /\ "turn" \in s.rows
    BY DEF SummaryTold
  <2>1. /\ MoneyInv /\ RoundsInv /\ SeatsInv /\ TypeInv /\ Blank
        /\ c \in CircleIds /\ circles[c].status # "Absent"
    BY <1>1 DEF PageInv, MoneyInv, ClaimsInv, Existing
  <2>2. PICK f : f = get_organizer_facts(c)
    OBVIOUS
  <2>3. PICK s : s = organizerSummary(f, now)
    OBVIOUS
  <2>4. PICK n, round : n = circles[c].member_limit /\ round = circles[c].current_round
    OBVIOUS
  <2>5. /\ n \in Nat /\ n >= 1 /\ round \in Rounds /\ round \in Nat /\ round <= n
        /\ circles[c].status \in {"OpenForMembers", "Active", "SettlementPending"}
    BY <2>1, <2>4, ExistingFacts DEF TypeInv, TypeOK, CircleRecord, Rounds
  <2>6. /\ f.memberLimit = n /\ f.round = round /\ DOMAIN f.places = 1..n
        /\ \A p \in 1..n : f.places[p].joined = Taken(c, p) /\ f.places[p].obligation = Owed(c, p)
    BY <2>2, <2>4, FactsOf
  <2>7. PICK begun : begun = (\E p \in DOMAIN f.places : f.places[p].obligation # NoObligation)
    OBVIOUS
  <2>8. begun <=> circles[c].status # "OpenForMembers"
    <3>1. CASE circles[c].status = "OpenForMembers"
      <4>1. ASSUME NEW p \in 1..n PROVE Owed(c, p) = NoObligation
        <5>1. circles[c].payout_order[p] \in MemberRefs
          BY <2>1, <2>4, SlotsOf
        <5>2. obligations[<<c, round, circles[c].payout_order[p]>>].status = "Absent"
          BY <2>1, <2>5, <3>1, <5>1 DEF RoundsInv, Ordered, Waiting, Begun
        <5> QED BY <2>1, <2>4, <2>5, <5>1, <5>2 DEF Blank, Owed
      <4> QED BY <2>6, <2>7, <3>1, <4>1
    <3>2. CASE circles[c].status # "OpenForMembers"
      <4>1. Begun(c)
        BY <2>5, <3>2 DEF Begun
      <4>2. 1 \in 1..n /\ Owed(c, 1).status # "Absent"
        BY <2>1, <2>4, <2>5, <4>1, BegunPlaces
      <4>3. Owed(c, 1) # NoObligation
        BY <4>2 DEF NoObligation
      <4> QED BY <2>6, <2>7, <3>2, <4>2, <4>3
    <3> QED BY <3>1, <3>2
  <2>9. PICK count : count = countsOf(f, now)
    OBVIOUS
  <2>10. /\ s.rows = {"places", "accepted", "joined", "state"}
                       \cup (IF begun THEN {"paid", "due"} ELSE {})
                       \cup {w \in {"grace", "overdue", "missed"} : begun /\ count[w] > 0}
                       \cup (IF f.round <= f.memberLimit THEN {"turn"} ELSE {})
         /\ s.attention = attentionOf(f, now)
    BY <2>3, <2>7, <2>9 DEF organizerSummary
  <2>11. ASSUME NEW w \in {"grace", "overdue", "missed"}, count[w] > 0 PROVE begun
    <3>1. InState(c, now, w) # {}
      BY <2>2, <2>4, <2>5, <2>9, <2>11, CountsAre DEF Told
    <3>2. PICK p \in 1..n : obligationState(Owed(c, p), now) = w
      BY <2>4, <3>1 DEF InState
    <3>3. Owed(c, p).status # "Absent"
      BY <3>2 DEF obligationState
    <3>4. Owed(c, p) # NoObligation
      BY <3>3 DEF NoObligation
    <3> QED BY <2>6, <2>7, <3>4
  <2>12. ASSUME NEW w \in {"grace", "overdue", "missed"}, w \in attentionOf(f, now) PROVE count[w] > 0
    <3>1. stateOf(f, now) \in {"accountingReady", "waitingForRecipient"} => stateOf(f, now) # w
      OBVIOUS
    <3> QED BY <2>9, <2>12, <3>1 DEF attentionOf
  <2>13. "paid" \in s.rows <=> circles[c].status # "OpenForMembers"
    BY <2>8, <2>10
  <2>14. s.attention \cap {"grace", "overdue", "missed"} \subseteq s.rows
    BY <2>10, <2>11, <2>12
  <2>15. "turn" \in s.rows
    BY <2>5, <2>6, <2>10
  <2> QED BY <2>2, <2>3, <2>13, <2>14, <2>15
<1> QED
  BY <1>1, PageInvariant, PTL

-----------------------------------------------------------------------------
(* Joining *)

\* The last place of a circle is its last member's.
LEMMA LastPlace ==
  ASSUME TypeInv, NEW c \in CircleIds, circles[c].status # "Absent", Seated(c),
         NEW m \in Participants(c), m \notin joined[c],
         circles[c].joined_count + 1 = circles[c].member_limit
  PROVE  Participants(c) \subseteq joined[c] \cup {m}
<1> DEFINE P == Participants(c)
           J == joined[c]
<1>1. IsFiniteSet(P) /\ Cardinality(P) = circles[c].member_limit
  BY ParticipantsFinite, ParticipantsCounted
<1>2. J \subseteq P /\ circles[c].joined_count = Cardinality(J)
  BY DEF Seated
<1>3. J \cup {m} \in SUBSET P
  BY <1>2
<1> HIDE DEF P, J
<1>4. IsFiniteSet(J)
  BY <1>1, <1>2, FS_Subset
<1>5. m \notin J
  BY DEF J
<1>6. Cardinality(J \cup {m}) = Cardinality(J) + 1
  BY <1>4, <1>5, FS_AddElement
<1>7. P = J \cup {m}
  BY <1>1, <1>2, <1>3, <1>6, FS_Subset
<1> QED
  BY <1>7 DEF P, J

\* No assert of join_circle refuses whom the control is there for.
LEMMA JoinNeverRefused ==
  ASSUME MoneyInv, RoundsInv, SeatsInv, NEW c \in Existing, NEW m, JoinAccepted(c, m)
  PROVE  JoinAsserts(c, m)
<1>1. /\ TypeInv /\ c \in CircleIds /\ circles[c].status # "Absent" /\ Seated(c) /\ Waiting(c)
  BY DEF Existing, MoneyInv, ClaimsInv, SeatsInv, RoundsInv, Ordered
<1>2. /\ circles[c].status = "OpenForMembers" /\ circles[c].current_round \in Rounds
      /\ circles[c].joined_count < circles[c].member_limit
  BY ExistingFacts DEF JoinAccepted
<1>3. m \in Participants(c) /\ m \notin joined[c]
  BY DEF JoinAccepted
<1>4. ASSUME circles[c].joined_count + 1 = circles[c].member_limit, NEW p \in Participants(c)
      PROVE  /\ p \in joined[c] \cup {m}
             /\ obligations[<<c, circles[c].current_round, p>>].status = "Absent"
  <2>1. p \in joined[c] \cup {m}
    BY <1>1, <1>3, <1>4, LastPlace
  <2>2. p \in MemberRefs
    BY <1>1, ParticipantsFinite
  <2> QED BY <1>1, <1>2, <2>1, <2>2 DEF Waiting, Begun
<1> QED
  BY <1>2, <1>4 DEF JoinAsserts

\* The join control is there exactly for those whose call passes every assert.
THEOREM JoinTakenHolds == Spec => []JoinTaken
<1>1. ASSUME MoneyInv, RoundsInv, SeatsInv PROVE JoinTaken
  <2> SUFFICES ASSUME NEW c \in Existing, NEW m \in MemberRefs
      PROVE  "join" \in Controls(load(c, m), m, TRUE)
               <=> \E call \in join(c, m) : JoinAsserts(call.circle_id, call.member_ref)
    BY DEF JoinTaken
  <2>1. m # NoMember
    BY SetupAssumption
  <2>2. load(c, m).circle = get_circle(c, m)
    BY DEF load
  <2>3. "join" \in Controls(load(c, m), m, TRUE) <=> JoinAccepted(c, m)
    BY <1>1, <2>1, <2>2, JoinOffered DEF Controls
  <2>4. (\E call \in join(c, m) : JoinAsserts(call.circle_id, call.member_ref))
          <=> m \in Participants(c) /\ JoinAsserts(c, m)
    <3>1. CASE m \notin Participants(c)
      BY <3>1 DEF join
    <3>2. CASE m \in Participants(c)
      <4>1. PICK call : call = [circle_id |-> c, member_ref |-> m]
        OBVIOUS
      <4>2. join(c, m) = {call} /\ call.circle_id = c /\ call.member_ref = m
        BY <3>2, <4>1 DEF join
      <4> QED BY <3>2, <4>2
    <3> QED BY <3>1, <3>2
  <2>5. JoinAsserts(c, m) <=> JoinAccepted(c, m)
    BY <1>1, JoinNeverRefused DEF JoinAsserts
  <2> QED BY <2>3, <2>4, <2>5 DEF JoinAccepted
<1> QED
  BY <1>1, ViewsInvariant, PTL

-----------------------------------------------------------------------------
(* The transactions of this client *)

LEMMA OnlyOne ==
  ASSUME NEW k
  PROVE  (CHOOSE i \in {k} : TRUE) = k /\ Cardinality({k}) = 1
BY FS_Singleton

\* A contribution: the amount is withdrawn to the helper, then the helper called.
LEMMA ContributionSent ==
  ASSUME NEW c, NEW r, NEW m, NEW t, NEW amount, NEW nonce, NEW s,
         NEW A, A = buildContributionActions(c, r, m, t, amount, nonce, s)
  PROVE  /\ OfType(A, "withdraw") = {1} /\ OfType(A, "invoke") = {2}
         /\ OfType(A, "transfer") = {} /\ A # << >>
         /\ Invoked(A) = privacyInvokeCalldata("SettleContribution", c, r, m, t, "none", nonce, s)
         /\ Withdrawn(A) = amount
         /\ assertActionsWellFormed(A)
<1>1. /\ DOMAIN A = {1, 2} /\ A # << >>
      /\ A[1] = [type |-> "withdraw", token |-> t, amount |-> amount, recipient |-> Helper]
      /\ A[2] = [type |-> "invoke", contract |-> Helper, calldata |->
                   privacyInvokeCalldata("SettleContribution", c, r, m, t, "none", nonce, s)]
  BY DEF buildContributionActions
<1>2. A[1].type = "withdraw" /\ A[1].amount = amount /\ A[2].type = "invoke"
  BY <1>1
<1>3. A[2].calldata = privacyInvokeCalldata("SettleContribution", c, r, m, t, "none", nonce, s)
  BY <1>1
<1>4. /\ OfType(A, "withdraw") = {1} /\ OfType(A, "invoke") = {2} /\ OfType(A, "transfer") = {}
  BY <1>1, <1>2 DEF OfType
<1>5. A[2].calldata.open_note_id = "none"
  BY <1>3 DEF privacyInvokeCalldata
<1>6. Invoked(A) = A[2].calldata /\ Withdrawn(A) = A[1].amount
  BY <1>4, OnlyOne DEF Invoked, Withdrawn
<1>7. assertActionsWellFormed(A)
  <2>1. Cardinality(OfType(A, "invoke")) <= 1
    BY <1>4, OnlyOne
  <2>2. ~ \E i \in OfType(A, "invoke") : A[i].calldata.open_note_id = FIRST_OPEN_NOTE
    BY <1>4, <1>5 DEF FIRST_OPEN_NOTE
  <2> QED BY <1>1, <1>4, <2>1, <2>2, Zenon DEF assertActionsWellFormed
<1> QED
  BY <1>1, <1>2, <1>3, <1>4, <1>6, <1>7

\* A payout: an open note of the recipient, then the call that fills it.
LEMMA PayoutSent ==
  ASSUME NEW c, NEW r, NEW m, NEW t, NEW nonce, NEW s,
         NEW A, A = buildPayoutActions(c, r, m, t, nonce, s)
  PROVE  /\ OfType(A, "invoke") = {2} /\ OfType(A, "transfer") = {1} /\ A # << >>
         /\ Invoked(A) = privacyInvokeCalldata("SettlePayout", c, r, m, t, FIRST_OPEN_NOTE, nonce, s)
         /\ assertActionsWellFormed(A)
<1>1. /\ DOMAIN A = {1, 2} /\ A # << >>
      /\ A[1] = [type |-> "transfer", token |-> t, recipient |-> m]
      /\ A[2] = [type |-> "invoke", contract |-> Helper, calldata |->
                   privacyInvokeCalldata("SettlePayout", c, r, m, t, FIRST_OPEN_NOTE, nonce, s)]
  BY DEF buildPayoutActions
<1>2. A[1].type = "transfer" /\ A[2].type = "invoke"
  BY <1>1
<1>3. A[2].calldata = privacyInvokeCalldata("SettlePayout", c, r, m, t, FIRST_OPEN_NOTE, nonce, s)
  BY <1>1
<1>4. OfType(A, "invoke") = {2} /\ OfType(A, "transfer") = {1}
  BY <1>1, <1>2 DEF OfType
<1>5. Invoked(A) = A[2].calldata
  BY <1>4, OnlyOne DEF Invoked
<1>6. assertActionsWellFormed(A)
  <2>1. Cardinality(OfType(A, "invoke")) <= 1
    BY <1>4, OnlyOne
  <2>2. OfType(A, "transfer") # {} /\ OfType(A, "invoke") # {}
    BY <1>4
  <2> QED BY <1>1, <2>1, <2>2, Zenon DEF assertActionsWellFormed
<1> QED
  BY <1>1, <1>3, <1>4, <1>5, <1>6

-----------------------------------------------------------------------------
(* Nonces *)

\* A nonce spent on contributions is the number of a round its member paid.
NoncesSpent ==
  \A c \in CircleIds, m \in MemberRefs, n \in Nonces :
    <<"contribution", c, m, n>> \in nonces =>
      n \in Rounds /\ obligations[<<c, n, m>>].status \in {"OnTime", "LateWithinGrace"}

\* Only a contribution spends one, and it decides the obligation it pays.
PaidWith(c, m) ==
  /\ circles[c].current_round \in Rounds
  /\ obligations'[<<c, circles[c].current_round, m>>].status \in {"OnTime", "LateWithinGrace"}

LEMMA ContributionSpends ==
  ASSUME TypeOK, NEW caller, NEW d \in CircleIds, NEW r \in Rounds, NEW p \in MemberRefs,
         NEW token, NEW amount, NEW nonce,
         settle_contribution_from_helper(caller, d, r, p, token, amount, nonce),
         NEW c, NEW m, NEW n, <<"contribution", c, m, n>> \in nonces' \ nonces
  PROVE  PaidWith(c, m)
<1>1. c = d /\ m = p
  BY DEF settle_contribution_from_helper
<1>2. r = circles[d].current_round
  BY DEF settle_contribution_from_helper
<1>3. PICK o, s : /\ o = obligations[<<d, r, p>>] /\ s \in {"OnTime", "LateWithinGrace"}
                  /\ obligations' = [obligations EXCEPT ![<<d, r, p>>] = [o EXCEPT !.status = s]]
  BY DEF settle_contribution_from_helper
<1>4. o \in Obligation /\ <<d, r, p>> \in DOMAIN obligations
  BY <1>3 DEF TypeOK
<1>5. obligations'[<<d, r, p>>].status = s
  BY <1>3, <1>4 DEF Obligation
<1> QED
  BY <1>1, <1>2, <1>3, <1>5 DEF PaidWith

LEMMA AnySpends ==
  ASSUME TypeOK, [Next]_vars, NEW c, NEW m, NEW n, <<"contribution", c, m, n>> \in nonces' \ nonces
  PROVE  PaidWith(c, m)
<1>1. ~ UNCHANGED nonces
  OBVIOUS
<1>2. ASSUME NEW domain \in Domains, domain # "contribution", NEW e, NEW q, NEW k
      PROVE  nonces' # nonces \cup {<<domain, e, q, k>>}
  BY <1>2
<1>3. ~Tick /\ ~ UNCHANGED vars
  BY <1>1 DEF Tick, vars
<1>4. ASSUME NEW cfg PROVE ~create_circle(cfg)
  BY <1>1 DEF create_circle
<1>5. ASSUME NEW caller, NEW helper PROVE ~initialize_settlement_helper(caller, helper)
  BY <1>1 DEF initialize_settlement_helper
<1>6. ASSUME NEW d, NEW p PROVE ~join_circle(d, p)
  BY <1>1 DEF join_circle
<1>7. ASSUME NEW d, NEW r, NEW p PROVE ~finalize_contribution_default(d, r, p)
  BY <1>1 DEF finalize_contribution_default
<1>8. ASSUME NEW d, NEW r PROVE ~finalize_round_payout_accounting(d, r)
  BY <1>1 DEF finalize_round_payout_accounting
<1>9. ASSUME NEW d PROVE ~prepare_final_settlement(d)
  BY <1>1 DEF prepare_final_settlement
<1>10. ASSUME NEW d, NEW r, NEW nonce PROVE ~authorize_payout_settlement(d, r, nonce)
  BY <1>2 DEF authorize_payout_settlement, Domains
<1>11. ASSUME NEW caller, NEW d, NEW r, NEW p, NEW token, NEW amount, NEW nonce
       PROVE  ~settle_cure_from_helper(caller, d, r, p, token, amount, nonce)
  BY <1>2 DEF settle_cure_from_helper, Domains
<1>12. ASSUME NEW caller, NEW d, NEW r, NEW token, NEW nonce
       PROVE  /\ ~settle_payout_from_helper(caller, d, r, token, nonce)
              /\ ~settle_recovery_from_helper(caller, d, r, token, nonce)
  BY <1>2 DEF settle_payout_from_helper, settle_recovery_from_helper, Domains
<1>13. PICK caller, d, r, p, token, amount, nonce :
         /\ d \in CircleIds /\ r \in Rounds /\ p \in MemberRefs
         /\ settle_contribution_from_helper(caller, d, r, p, token, amount, nonce)
  BY <1>3, <1>4, <1>5, <1>6, <1>7, <1>8, <1>9, <1>10, <1>11, <1>12 DEF Next, Keeper, Settle
<1> QED
  BY <1>13, ContributionSpends

LEMMA NoncesSpentStep ==
  ASSUME ClaimsInv, NoncesSpent, [Next]_vars, ClientNonces \/ UNCHANGED nonces
  PROVE  NoncesSpent'
<1> SUFFICES ASSUME NEW c \in CircleIds, NEW m \in MemberRefs, NEW n \in Nonces,
                    <<"contribution", c, m, n>> \in nonces'
             PROVE  n \in Rounds /\ obligations'[<<c, n, m>>].status \in {"OnTime", "LateWithinGrace"}
  BY DEF NoncesSpent
<1>1. TypeOK /\ ObligationMoves
  BY AnyStep DEF ClaimsInv, TypeInv, StepFacts
<1>2. CASE <<"contribution", c, m, n>> \in nonces
  <2>1. n \in Rounds /\ obligations[<<c, n, m>>].status \in {"OnTime", "LateWithinGrace"}
    BY <1>2 DEF NoncesSpent
  <2>2. obligations'[<<c, n, m>>] = obligations[<<c, n, m>>]
    BY <1>1, <2>1 DEF ObligationMoves
  <2> QED BY <2>1, <2>2
<1>3. CASE <<"contribution", c, m, n>> \notin nonces
  <2>1. PICK key : key = <<"contribution", c, m, n>>
    OBVIOUS
  <2>2. key \in nonces' \ nonces /\ key[1] = "contribution" /\ key[2] = c /\ key[4] = n
    BY <1>3, <2>1
  <2>3. n = circles[c].current_round
    BY <2>2 DEF ClientNonces, contributionNonce
  <2>4. PaidWith(c, m)
    BY <1>1, <1>3, AnySpends
  <2> QED BY <2>3, <2>4 DEF PaidWith
<1> QED
  BY <1>2, <1>3

-----------------------------------------------------------------------------
(* Payments *)

\* An exact withdrawal is what the helper asks when it holds no surplus.
LEMMA ExactInbound ==
  ASSUME HelperInv, TypeInv, NEW c \in CircleIds, circles[c].status # "Absent", NEW t \in Tokens,
         Funds(c, t)
  PROVE  InboundAsserts(c, t, circles[c].contribution_amount)
<1>1. circles[c].contribution_amount \in Nat /\ circles[c].contribution_amount > 0
  BY DEF TypeInv, TypeOK, CircleRecord, ConfigsKept, Established
<1>2. balances[t]["helper"] \in Nat /\ token_liability[t] \in Nat
  BY DEF HelperInv, CustodyTypes, Account
<1>3. balances[t]["helper"] - token_liability[t] = 0
  BY DEF Funds, Surplus
<1> QED
  BY <1>1, <1>2, <1>3 DEF InboundAsserts, assert_exact_inbound_balance, Funds

\* The transaction for the round of a member who can still pay.
LEMMA PaymentPasses ==
  ASSUME HelperInv, NEW c \in Existing, NEW m \in MemberRefs,
         ContributionAccepted(c, m), SettleAsserts(c, USDC_TOKEN), Funds(c, USDC_TOKEN),
         NEW A \in pay_contribution(c, circles[c].current_round, m)
  PROVE  Passes(A)
<1> DEFINE r == circles[c].current_round
           a == circles[c].contribution_amount
           n == contributionNonce(r)
           s == signChecked(m, contributionSettlementHash(c, r, m, USDC_TOKEN, a, n))
<1>1. /\ A = buildContributionActions(c, r, m, USDC_TOKEN, a, n, s)
      /\ ~isContributionNonceConsumed(c, m, n)
  BY Zenon DEF pay_contribution
<1>2. PICK i : i = Invoked(A)
  OBVIOUS
<1> HIDE DEF s
<1>3. /\ i = privacyInvokeCalldata("SettleContribution", c, r, m, USDC_TOKEN, "none", n, s)
      /\ Withdrawn(A) = a /\ OfType(A, "transfer") = {} /\ assertActionsWellFormed(A)
  BY <1>1, <1>2, ContributionSent
<1>4. /\ i.operation = "SettleContribution" /\ i.circle_id = c /\ i.round = r /\ i.member_ref = m
      /\ i.token = USDC_TOKEN /\ i.nonce = n /\ i.signature = s
  BY <1>3 DEF privacyInvokeCalldata
<1>5. WellSigned(A)
  BY <1>2, <1>3, <1>4 DEF WellSigned, s
<1>6. InboundAsserts(c, USDC_TOKEN, a)
  BY ExactInbound, PageAssumption DEF Existing, HelperInv, MoneyInv, ClaimsInv
<1>7. ContributionAsserts(c, r, m, USDC_TOKEN, n, a)
  BY <1>1, <1>6 DEF ContributionAsserts, isContributionNonceConsumed
<1> QED
  BY <1>2, <1>3, <1>4, <1>5, <1>7 DEF Passes

LEMMA PaymentsTaken ==
  ASSUME HelperInv, PageInv, NoncesSpent
  PROVE  PaymentTaken
<1> SUFFICES ASSUME NEW c \in Existing, NEW m \in MemberRefs
    PROVE  LET p    == load(c, m)
               sent == pay_contribution(c, p.circle.current_round, m)
               open == ContributionAccepted(c, m)
           IN  /\ open => "contribute" \in Controls(p, m, TRUE) /\ "due" \in Rows(p, now)
               /\ p.alreadyPaid => sent = {}
               /\ open /\ sent = {} => Surplus(USDC_TOKEN) # 0
               /\ \A actions \in sent :
                    /\ assertActionsWellFormed(actions)
                    /\ open /\ SettleAsserts(c, USDC_TOKEN) /\ Funds(c, USDC_TOKEN) => Passes(actions)
  BY DEF PaymentTaken
<1> DEFINE r == circles[c].current_round
           o == obligations[<<c, r, m>>]
<1>1. PICK p, sent : p = load(c, m) /\ sent = pay_contribution(c, r, m)
  OBVIOUS
<1>2. /\ MoneyInv /\ RoundsInv /\ SeatsInv /\ TypeOK /\ c \in CircleIds /\ r \in Rounds
  BY ExistingFacts DEF PageInv
<1>3. PICK v : v = get_circle(c, m)
  OBVIOUS
<1>4. v.current_round = r /\ v.youJoined = (m \in joined[c])
  BY <1>3 DEF get_circle
<1>5. /\ p.circle = v /\ p.alreadyPaid = (m # NoMember /\ has_contributed(c, r, m))
      /\ p.obligation = IF v.youJoined THEN o ELSE NoObligation
  BY <1>1, <1>3, <1>4 DEF load, get_round_obligation
<1>6. o \in Obligation /\ now \in Nat
  BY <1>2 DEF TypeOK
<1>7. ContributionAccepted(c, m) => o.status = "Pending" /\ m \in joined[c]
  BY DEF ContributionAccepted
<1>8. has_contributed(c, r, m) <=> o.status \in {"OnTime", "LateWithinGrace"}
  BY DEF has_contributed, get_round_obligation
<1>9. ContributionAccepted(c, m) => "contribute" \in Controls(p, m, TRUE)
  BY <1>5, <1>7, <1>8 DEF Controls
<1>10. ContributionAccepted(c, m) => "due" \in Rows(p, now)
  <2> SUFFICES ASSUME ContributionAccepted(c, m) PROVE "due" \in Rows(p, now)
    OBVIOUS
  <2>1. p.circle.youJoined /\ p.obligation = o
    BY <1>4, <1>5, <1>7
  <2>2. o # NoObligation /\ obligationState(o, now) # "paid"
    BY <1>6, <1>7, WindowsOf DEF NoObligation
  <2>3. roundSummary(p.circle, p.obligation, now).payment # "paid"
    BY <2>1, <2>2 DEF roundSummary, paymentOf
  <2> QED BY <2>1, <2>2, <2>3 DEF Rows
<1>11. p.alreadyPaid => sent = {}
  <2>1. p.alreadyPaid => get_round_obligation(c, r, m).status # "Pending"
    BY <1>5, <1>8 DEF get_round_obligation
  <2> QED BY <1>1, <2>1 DEF pay_contribution
<1>12. ContributionAccepted(c, m) /\ sent = {} => Surplus(USDC_TOKEN) # 0
  <2> SUFFICES ASSUME ContributionAccepted(c, m), Surplus(USDC_TOKEN) = 0 PROVE sent # {}
    OBVIOUS
  <2>1. get_round_obligation(c, r, m).status = "Pending"
    BY <1>7 DEF get_round_obligation
  <2>2. r \in Nonces /\ contributionNonce(r) = r
    BY <1>2, PageAssumption DEF contributionNonce
  <2>3. ~isContributionNonceConsumed(c, m, contributionNonce(r))
    BY <1>2, <1>7, <2>2 DEF NoncesSpent, isContributionNonceConsumed
  <2> QED BY <1>1, <2>1, <2>3 DEF pay_contribution, helperSurplus
<1>13. ASSUME NEW A \in sent
       PROVE  /\ assertActionsWellFormed(A)
              /\ ContributionAccepted(c, m) /\ SettleAsserts(c, USDC_TOKEN) /\ Funds(c, USDC_TOKEN)
                   => Passes(A)
  <2>1. PICK s, a, n : A = buildContributionActions(c, r, m, USDC_TOKEN, a, n, s)
    BY <1>1, Zenon DEF pay_contribution
  <2>2. assertActionsWellFormed(A)
    BY <2>1, ContributionSent
  <2> QED BY <1>1, <2>2, PaymentPasses
<1> QED
  BY <1>1, <1>4, <1>5, <1>9, <1>10, <1>11, <1>12, <1>13

-----------------------------------------------------------------------------
(* Wiring *)

\* Money is behind a round only once the helper is wired, and wired it is for good.
Wired ==
  IF setup.helper_initialized THEN setup.settlement_helper = Helper
  ELSE \A k \in Books : ledger[k] = NoLiability

LEMMA WiredInit == HInit => Wired
BY DEF HInit, Init, Wired, Books

LEMMA CoreWires ==
  ASSUME CoreStep
  PROVE  \/ UNCHANGED setup
         \/ setup'.helper_initialized /\ setup'.settlement_helper = Helper
<1> DEFINE goal == \/ UNCHANGED setup
                   \/ setup'.helper_initialized /\ setup'.settlement_helper = Helper
<1>1. UNCHANGED lifecycle => goal
  BY DEF lifecycle
<1>2. CASE initialize_settlement_helper(SetupAuthority, Helper)
  BY <1>2 DEF initialize_settlement_helper
<1>3. CASE Tick
  BY <1>1, <1>3 DEF Tick
<1>4. ASSUME NEW cfg, create_circle(cfg) PROVE goal
  BY <1>4 DEF create_circle
<1>5. ASSUME NEW c, NEW m, join_circle(c, m) PROVE goal
  BY <1>5 DEF join_circle
<1>6. ASSUME NEW c, NEW r, NEW m, finalize_contribution_default(c, r, m) PROVE goal
  BY <1>1, <1>6 DEF finalize_contribution_default
<1>7. ASSUME NEW c, NEW r, finalize_round_payout_accounting(c, r) PROVE goal
  BY <1>7 DEF finalize_round_payout_accounting
<1>8. ASSUME NEW c, prepare_final_settlement(c) PROVE goal
  BY <1>8 DEF prepare_final_settlement
<1>9. ASSUME NEW c, NEW r, NEW nonce, authorize_payout_settlement(c, r, nonce) PROVE goal
  BY <1>1, <1>9 DEF authorize_payout_settlement
<1> HIDE DEF goal
<1> QED
  BY <1>2, <1>3, <1>4, <1>5, <1>6, <1>7, <1>8, <1>9 DEF CoreStep, Keeper, goal

\* A settlement passed the check of its caller, and rewires nothing.
LEMMA SettlesWired ==
  ASSUME privacy_invoke
  PROVE  setup.helper_initialized /\ UNCHANGED setup
<1>1. ASSUME NEW c, NEW r, NEW m, NEW t, NEW nonce, NEW withdrawn,
             SettleContribution(c, r, m, t, nonce, withdrawn)
      PROVE  setup.helper_initialized /\ UNCHANGED setup
  BY <1>1 DEF SettleContribution, settle_contribution_from_helper, assert_settlement_helper, lifecycle
<1>2. ASSUME NEW c, NEW r, NEW m, NEW t, NEW nonce, NEW withdrawn,
             SettleCure(c, r, m, t, nonce, withdrawn)
      PROVE  setup.helper_initialized /\ UNCHANGED setup
  BY <1>2 DEF SettleCure, settle_cure_from_helper, assert_settlement_helper, lifecycle
<1>3. ASSUME NEW c, NEW r, NEW m, NEW t, NEW nonce, SettlePayout(c, r, m, t, nonce)
      PROVE  setup.helper_initialized /\ UNCHANGED setup
  BY <1>3 DEF SettlePayout, settle_payout_from_helper, assert_settlement_helper, lifecycle
<1>4. ASSUME NEW c, NEW r, NEW m, NEW t, NEW nonce, SettleRecovery(c, r, m, t, nonce)
      PROVE  setup.helper_initialized /\ UNCHANGED setup
  BY <1>4 DEF SettleRecovery, settle_recovery_from_helper, assert_settlement_helper, lifecycle
<1> QED
  BY <1>1, <1>2, <1>3, <1>4 DEF privacy_invoke

LEMMA WiredStep == Wired /\ [HNext]_allvars => Wired'
<1> SUFFICES ASSUME Wired, [HNext]_allvars PROVE Wired'
  OBVIOUS
<1>1. ASSUME UNCHANGED <<setup, ledger>> PROVE Wired'
  BY <1>1 DEF Wired
<1>2. CASE CoreStep
  <2>1. UNCHANGED ledger
    BY <1>2, CoreMovesNoMoney
  <2> QED BY <1>1, <1>2, <2>1, CoreWires DEF Wired
<1>3. CASE privacy_invoke
  BY <1>3, SettlesWired DEF Wired
<1>4. ASSUME UNCHANGED vars PROVE Wired'
  BY <1>1, <1>4 DEF vars, lifecycle, money
<1>5. ASSUME NEW t, NEW amount, normalize_surplus(t) \/ donate(t, amount) PROVE Wired'
  BY <1>4, <1>5 DEF normalize_surplus, donate
<1> QED
  BY <1>2, <1>3, <1>4, <1>5 DEF HNext, allvars

LEMMA HelperWired ==
  ASSUME Wired, NEW c \in CircleIds, NEW r \in Rounds, ledger[<<c, r>>].outstanding # 0
  PROVE  SettleAsserts(c, circles[c].asset)
<1>1. setup.helper_initialized /\ setup.settlement_helper = Helper
  BY DEF Wired, Books, NoLiability
<1>2. Helper # ZeroAddress
  BY SetupAssumption, HelperAssumption
<1> QED
  BY <1>1, <1>2 DEF SettleAsserts, assert_circle_token, assert_settlement_helper

-----------------------------------------------------------------------------
(* Claims *)

LEMMA SomethingDue ==
  ASSUME NEW a \in Nat, a > 0, NEW n \in Nat, n >= 2
  PROVE  a * n # 0
BY SMTT(30)

\* The rounds of a token hold no more than the token's books.
LEMMA RoundWithinTotal ==
  ASSUME TypeInv, AllTotals, NEW c \in CircleIds, NEW r \in Rounds, circles[c].status # "Absent"
  PROVE  ledger[<<c, r>>].outstanding <= token_outstanding_liability[circles[c].asset]
<1>1. PICK t \in Tokens : t = circles[c].asset
  BY DEF TypeInv, ConfigsKept, Established
<1>2. \A k \in Books : HeldOf(t)[k] \in Nat
  BY DEF Books, HeldOf, TypeInv, TypeOK, RoundLiability
<1>3. <<c, r>> \in Books /\ HeldOf(t)[<<c, r>>] = ledger[<<c, r>>].outstanding
  BY <1>1 DEF Books, HeldOf
<1>4. HeldOf(t)[<<c, r>>] <= Total(HeldOf(t), Books)
  BY <1>2, <1>3, BooksFinite, TotalAtLeast
<1> QED
  BY <1>1, <1>3, <1>4 DEF AllTotals, TotalOf

LEMMA OutboundAvailable ==
  ASSUME HelperInv, AllTotals, NEW c \in CircleIds, NEW r \in Rounds, circles[c].status # "Absent",
         NEW a \in Nat, a # 0, ledger[<<c, r>>].outstanding = a
  PROVE  assert_outbound_available(c, r, circles[c].asset, a)
<1>0. TypeInv
  BY DEF HelperInv, MoneyInv, ClaimsInv
<1>1. PICK t \in Tokens : t = circles[c].asset
  BY <1>0 DEF TypeInv, ConfigsKept, Established
<1>2. round_token_liability[<<c, r, t>>] = a
  BY <1>1 DEF HelperInv, BooksAgree
<1>3. a <= token_liability[t]
  BY <1>0, <1>1, RoundWithinTotal DEF HelperInv, BooksAgree
<1>4. balances[t]["helper"] >= token_liability[t] /\ token_liability[t] \in Nat
  BY DEF HelperInv, Solvent, CustodyTypes
<1> QED
  BY <1>1, <1>2, <1>3, <1>4 DEF assert_outbound_available

\* What a round still holds of its claim can leave both contracts and the account.
LEMMA OutboundPasses ==
  ASSUME HelperInv, PageInv, NEW c \in CircleIds, NEW r \in Rounds, circles[c].status # "Absent",
         NEW a \in Nat, a # 0, ledger[<<c, r>>].outstanding = a
  PROVE  OutboundAsserts(c, r, circles[c].asset, a)
<1>1. TypeInv /\ AllTotals
  BY DEF PageInv, MoneyInv, ClaimsInv
<1>2. PICK t \in Tokens : t = circles[c].asset
  BY <1>1 DEF TypeInv, ConfigsKept, Established
<1>3. assert_outbound_available(c, r, t, a)
  BY <1>1, <1>2, OutboundAvailable
<1>4. a <= token_outstanding_liability[t]
  BY <1>1, <1>2, RoundWithinTotal
<1>5. /\ balances[t]["helper"] \in Nat /\ token_liability[t] \in Nat
      /\ token_outstanding_liability[t] \in Nat
  BY <1>1 DEF HelperInv, CustodyTypes, Account, TypeInv, TypeOK
<1>6. balances[t]["helper"] >= a
  BY <1>3, <1>5 DEF assert_outbound_available
<1> QED
  BY <1>2, <1>3, <1>4, <1>5, <1>6 DEF OutboundAsserts

\* The payout transaction of the scheduled member of an authorized claim.
LEMMA PayoutPasses ==
  ASSUME HelperInv, PageInv, Wired, NEW c \in CircleIds, NEW r \in Rounds, NEW nonce,
         payout_states[<<c, r>>].status = "SettlementAuthorized",
         <<"payout_settlement", c, payout_states[<<c, r>>].scheduled_member_ref, nonce>> \notin nonces
  PROVE  Passes(payout(c, r, nonce))
<1> DEFINE p == payout_states[<<c, r>>]
           m == p.scheduled_member_ref
           t == circles[c].asset
           s == signChecked(m, "payout")
<1>1. TypeInv /\ MoneyInv /\ ClaimRecord(c, r) /\ WholeClaim(c, r)
  BY DEF PageInv, MoneyInv, ClaimsInv, ClaimRecords, WholeClaims
<1>2. circles[c].status # "Absent" /\ p.amount = ScheduledAmount(c) /\ p.amount \in Nat
  BY <1>1 DEF ClaimRecord, TypeInv, TypeOK, PayoutState
<1>3. /\ circles[c].contribution_amount \in Nat /\ circles[c].contribution_amount > 0
      /\ circles[c].member_limit \in Nat /\ circles[c].member_limit >= 2
  BY <1>1, <1>2 DEF TypeInv, TypeOK, CircleRecord, ConfigsKept, Established
<1>4. p.amount # 0
  BY <1>2, <1>3, SomethingDue DEF ScheduledAmount
<1>5. ledger[<<c, r>>].outstanding = p.amount
  BY <1>1, WholePot
<1>6. OutboundAsserts(c, r, t, p.amount)
  BY <1>2, <1>4, <1>5, OutboundPasses
<1>7. SettleAsserts(c, t)
  BY <1>4, <1>5, HelperWired
<1>8. calculate_round_unresolved_deficit(c, r) = 0
  <2>1. Unresolved(c, r) = {}
    BY <1>1 DEF WholeClaim
  <2>2. Cardinality({}) = 0
    BY FS_EmptySet, Zenon
  <2> QED BY <1>3, <2>1, <2>2 DEF calculate_round_unresolved_deficit
<1>9. PayoutAsserts(c, r, m, t, nonce)
  BY <1>6, <1>7, <1>8 DEF PayoutAsserts
<1>10. PICK A : A = payout(c, r, nonce)
  OBVIOUS
<1>11. PICK i : i = Invoked(A)
  OBVIOUS
<1>12. A = buildPayoutActions(c, r, m, t, nonce, s)
  BY <1>10 DEF payout
<1>13. /\ i = privacyInvokeCalldata("SettlePayout", c, r, m, t, FIRST_OPEN_NOTE, nonce, s)
       /\ OfType(A, "transfer") = {1} /\ assertActionsWellFormed(A)
  BY <1>11, <1>12, PayoutSent
<1>14. /\ i.operation = "SettlePayout" /\ i.circle_id = c /\ i.round = r /\ i.member_ref = m
       /\ i.token = t /\ i.nonce = nonce
  BY <1>13 DEF privacyInvokeCalldata
<1>15. WellSigned(A)
  BY <1>11, <1>13, <1>14 DEF WellSigned
<1> QED
  BY <1>9, <1>10, <1>11, <1>13, <1>14, <1>15 DEF Passes

LEMMA RecoveryPasses ==
  ASSUME HelperInv, PageInv, Wired, NEW c \in CircleIds, NEW r \in Rounds, NEW nonce,
         payout_states[<<c, r>>].status = "RecoveryPending",
         <<"recovery_settlement", c, payout_states[<<c, r>>].scheduled_member_ref, nonce>> \notin nonces
  PROVE  RecoveryAsserts(c, r, payout_states[<<c, r>>].scheduled_member_ref, circles[c].asset, nonce)
<1>1. TypeInv /\ ClaimRecord(c, r) /\ RecoveryFixed(c, r)
  BY DEF PageInv, MoneyInv, ClaimsInv, ClaimRecords, RecoveriesFixed
<1>2. circles[c].status # "Absent"
  BY <1>1 DEF ClaimRecord
<1>3. recovery_amounts[<<c, r>>] \in Nat
  BY <1>1 DEF TypeInv, TypeOK
<1>4. recovery_amounts[<<c, r>>] # 0 /\ ledger[<<c, r>>].outstanding = recovery_amounts[<<c, r>>]
  BY <1>1, <1>3 DEF RecoveryFixed
<1>5. OutboundAsserts(c, r, circles[c].asset, recovery_amounts[<<c, r>>])
  BY <1>2, <1>3, <1>4, OutboundPasses
<1>6. SettleAsserts(c, circles[c].asset)
  BY <1>4, HelperWired
<1> QED
  BY <1>5, <1>6 DEF RecoveryAsserts

\* Whoever missed a round has joined its circle.
LEMMA CurePasses ==
  ASSUME HelperInv, PageInv, NEW c \in CircleIds, NEW r \in Rounds, NEW d \in Unresolved(c, r),
         NEW nonce, <<c, r, d>> \notin cure_windows_closed, <<"cure", c, d, nonce>> \notin nonces,
         SettleAsserts(c, circles[c].asset), Funds(c, circles[c].asset)
  PROVE  CureAsserts(c, r, d, circles[c].asset, nonce, circles[c].contribution_amount)
<1>1. /\ d \in Participants(c) /\ obligations[<<c, r, d>>].status = "MissedDefault"
      /\ <<c, r, d>> \notin cured_deficits
  BY DEF Unresolved
<1>2. TypeInv /\ Owned /\ Waiting(c) /\ InOrder(c)
  BY DEF PageInv, MoneyInv, ClaimsInv, RoundsInv, Ordered
<1>3. d \in MemberRefs
  BY <1>1, <1>2, ParticipantsFinite
<1>4. circles[c].status # "Absent"
  BY <1>1, <1>2, <1>3 DEF Owned
<1>5. d \in joined[c]
  BY <1>1, <1>2, <1>3 DEF Waiting, InOrder
<1>6. circles[c].asset \in Tokens
  BY <1>2, <1>4 DEF TypeInv, ConfigsKept, Established
<1>7. InboundAsserts(c, circles[c].asset, circles[c].contribution_amount)
  BY <1>2, <1>4, <1>6, ExactInbound
<1> QED
  BY <1>1, <1>5, <1>7 DEF CureAsserts

LEMMA ClaimsTaken ==
  ASSUME HelperInv, PageInv, Wired
  PROVE  ClaimTaken
BY PayoutPasses, RecoveryPasses, CurePasses DEF ClaimTaken

LEMMA RefusalInvariant == HSpec => [](HelperInv /\ PageInv /\ Wired)
<1>1. HSpec => []PageInv
  BY HelperImplementsCircle, PageInvariant, PTL
<1> QED
  BY <1>1, HelperInvariant, WiredInit, WiredStep, PTL DEF HSpec

\* Money a member may claim is there to be paid, whatever other circles share the
\* account: no assert of the helper, of the circle contract or of the pool refuses
\* the settlement of a claim, of a recovery, or of a cure in its window.
THEOREM ClaimTakenHolds == HSpec => []ClaimTaken
BY ClaimsTaken, RefusalInvariant, PTL

-----------------------------------------------------------------------------
(* Nobody is refused *)

\* As long as contributions are signed with this client, nobody with a right to
\* pay, to join or to be paid is refused by the screen or by the contracts.
THEOREM NobodyRefusedHolds == HSpec /\ [][ClientNonces]_allvars => []NobodyRefused
<1>1. HInit => NoncesSpent
  BY DEF HInit, Init, NoncesSpent
<1>2. HelperInv /\ NoncesSpent /\ [HNext]_allvars /\ [ClientNonces]_allvars => NoncesSpent'
  <2> SUFFICES ASSUME HelperInv, NoncesSpent, [HNext]_allvars, [ClientNonces]_allvars
               PROVE  NoncesSpent'
    OBVIOUS
  <2>1. [Next]_vars /\ ClaimsInv
    BY CoreIsNext DEF HelperInv, MoneyInv
  <2>2. ClientNonces \/ UNCHANGED nonces
    BY DEF allvars, vars
  <2> QED BY <2>1, <2>2, NoncesSpentStep
<1>3. HSpec /\ [][ClientNonces]_allvars => []NoncesSpent
  BY <1>1, <1>2, HelperInvariant, PTL DEF HSpec
<1>4. HelperInv /\ PageInv /\ NoncesSpent => PaymentTaken
  BY PaymentsTaken
<1>5. HSpec => [](JoinTaken /\ SeatsTold /\ SummaryTold)
  BY HelperImplementsCircle, JoinTakenHolds, SeatsToldHolds, SummaryToldHolds, PTL
<1> QED
  BY <1>3, <1>4, <1>5, RefusalInvariant, ClaimTakenHolds, PTL DEF NobodyRefused
=============================================================================
