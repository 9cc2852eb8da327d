------------------------------ MODULE IwaCircle ------------------------------
(***************************************************************************)
(* The circle contract, contracts/starknet/src/iwa_circle.cairo.           *)
(*                                                                         *)
(* A circle is a rotating savings group.  Its members (member_refs, opaque *)
(* commitments) join until the circle is full; then every member owes one  *)
(* contribution per round, and the pot of round r belongs to the member in *)
(* slot r of the payout order fixed at creation.  Money never moves here:  *)
(* the settle_*_from_helper entry points record movements the settlement   *)
(* helper has made (module IwaStrk20Helper).                               *)
(*                                                                         *)
(* One action per external entry point.  Starknet executes a transaction   *)
(* atomically and an assert that fails reverts all of it, so every assert  *)
(* of the entry point is a conjunct of the action's guard.  A signature    *)
(* parameter is left out: a member either signs the exact tuple, and the   *)
(* action may happen, or does not, and the call reverts.                   *)
(***************************************************************************)
EXTENDS Naturals, Sequences, FiniteSets, FiniteSetsExt, Functions

CONSTANTS
  MemberRefs,        \* invite commitments, hash(invite secret, member key)
  NoMember,          \* the zero felt, not a valid member_ref
  Tokens,            \* the configured assets, usdc and strk
  Addresses,         \* callers of the setup entry point, and helper candidates
  ZeroAddress,
  SetupAuthority,    \* the deployer's constructor argument
  Nonces,            \* nonces a signer may choose
  Configs,           \* arguments create_circle is called with
  MAX_MEMBER_LIMIT,
  U128_MAX,
  U64_MAX,
  MaxCircles,        \* bound: circles created
  MaxTime            \* bound: last block timestamp

ASSUME SetupAssumption ==
  /\ SetupAuthority \in Addresses
  /\ ZeroAddress \notin Addresses
  /\ NoMember \notin MemberRefs

ASSUME BoundsAssumption ==
  /\ MAX_MEMBER_LIMIT \in Nat
  /\ U128_MAX \in Nat
  /\ U64_MAX \in Nat
  /\ MaxCircles \in Nat
  /\ MaxTime \in Nat

\* create_circle is called with whatever its types admit: an unsupported
\* token, a zero amount, a repeated or a zero member_ref.
ASSUME ConfigsAssumption ==
  \A cfg \in Configs :
    /\ cfg.contribution_amount \in Nat
    /\ cfg.cadence_seconds \in Nat
    /\ cfg.grace_period_seconds \in Nat
    /\ cfg.member_limit \in Nat
    /\ cfg.payout_order \in Seq(MemberRefs \cup {NoMember})

VARIABLES
  now,                    \* block timestamp
  setup,                  \* settlement_helper, helper_initialized, setup_authority
  next_circle_id,
  circles,                \* CircleRecord and payout_order, by id
  joined,                 \* by id, the member_refs that joined
  obligations,            \* by <<id, round, member_ref>>
  cured_deficits,         \* set of <<id, round, member_ref>>
  cure_windows_closed,    \* set of <<id, round, member_ref>>
  payout_states,          \* by <<id, round>>
  recovery_amounts,       \* by <<id, round>>, 0 unless prepared
  final_settlement_prepared, \* set of ids
  nonces,                 \* set of <<domain, id, member_ref, nonce>> consumed
  ledger,                 \* by <<id, round>>: the round_* liability maps
  token_outstanding_liability

lifecycle == <<setup, next_circle_id, circles, joined>>
history   == <<obligations, cured_deficits, cure_windows_closed>>
claims    == <<payout_states, recovery_amounts, final_settlement_prepared>>
money     == <<ledger, token_outstanding_liability>>
vars      == <<now, lifecycle, history, claims, nonces, money>>

CircleIds == 1..MaxCircles
Amounts   == {cfg.contribution_amount : cfg \in Configs}
Rounds    == 1..MAX_MEMBER_LIMIT

-----------------------------------------------------------------------------
(* Types *)

CircleStatus == {"Absent", "OpenForMembers", "Active", "SettlementPending"}

ContributionStatus ==
  {"Absent", "Pending", "OnTime", "LateWithinGrace", "MissedDefault"}

PayoutStatus ==
  {"Absent", "Scheduled", "DeferredLocked", "SettlementAuthorized", "Paid",
   "RecoveryPending", "NoFundedRecovery", "Recovered"}

Domains == {"contribution", "cure", "payout", "payout_settlement", "recovery_settlement"}

CircleRecord ==
  [asset : Tokens \cup {ZeroAddress}, contribution_amount : Nat,
   cadence_seconds : Nat, grace_period_seconds : Nat, member_limit : Nat,
   current_round : Nat, status : CircleStatus, joined_count : Nat,
   payout_order : Seq(MemberRefs)]

Obligation == [status : ContributionStatus, due_at : Nat, grace_ends_at : Nat]

PayoutState ==
  [status : PayoutStatus, scheduled_member_ref : MemberRefs \cup {NoMember}, amount : Nat]

RoundLiability == [inflows : Nat, outflows : Nat, outstanding : Nat]

\* What a storage map reads before its key is first written.
NoCircle ==
  [asset |-> ZeroAddress, contribution_amount |-> 0, cadence_seconds |-> 0,
   grace_period_seconds |-> 0, member_limit |-> 0, current_round |-> 0,
   status |-> "Absent", joined_count |-> 0, payout_order |-> << >>]
NoObligation == [status |-> "Absent", due_at |-> 0, grace_ends_at |-> 0]
NoPayout     == [status |-> "Absent", scheduled_member_ref |-> NoMember, amount |-> 0]
NoLiability  == [inflows |-> 0, outflows |-> 0, outstanding |-> 0]

-----------------------------------------------------------------------------
(* Helpers *)

Participants(c) == Range(circles[c].payout_order)

\* Variants named ..._bug_... are not part of the specification: each is what
\* the definition after it would be with a plausible mistake, kept to show that
\* the properties notice it.

\* One slot per place, no zero, no repetition.
validate_payout_order(order, member_limit) ==
  /\ Len(order) = member_limit
  /\ NoMember \notin Range(order)
  /\ IsInjective(order)

assert_settlement_helper(caller) ==
  /\ setup.helper_initialized
  /\ setup.settlement_helper # ZeroAddress
  /\ caller = setup.settlement_helper

ScheduledAmount(c) == circles[c].contribution_amount * circles[c].member_limit

\* The slot of the payout order a round belongs to.
ScheduledMember(c, r) == circles[c].payout_order[r]

\* Every obligation of a circle carries its contribution_amount as the
\* required amount (create_round_obligations), so a sum over members is that
\* amount times their number.
Unresolved(c, r) ==
  {m \in Participants(c) :
     /\ obligations[<<c, r, m>>].status = "MissedDefault"
     /\ <<c, r, m>> \notin cured_deficits}

calculate_round_unresolved_deficit(c, r) ==
  circles[c].contribution_amount * Cardinality(Unresolved(c, r))

\* A cure credited to the round that is open, not to the round it settles.
credit_round_liability_bug_round(c, r, amount) ==
  /\ LET k == <<c, circles[c].current_round>>
         l == ledger[k]
     IN  ledger' = [ledger EXCEPT ![k] =
           [l EXCEPT !.inflows = l.inflows + amount, !.outstanding = l.outstanding + amount]]
  /\ token_outstanding_liability' =
       [token_outstanding_liability EXCEPT ![circles[c].asset] = @ + amount]

credit_round_liability(c, r, amount) ==
  /\ LET l == ledger[<<c, r>>]
     IN  ledger' = [ledger EXCEPT ![<<c, r>>] =
           [l EXCEPT !.inflows = l.inflows + amount, !.outstanding = l.outstanding + amount]]
  /\ token_outstanding_liability' =
       [token_outstanding_liability EXCEPT ![circles[c].asset] = @ + amount]

\* One contribution goes out, not the claim.
debit_round_liability_bug_share(c, r, amount) ==
  /\ ledger[<<c, r>>].outstanding >= amount
  /\ LET l == ledger[<<c, r>>]
         share == circles[c].contribution_amount
     IN  /\ ledger' = [ledger EXCEPT ![<<c, r>>] =
              [l EXCEPT !.outflows = l.outflows + share, !.outstanding = l.outstanding - share]]
         /\ token_outstanding_liability' =
              [token_outstanding_liability EXCEPT ![circles[c].asset] = @ - share]

debit_round_liability(c, r, amount) ==
  /\ ledger[<<c, r>>].outstanding >= amount
  /\ token_outstanding_liability[circles[c].asset] >= amount
  /\ LET l == ledger[<<c, r>>]
     IN  ledger' = [ledger EXCEPT ![<<c, r>>] =
           [l EXCEPT !.outflows = l.outflows + amount, !.outstanding = l.outstanding - amount]]
  /\ token_outstanding_liability' =
       [token_outstanding_liability EXCEPT ![circles[c].asset] = @ - amount]

\* One Pending obligation per slot, with deadlines counted from the block the
\* round opens in.  u64 additions are checked: an overflow reverts.
create_round_obligations(c, r, members) ==
  LET rec == circles[c]
      due == now + rec.cadence_seconds
      end == due + rec.grace_period_seconds
  IN  /\ end <= U64_MAX
      /\ \A m \in Participants(c) : m \in members /\ obligations[<<c, r, m>>].status = "Absent"
      /\ obligations' = [k \in CircleIds \X Rounds \X MemberRefs |->
           IF k[1] = c /\ k[2] = r /\ k[3] \in Participants(c)
           THEN [status |-> "Pending", due_at |-> due, grace_ends_at |-> end]
           ELSE obligations[k]]

\* Every obligation of the round has its final status.
AllDecided(c, r) ==
  \A m \in Participants(c) : obligations[<<c, r, m>>].status \notin {"Absent", "Pending"}

\* The claim of the round may be authorized for its full amount.
Authorizable(c, r) ==
  \/ payout_states[<<c, r>>].status = "Scheduled"
  \/ /\ payout_states[<<c, r>>].status = "DeferredLocked"
     /\ calculate_round_unresolved_deficit(c, r) = 0

\* The rounds prepare_final_settlement turns into recoveries, and the cure
\* windows it closes.
Deficient(c) ==
  {r \in 1..circles[c].member_limit : payout_states[<<c, r>>].status = "DeferredLocked"}

\* No round waits for an authorization.
NoneUndecided_bug_locked(c) ==
  \A r \in 1..circles[c].member_limit :
    payout_states[<<c, r>>].status \in {"SettlementAuthorized", "Paid"}

NoneUndecided(c) ==
  \A r \in 1..circles[c].member_limit :
    \/ payout_states[<<c, r>>].status \in {"SettlementAuthorized", "Paid"}
    \/ r \in Deficient(c) /\ calculate_round_unresolved_deficit(c, r) > 0

Defaults_bug_last(c) ==
  {k \in {c} \X (1..(circles[c].member_limit - 1)) \X Participants(c) :
     obligations[k].status = "MissedDefault"}

Defaults(c) ==
  {k \in {c} \X (1..circles[c].member_limit) \X Participants(c) :
     obligations[k].status = "MissedDefault"}

-----------------------------------------------------------------------------
(* Initial state: the constructor has run, no helper is wired. *)

Init ==
  /\ now = 0
  /\ setup = [settlement_helper |-> ZeroAddress, helper_initialized |-> FALSE,
              setup_authority |-> SetupAuthority]
  /\ next_circle_id = 0
  /\ circles = [c \in CircleIds |-> NoCircle]
  /\ joined = [c \in CircleIds |-> {}]
  /\ obligations = [k \in CircleIds \X Rounds \X MemberRefs |-> NoObligation]
  /\ cured_deficits = {}
  /\ cure_windows_closed = {}
  /\ payout_states = [k \in CircleIds \X Rounds |-> NoPayout]
  /\ recovery_amounts = [k \in CircleIds \X Rounds |-> 0]
  /\ final_settlement_prepared = {}
  /\ nonces = {}
  /\ ledger = [k \in CircleIds \X Rounds |-> NoLiability]
  /\ token_outstanding_liability = [t \in Tokens |-> 0]

-----------------------------------------------------------------------------
(* Entry points *)

\* A later block.
Tick ==
  /\ now < MaxTime
  /\ now' = now + 1
  /\ UNCHANGED <<lifecycle, history, claims, nonces, money>>

create_circle(cfg) ==
  LET id == next_circle_id + 1
  IN  /\ id \in CircleIds
      /\ cfg.token \in Tokens
      /\ cfg.contribution_amount > 0
      /\ cfg.member_limit >= 2 /\ cfg.member_limit <= MAX_MEMBER_LIMIT
      /\ cfg.cadence_seconds > 0
      /\ cfg.grace_period_seconds > 0
      /\ validate_payout_order(cfg.payout_order, cfg.member_limit)
      /\ cfg.contribution_amount * cfg.member_limit <= U128_MAX
      /\ next_circle_id' = id
      /\ circles' = [circles EXCEPT ![id] =
           [asset |-> cfg.token, contribution_amount |-> cfg.contribution_amount,
            cadence_seconds |-> cfg.cadence_seconds,
            grace_period_seconds |-> cfg.grace_period_seconds,
            member_limit |-> cfg.member_limit, current_round |-> 1,
            status |-> "OpenForMembers", joined_count |-> 0,
            payout_order |-> cfg.payout_order]]
      /\ UNCHANGED <<now, setup, joined, history, claims, nonces, money>>

\* The caller shows the preimage of member_ref m; the join that fills the
\* circle activates it and opens round 1.
join_circle(c, m) ==
  LET rec        == circles[c]
      activating == rec.joined_count + 1 = rec.member_limit
      members    == joined[c] \cup {m}
  IN  /\ rec.status = "OpenForMembers"
      /\ m \in Participants(c)
      /\ m \notin joined[c]
      /\ rec.joined_count < rec.member_limit
      /\ joined' = [joined EXCEPT ![c] = members]
      /\ circles' = [circles EXCEPT ![c] =
           [rec EXCEPT !.joined_count = rec.joined_count + 1,
                       !.status = IF activating THEN "Active" ELSE rec.status]]
      /\ \/ /\ activating
            /\ create_round_obligations(c, rec.current_round, members)
         \/ /\ ~activating
            /\ UNCHANGED obligations
      /\ UNCHANGED <<now, setup, next_circle_id, cured_deficits, cure_windows_closed,
                     claims, nonces, money>>

initialize_settlement_helper(caller, helper) ==
  /\ ~setup.helper_initialized
  /\ caller = setup.setup_authority
  /\ helper # ZeroAddress
  /\ setup' = [settlement_helper |-> helper, helper_initialized |-> TRUE,
               setup_authority |-> ZeroAddress]
  /\ UNCHANGED <<now, next_circle_id, circles, joined, history, claims, nonces, money>>

settle_contribution_from_helper(caller, c, r, m, token, amount, nonce) ==
  LET o == obligations[<<c, r, m>>]
  IN  /\ assert_settlement_helper(caller)
      /\ circles[c].status = "Active"
      /\ r = circles[c].current_round
      /\ m \in joined[c]
      /\ token = circles[c].asset
      /\ amount = circles[c].contribution_amount
      /\ o.status = "Pending"
      /\ <<"contribution", c, m, nonce>> \notin nonces
      /\ now <= o.grace_ends_at
      /\ obligations' = [obligations EXCEPT ![<<c, r, m>>] = [o EXCEPT !.status =
           IF now <= o.due_at THEN "OnTime" ELSE "LateWithinGrace"]]
      /\ nonces' = nonces \cup {<<"contribution", c, m, nonce>>}
      /\ credit_round_liability(c, r, amount)
      /\ UNCHANGED <<now, lifecycle, cured_deficits, cure_windows_closed, claims>>

\* Permissionless, and open in every lifecycle status.
finalize_contribution_default_bug_settled(c, r, m) ==
  LET o == obligations[<<c, r, m>>]
  IN  /\ o.status # "Absent"
      /\ now > o.grace_ends_at
      /\ obligations' = [obligations EXCEPT ![<<c, r, m>>] =
           [o EXCEPT !.status = "MissedDefault"]]
      /\ UNCHANGED <<now, lifecycle, cured_deficits, cure_windows_closed, claims,
                     nonces, money>>

finalize_contribution_default(c, r, m) ==
  LET o == obligations[<<c, r, m>>]
  IN  /\ o.status = "Pending"
      /\ now > o.grace_ends_at
      /\ obligations' = [obligations EXCEPT ![<<c, r, m>>] =
           [o EXCEPT !.status = "MissedDefault"]]
      /\ UNCHANGED <<now, lifecycle, cured_deficits, cure_windows_closed, claims,
                     nonces, money>>

settle_cure_from_helper(caller, c, r, m, token, amount, nonce) ==
  /\ assert_settlement_helper(caller)
  /\ obligations[<<c, r, m>>].status = "MissedDefault"
  /\ m \in joined[c]
  /\ token = circles[c].asset
  /\ amount = circles[c].contribution_amount
  /\ <<"cure", c, m, nonce>> \notin nonces
  /\ <<c, r, m>> \notin cured_deficits
  /\ <<c, r, m>> \notin cure_windows_closed
  /\ cured_deficits' = cured_deficits \cup {<<c, r, m>>}
  /\ nonces' = nonces \cup {<<"cure", c, m, nonce>>}
  /\ credit_round_liability(c, r, amount)
  /\ UNCHANGED <<now, lifecycle, obligations, cure_windows_closed, claims>>

\* Permissionless.  Records the claim of the round's scheduled member and,
\* except after the last round, opens the next round in the same step.
finalize_round_payout_accounting(c, r) ==
  LET deficit   == calculate_round_unresolved_deficit(c, r)
      scheduled == ScheduledAmount(c)
  IN  /\ payout_states[<<c, r>>].status = "Absent"
      /\ circles[c].status = "Active"
      /\ r = circles[c].current_round
      /\ AllDecided(c, r)
      /\ r <= circles[c].member_limit
      /\ scheduled <= U128_MAX
      /\ deficit <= scheduled
      /\ ledger[<<c, r>>].outstanding = scheduled - deficit
      /\ payout_states' = [payout_states EXCEPT ![<<c, r>>] =
           [status |-> IF deficit > 0 THEN "DeferredLocked" ELSE "Scheduled",
            scheduled_member_ref |-> ScheduledMember(c, r), amount |-> scheduled]]
      /\ \/ /\ r < circles[c].member_limit
            /\ circles' = [circles EXCEPT ![c] = [@ EXCEPT !.current_round = r + 1]]
            /\ create_round_obligations(c, r + 1, joined[c])
         \/ /\ r = circles[c].member_limit
            /\ UNCHANGED <<circles, obligations>>
      /\ UNCHANGED <<now, setup, next_circle_id, joined, cured_deficits,
                     cure_windows_closed, recovery_amounts, final_settlement_prepared,
                     nonces, money>>

\* Anyone may submit it, with the scheduled member's signature.
authorize_payout_settlement(c, r, nonce) ==
  LET p   == payout_states[<<c, r>>]
      key == <<"payout", c, p.scheduled_member_ref, nonce>>
  IN  /\ Authorizable(c, r)
      /\ key \notin nonces
      /\ payout_states' = [payout_states EXCEPT ![<<c, r>>] =
           [@ EXCEPT !.status = "SettlementAuthorized"]]
      /\ nonces' = nonces \cup {key}
      /\ UNCHANGED <<now, lifecycle, history, recovery_amounts,
                     final_settlement_prepared, money>>

settle_payout_from_helper(caller, c, r, token, nonce) ==
  LET p   == payout_states[<<c, r>>]
      key == <<"payout_settlement", c, p.scheduled_member_ref, nonce>>
  IN  /\ assert_settlement_helper(caller)
      /\ token = circles[c].asset
      /\ p.status = "SettlementAuthorized"
      /\ calculate_round_unresolved_deficit(c, r) = 0
      /\ key \notin nonces
      /\ payout_states' = [payout_states EXCEPT ![<<c, r>>] = [@ EXCEPT !.status = "Paid"]]
      /\ nonces' = nonces \cup {key}
      /\ debit_round_liability(c, r, p.amount)
      /\ UNCHANGED <<now, lifecycle, history, recovery_amounts, final_settlement_prepared>>

settle_recovery_from_helper(caller, c, r, token, nonce) ==
  LET p   == payout_states[<<c, r>>]
      key == <<"recovery_settlement", c, p.scheduled_member_ref, nonce>>
  IN  /\ assert_settlement_helper(caller)
      /\ token = circles[c].asset
      /\ p.status = "RecoveryPending"
      /\ key \notin nonces
      /\ payout_states' = [payout_states EXCEPT ![<<c, r>>] = [@ EXCEPT !.status = "Recovered"]]
      /\ nonces' = nonces \cup {key}
      /\ debit_round_liability(c, r, recovery_amounts[<<c, r>>])
      /\ UNCHANGED <<now, lifecycle, history, recovery_amounts, final_settlement_prepared>>

\* Permissionless.  Refused while any round still waits for an authorization;
\* turns what is left of the deficient rounds into recovery claims and closes
\* every cure window.
prepare_final_settlement(c) ==
  LET recovery(r) == payout_states[<<c, r>>].amount - calculate_round_unresolved_deficit(c, r)
      Here(k)     == k[1] = c /\ k[2] \in Deficient(c)
  IN  /\ c \notin final_settlement_prepared
      /\ circles[c].status = "Active"
      /\ payout_states[<<c, circles[c].member_limit>>].status # "Absent"
      /\ NoneUndecided(c)
      /\ \A r \in Deficient(c) :
           /\ calculate_round_unresolved_deficit(c, r) <= payout_states[<<c, r>>].amount
           /\ ledger[<<c, r>>].outstanding = recovery(r)
      /\ recovery_amounts' = [k \in CircleIds \X Rounds |->
           IF Here(k) THEN recovery(k[2]) ELSE recovery_amounts[k]]
      /\ payout_states' = [k \in CircleIds \X Rounds |->
           IF Here(k)
           THEN [payout_states[k] EXCEPT !.status =
                   IF recovery(k[2]) = 0 THEN "NoFundedRecovery" ELSE "RecoveryPending"]
           ELSE payout_states[k]]
      /\ cure_windows_closed' = cure_windows_closed \cup Defaults(c)
      /\ circles' = [circles EXCEPT ![c] = [@ EXCEPT !.status = "SettlementPending"]]
      /\ final_settlement_prepared' = final_settlement_prepared \cup {c}
      /\ UNCHANGED <<now, setup, next_circle_id, joined, obligations, cured_deficits,
                     nonces, money>>

-----------------------------------------------------------------------------
(* Specification *)

Keeper(c) ==
  \/ \E r \in Rounds, m \in MemberRefs : finalize_contribution_default(c, r, m)
  \/ \E r \in Rounds : finalize_round_payout_accounting(c, r)

Settle(c, r) ==
  \E caller \in Addresses, token \in Tokens, nonce \in Nonces :
    \/ \E m \in MemberRefs, amount \in Amounts :
         \/ settle_contribution_from_helper(caller, c, r, m, token, amount, nonce)
         \/ settle_cure_from_helper(caller, c, r, m, token, amount, nonce)
    \/ settle_payout_from_helper(caller, c, r, token, nonce)
    \/ settle_recovery_from_helper(caller, c, r, token, nonce)

Next ==
  \/ Tick
  \/ \E cfg \in Configs : create_circle(cfg)
  \/ \E caller, helper \in Addresses : initialize_settlement_helper(caller, helper)
  \/ \E c \in CircleIds :
       \/ \E m \in MemberRefs : join_circle(c, m)
       \/ Keeper(c)
       \/ prepare_final_settlement(c)
       \/ \E r \in Rounds :
            \/ Settle(c, r)
            \/ \E nonce \in Nonces : authorize_payout_settlement(c, r, nonce)

Spec == Init /\ [][Next]_vars

-----------------------------------------------------------------------------
(* Safety *)

\* Every variable stays in the type its storage map declares.
TypeOK ==
  /\ now \in Nat
  /\ setup \in [settlement_helper : Addresses \cup {ZeroAddress},
                helper_initialized : BOOLEAN,
                setup_authority : Addresses \cup {ZeroAddress}]
  /\ next_circle_id \in Nat
  /\ circles \in [CircleIds -> CircleRecord]
  /\ joined \in [CircleIds -> SUBSET MemberRefs]
  /\ obligations \in [CircleIds \X Rounds \X MemberRefs -> Obligation]
  /\ cured_deficits \subseteq CircleIds \X Rounds \X MemberRefs
  /\ cure_windows_closed \subseteq CircleIds \X Rounds \X MemberRefs
  /\ payout_states \in [CircleIds \X Rounds -> PayoutState]
  /\ recovery_amounts \in [CircleIds \X Rounds -> Nat]
  /\ final_settlement_prepared \subseteq CircleIds
  /\ nonces \subseteq Domains \X CircleIds \X (MemberRefs \cup {NoMember}) \X Nonces
  /\ ledger \in [CircleIds \X Rounds -> RoundLiability]
  /\ token_outstanding_liability \in [Tokens -> Nat]

\* The members whose contribution of the round was received, in time or by cure.
Funded(c, r) ==
  {m \in Participants(c) : \/ obligations[<<c, r, m>>].status \in {"OnTime", "LateWithinGrace"}
                           \/ <<c, r, m>> \in cured_deficits}

Closed == {"Paid", "Recovered"}

\* INV-014, INV-023: a round's ledger holds exactly one contribution for each
\* member whose obligation the history says was met, less what its claim paid:
\* the whole of it once the claim is Paid or Recovered, nothing before.  The
\* history, the cures, the claim and the three liability maps are written by
\* five different entry points.
RoundConservation ==
  \A c \in CircleIds, r \in Rounds :
    LET l == ledger[<<c, r>>]
    IN  /\ l.inflows = circles[c].contribution_amount * Cardinality(Funded(c, r))
        /\ l.outflows = IF payout_states[<<c, r>>].status \in Closed THEN l.inflows ELSE 0
        /\ l.outstanding = l.inflows - l.outflows

\* INV-023, no borrowing: a claim a member may still settle is backed in full
\* by its own round, so the LIABILITY_INVARIANT asserts of the settle entry
\* points never refuse a rightful member.
ClaimsBacked ==
  \A c \in CircleIds, r \in Rounds :
    LET p == payout_states[<<c, r>>]
    IN  /\ p.status \in {"Scheduled", "SettlementAuthorized"} =>
             ledger[<<c, r>>].outstanding = p.amount
        /\ p.status = "RecoveryPending" =>
             /\ recovery_amounts[<<c, r>>] > 0
             /\ ledger[<<c, r>>].outstanding = recovery_amounts[<<c, r>>]
             /\ recovery_amounts[<<c, r>>] < p.amount
        /\ p.status = "NoFundedRecovery" =>
             ledger[<<c, r>>].outstanding = 0 /\ recovery_amounts[<<c, r>>] = 0

\* INV-020, ARCHITECTURE.md "Deficit handling": once a claim has left the
\* deferred state for good, no member of its round can be cured any more, so
\* no money can arrive behind a claim that was already closed or fixed.
NoCureBehindClaim ==
  \A c \in CircleIds, r \in Rounds :
    payout_states[<<c, r>>].status \notin {"Absent", "DeferredLocked"} =>
      \A m \in Unresolved(c, r) : <<c, r, m>> \in cure_windows_closed

\* INV-015, INV-003: the claims of the rounds of a circle belong to its
\* members in slot order, one each, at the nominal pot.
OneTurnEach ==
  \A c \in CircleIds :
    /\ \A r \in Rounds : payout_states[<<c, r>>].status # "Absent" =>
         /\ payout_states[<<c, r>>].scheduled_member_ref = circles[c].payout_order[r]
         /\ payout_states[<<c, r>>].amount = ScheduledAmount(c)
    /\ \A r, s \in Rounds :
         /\ payout_states[<<c, r>>].status # "Absent"
         /\ payout_states[<<c, s>>].status # "Absent"
         /\ payout_states[<<c, r>>].scheduled_member_ref = payout_states[<<c, s>>].scheduled_member_ref
         => r = s

\* INV-007: exactly the rounds before the current one have a claim, plus the
\* last one when it is finalized; obligations exist for exactly the rounds up
\* to the current one; and a circle in final settlement has no undecided claim.
RoundsInOrder ==
  \A c \in CircleIds, r \in Rounds :
    /\ payout_states[<<c, r>>].status # "Absent" =>
         \/ r < circles[c].current_round
         \/ r = circles[c].current_round /\ r = circles[c].member_limit
    /\ circles[c].status \in {"Active", "SettlementPending"} =>
         /\ r < circles[c].current_round =>
              /\ payout_states[<<c, r>>].status # "Absent"
              /\ \A m \in Participants(c) : obligations[<<c, r, m>>].status \notin {"Absent", "Pending"}
         /\ \A m \in Participants(c) :
              obligations[<<c, r, m>>].status # "Absent" <=> r <= circles[c].current_round
    /\ circles[c].status = "SettlementPending" /\ r <= circles[c].member_limit =>
         payout_states[<<c, r>>].status \notin {"Absent", "Scheduled", "DeferredLocked"}

\* INV-023 across circles: what the contract owes in a token is the sum of
\* what the rounds of that token's circles still hold.
TokenTotals ==
  \A t \in Tokens :
    LET held == [k \in CircleIds \X Rounds |->
                   IF circles[k[1]].asset = t THEN ledger[k].outstanding ELSE 0]
    IN  token_outstanding_liability[t]
          = MapThenSumSet(LAMBDA k : held[k], CircleIds \X Rounds)

\* A round whose obligations are all final can be finalized: neither the
\* consistency asserts of finalize_round_payout_accounting nor the checked u128
\* subtraction can refuse the call and strand the money of the round.  The
\* deadlines of the round it opens are the one exception (they must fit u64).
ReadyToFinalize(c) ==
  LET r == circles[c].current_round
  IN  /\ circles[c].status = "Active"
      /\ payout_states[<<c, r>>].status = "Absent"
      /\ \A m \in Participants(c) : obligations[<<c, r, m>>].status \notin {"Absent", "Pending"}

FinalizeNeverRefused ==
  \A c \in CircleIds : ReadyToFinalize(c) =>
    LET r == circles[c].current_round
    IN  /\ ScheduledAmount(c) <= U128_MAX
        /\ calculate_round_unresolved_deficit(c, r) <= ScheduledAmount(c)
        /\ ledger[<<c, r>>].outstanding =
             ScheduledAmount(c) - calculate_round_unresolved_deficit(c, r)
        /\ r < circles[c].member_limit =>
             /\ Participants(c) \subseteq joined[c]
             /\ \A m \in Participants(c) : obligations[<<c, r + 1, m>>].status = "Absent"

\* prepare_final_settlement has found nothing to wait for.
ReadyToSettle(c) ==
  /\ circles[c].status = "Active"
  /\ payout_states[<<c, circles[c].member_limit>>].status # "Absent"
  /\ NoneUndecided(c)

\* ARCHITECTURE.md:437, "the locked payout does not stall progression", and
\* iwa_circle.cairo:937 on the final settlement: whoever defaults, a circle that
\* has begun is never left without a next call that needs nobody who owes.  It
\* runs a deadline, or its round can be finalized, or a claim can be authorized,
\* or the final settlement can be prepared, whose consistency asserts and u128
\* subtraction then hold, as those of finalization do; and after it every claim
\* can still be settled, or has ended with nothing left in its round.
NeverStuck ==
  /\ FinalizeNeverRefused
  /\ \A c \in CircleIds :
    /\ circles[c].status = "Active" =>
         \/ \E m \in Participants(c) :
              obligations[<<c, circles[c].current_round, m>>].status = "Pending"
         \/ ReadyToFinalize(c)
         \/ \E r \in Rounds : Authorizable(c, r)
         \/ ReadyToSettle(c)
    /\ ReadyToSettle(c) =>
         /\ c \notin final_settlement_prepared
         /\ \A r \in Deficient(c) :
              LET due  == payout_states[<<c, r>>].amount
                  owed == calculate_round_unresolved_deficit(c, r)
              IN  owed <= due /\ ledger[<<c, r>>].outstanding = due - owed
    /\ circles[c].status = "SettlementPending" =>
         \A r \in 1..circles[c].member_limit :
           \/ payout_states[<<c, r>>].status \in {"SettlementAuthorized", "RecoveryPending"}
           \/ /\ payout_states[<<c, r>>].status \in Closed \cup {"NoFundedRecovery"}
              /\ ledger[<<c, r>>].outstanding = 0

-----------------------------------------------------------------------------
(* Liveness, under the fairness of the model modules *)

\* ARCHITECTURE.md:437, "the locked payout does not stall progression": a
\* circle that activated gets a claim recorded for every round, its last one
\* too, whoever defaults, and every claim ends: it is paid, or recovered after
\* the final settlement, or found to have nothing behind it; and then every
\* token the round took in is out.  As long as blocks come, someone makes the
\* permissionless calls and claimants sign.
EveryClaimEnds ==
  \A c \in CircleIds, r \in Rounds :
    circles[c].status = "Active" /\ r <= circles[c].member_limit
      ~> /\ payout_states[<<c, r>>].status \in Closed \cup {"NoFundedRecovery"}
         /\ ledger[<<c, r>>].outstanding = 0

-----------------------------------------------------------------------------
(* Action properties *)

\* INV-004: a contribution status that is final is never rewritten, deadlines
\* never move, a cure is never undone and a closed window never reopens.
HistoryKept ==
  /\ \A c \in CircleIds, r \in Rounds, m \in MemberRefs :
       LET o == obligations[<<c, r, m>>]
       IN  /\ o.status \notin {"Absent", "Pending"} => obligations'[<<c, r, m>>] = o
           /\ o.status = "Pending" =>
                /\ obligations'[<<c, r, m>>].status # "Absent"
                /\ obligations'[<<c, r, m>>].due_at = o.due_at
                /\ obligations'[<<c, r, m>>].grace_ends_at = o.grace_ends_at
  /\ cured_deficits \subseteq cured_deficits'
  /\ cure_windows_closed \subseteq cure_windows_closed'

HistoryImmutable == [][HistoryKept]_vars

\* INV-023, no cross-round effect: a step moves the ledger of at most one
\* round, in one direction, and the token total by the same amount; nothing is
\* credited to a round whose claim was closed.
OneRoundMoves ==
  \A k \in CircleIds \X Rounds : ledger'[k] # ledger[k] =>
    /\ \A j \in (CircleIds \X Rounds) \ {k} : ledger'[j] = ledger[j]
    /\ payout_states[k].status \notin Closed
    /\ LET t == circles[k[1]].asset
       IN  token_outstanding_liability'[t] + ledger[k].outstanding
             = token_outstanding_liability[t] + ledger'[k].outstanding

OneRoundPerStep == [][OneRoundMoves]_vars

\* The order in which a claim's status may change (iwa_types.cairo
\* PayoutStatus), and a settled claim is terminal.
ClaimMoves ==
  \A k \in CircleIds \X Rounds :
    LET s == payout_states[k].status
        t == payout_states'[k].status
    IN  s # t => <<s, t>> \in
          {<<"Absent", "Scheduled">>, <<"Absent", "DeferredLocked">>,
           <<"Scheduled", "SettlementAuthorized">>,
           <<"DeferredLocked", "SettlementAuthorized">>,
           <<"DeferredLocked", "RecoveryPending">>,
           <<"DeferredLocked", "NoFundedRecovery">>,
           <<"SettlementAuthorized", "Paid">>, <<"RecoveryPending", "Recovered">>}

ClaimLifecycle == [][ClaimMoves]_vars

=============================================================================
