---------------------------- MODULE MCIwaCircle ----------------------------
(***************************************************************************)
(* Instances of IwaCircle for TLC.                                         *)
(***************************************************************************)
EXTENDS IwaCircleViews

CONSTANTS m1, m2, usdc, strk, dai, deployer, helper, n1, n2

Config(token, amount, cadence, grace, order) ==
  [token |-> token, contribution_amount |-> amount, cadence_seconds |-> cadence,
   grace_period_seconds |-> grace, member_limit |-> Len(order), payout_order |-> order]

TwoMembers   == {m1, m2}
Assets       == {usdc, strk}
AllAddresses == {deployer, helper}
TwoNonces    == {n1, n2}
OneTwo       == 1..2

\* One circle of two, and calls create_circle must refuse: an unsupported
\* token, a member with two turns, the zero member, a pot beyond u128.
OneCircle ==
  {Config(usdc, 1, 1, 1, <<m1, m2>>), Config(dai, 1, 1, 1, <<m1, m2>>),
   Config(usdc, 1, 1, 1, <<m1, m1>>), Config(usdc, 1, 1, 1, <<m1, NoMember>>),
   Config(usdc, 9, 1, 1, <<m1, m2>>)}

-----------------------------------------------------------------------------
(* Time matters only while it can move a pending obligation past one of its *)
(* deadlines: every other use of the clock is relative to the block a round *)
(* opens in.  Blocks in which no deadline runs are left out of these runs.  *)

DeadlineRuns ==
  \E k \in CircleIds \X Rounds \X MemberRefs :
    obligations[k].status = "Pending" /\ now <= obligations[k].grace_ends_at

MCNext == Next /\ (now' # now => DeadlineRuns)
MCSpec == Init /\ [][MCNext]_vars

\* Nonces are only compared for equality, so in the larger instances a signer
\* takes them in the order 1, 2, 3 within each domain, but for contributions.
NoncesInOrder ==
  \A key \in nonces' \ nonces :
    key[1] # "contribution" => key[4] = 1 + Cardinality({k \in nonces : SubSeq(k, 1, 3) = SubSeq(key, 1, 3)})

\* Wiring, creation and joins in one fixed order: their interleavings are
\* explored by the run of one circle.
SetupInOrder ==
  /\ circles' # circles => setup.helper_initialized
  /\ joined' # joined =>
       /\ next_circle_id = MaxCircles
       /\ \A c \in CircleIds : joined'[c] # joined[c] =>
            /\ \A b \in 1..(c - 1) : joined[b] = Participants(b)
            /\ joined'[c] = joined[c] \cup {circles[c].payout_order[circles[c].joined_count + 1]}

\* Only the pairs <<circle, member>> of Tardy let a deadline pass.
OnlyTardy(Tardy) ==
  now' # now => \A k \in CircleIds \X Rounds \X MemberRefs :
                   obligations[k].status = "Pending" => <<k[1], k[3]>> \in Tardy

Lean(Tardy) ==
  (now' # now => DeadlineRuns) /\ NoncesInOrder /\ SetupInOrder /\ OnlyTardy(Tardy)

-----------------------------------------------------------------------------
(* Liveness.                                                               *)
(*                                                                         *)
(* Blocks keep coming.  finalize_contribution_default,                     *)
(* finalize_round_payout_accounting and prepare_final_settlement take no   *)
(* signature, so whoever waits for them may call them; the scheduled       *)
(* member of a claim wants it and signs.  Nobody is made to join, to       *)
(* contribute, to cure or to wire the helper.  A step is never undone, so  *)
(* it is enough that somebody acts while somebody can.                     *)

KeeperCalls ==
  \/ DeadlineRuns /\ Tick
  \/ \E c \in CircleIds : Keeper(c) \/ prepare_final_settlement(c)

ClaimantCalls ==
  \E c \in CircleIds, r \in Rounds, n \in Nonces :
    \/ authorize_payout_settlement(c, r, n)
    \/ settle_payout_from_helper(setup.settlement_helper, c, r, circles[c].asset, n)
    \/ settle_recovery_from_helper(setup.settlement_helper, c, r, circles[c].asset, n)

LiveSpec == MCSpec /\ WF_vars(KeeperCalls) /\ WF_vars(ClaimantCalls)

-----------------------------------------------------------------------------
(* What the documentation says and the code does not do.                   *)

UnresolvedAnywhere(c, m) == \E r \in Rounds : m \in Unresolved(c, r)

\* ARCHITECTURE.md:435 and PROJECT.md:188: a member who reaches their payout
\* turn with an unresolved deficit, of whatever round, has the payout locked.
\* finalize_round_payout_accounting looks at the deficits of the claim's own
\* round only, whoever owes them.
RecipientWithDeficitLocked ==
  [][\A c \in CircleIds, r \in Rounds :
       /\ payout_states[<<c, r>>].status = "Absent"
       /\ payout_states'[<<c, r>>].status # "Absent"
       /\ UnresolvedAnywhere(c, circles[c].payout_order[r])
       => payout_states'[<<c, r>>].status = "DeferredLocked"]_vars
=============================================================================
