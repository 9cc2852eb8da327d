---------------------------- MODULE IwaCirclePots ----------------------------
(***************************************************************************)
(* The circle contract implements the pots of module RoundPots.            *)
(***************************************************************************)
EXTENDS IwaCircle

\* A claim in one of these states has nothing left to move.
Settled == Closed \cup {"NoFundedRecovery"}

Pots == INSTANCE RoundPots WITH
  Pots    <- CircleIds \X Rounds,
  Members <- MemberRefs,
  price   <- [k \in CircleIds \X Rounds |-> circles[k[1]].contribution_amount],
  shares  <- [k \in CircleIds \X Rounds |-> Funded(k[1], k[2])],
  owner   <- [k \in CircleIds \X Rounds |-> payout_states[k].scheduled_member_ref],
  held    <- [k \in CircleIds \X Rounds |-> ledger[k].outstanding],
  taken   <- [k \in CircleIds \X Rounds |-> ledger[k].outflows],
  closed  <- {k \in CircleIds \X Rounds : payout_states[k].status \in Settled}

\* INV-003, INV-014, INV-015, INV-023: whatever the entry points do, seen from
\* the pots each step is one legal move of one pot, or none.  Contributions and
\* cures put in, finalization names the owner, payout and recovery take the
\* whole pot, and the final settlement gives up the empty ones.
ImplementsPots == Pots!Spec
=============================================================================
