------------------------- MODULE MCIwaPrizeSavings -------------------------
(***************************************************************************)
(* Small instances of the prize-savings pool.                              *)
(***************************************************************************)
EXTENDS IwaPrizeViews, TLC

CONSTANTS owner0, a, b

\* Five tokens in all, and U64_MAX is no more: every sum is at its limit.  The
\* pool takes three, less than two savers have, so that a deposit is clamped.
MCBalance == (owner0 :> 1) @@ (a :> 3) @@ (b :> 1)

\* Locks come early enough for the timeout to fall within the bounded time.  The
\* owner may renounce, or never call again.
LiveNext ==
  /\ Next
  /\ roundState' = "Locked" => lockTimestamp' + DRAW_TIMEOUT <= MaxTime

AnyoneDraws ==
  \E u \in Accounts \ {Deployer}, ticket \in 0..(MAX_POOL_TOTAL - 1) : draw(u, ticket)

\* Blocks come, someone calls draw when it may be called, and each participant
\* keeps calling withdrawAll and claim.  Nothing is asked of the owner.
Fairness ==
  /\ WF_vars(Tick)
  /\ WF_vars(AnyoneDraws)
  /\ \A u \in Accounts : WF_vars(withdrawAll(u)) /\ WF_vars(claim(u))

LiveSpec == Init /\ [][LiveNext]_vars /\ Fairness

\* zama-prize-savings/README.md:77-78, "A ticket that lands at or above the
\* real total selects nobody (NO_WINNER): every claim credits zero and the
\* prize rolls over, untouched".
PrizeRollsOver ==
  (roundState = "Claimable" /\ winnerIndex = NO_WINNER /\ prizeReserve > 0)
    ~> roundState = "Open"
=============================================================================
