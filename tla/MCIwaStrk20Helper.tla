-------------------------- MODULE MCIwaStrk20Helper --------------------------
(***************************************************************************)
(* Instances of IwaStrk20Helper for TLC.  The circle contract is bounded   *)
(* as in MCIwaCircle: the clock runs only while a deadline does, nonces    *)
(* are those of the client or taken in order, circles are set up in one    *)
(* order.                                                                  *)
(***************************************************************************)
EXTENDS IwaCirclePage, MCIwaCircle

\* Two circles of one token share the helper's account, with different pots.
SharedToken == {Config(usdc, 1, 1, 1, <<m1, m2>>), Config(usdc, 2, 1, 1, <<m2, m1>>)}

\* Only the token of the circles is donated: the other one has no liability.
OneTokenDonated == \A t \in Tokens \ {usdc} : UNCHANGED balances[t]

SharedTokenHSpec ==
  HInit /\ [][HNext /\ ClientNonces /\ OneTokenDonated /\ Lean({<<1, m1>>})]_allvars
=============================================================================
