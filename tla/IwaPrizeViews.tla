----------------------------- MODULE IwaPrizeViews -----------------------------
(***************************************************************************)
(* What the web client shows and offers of the prize pool:                 *)
(* iwa-web/src/screens/PrizeSavingsView.tsx with lib/prizeSavings/flow.ts  *)
(* and gate.ts, features/prizeSavings/contracts.ts and lib/evmWallet.ts,   *)
(* over the contract of module IwaPrizeSavings.                            *)
(*                                                                         *)
(* The operators are those of the client, applied to what its reads of the *)
(* contract returned; module IwaPrizePage says when it reads.  Whether the *)
(* token lets the pool pull the tokens of an account is external: the      *)
(* permission is a parameter.  Copy, amounts typed in, test tokens and     *)
(* decryption are left out.                                                *)
(***************************************************************************)
EXTENDS IwaPrizeSavings

-----------------------------------------------------------------------------
(* The Ethereum slot of the wallet manager *)

NoAddress == Nobody
NoChain   == 0
Sepolia   == 1
OtherChain == 2

DISCONNECTED == [status |-> "disconnected", address |-> NoAddress, chainId |-> NoChain]

EvmEvents ==
  {[type |-> "disconnected"], [type |-> "accountsChanged", account |-> NoAddress]}
    \cup [type : {"accountsChanged"}, account : Accounts]
    \cup [type : {"networkChanged"}, chainId : {Sepolia, OtherChain}]

\* Only the network the pool is on counts as connected.
onNetwork(chain) == IF chain = Sepolia THEN "connected" ELSE "wrongNetwork"

nextEvmState(slot, event) ==
  LET Accounted(account) ==
        CASE account = NoAddress -> DISCONNECTED
          [] account # NoAddress /\ slot.status \in {"disconnected", "missing"} -> slot
          [] account # NoAddress /\ slot.status \notin {"disconnected", "missing"} ->
               [status |-> IF slot.chainId = NoChain THEN "disconnected" ELSE onNetwork(slot.chainId),
                address |-> account, chainId |-> slot.chainId]
      Networked(chain) ==
        [slot EXCEPT !.chainId = chain,
                     !.status = IF slot.address # NoAddress THEN onNetwork(chain)
                                ELSE IF slot.status = "missing" THEN "missing" ELSE "disconnected"]
  IN  CASE event.type = "disconnected"    -> DISCONNECTED
        [] event.type = "accountsChanged" -> Accounted(event.account)
        [] event.type = "networkChanged"  -> Networked(event.chainId)

EvmSlots ==
  [status : {"missing", "disconnected", "wrongNetwork", "connected"},
   address : Accounts \cup {NoAddress}, chainId : {NoChain, Sepolia, OtherChain}]

-----------------------------------------------------------------------------
(* The flow of the screen *)

\* facts is a set of at most one read.
stageOf(status, facts, loadFailed) ==
  CASE status = "missing"      -> "walletMissing"
    [] status = "disconnected" -> "connect"
    [] status = "wrongNetwork" -> "wrongNetwork"
    [] status = "connected" /\ loadFailed -> "loadFailed"
    [] status = "connected" /\ ~loadFailed /\ facts = {} -> "load"
    [] status = "connected" /\ ~loadFailed /\ facts # {} -> (CHOOSE f \in facts : TRUE).roundState

depositOffer(stage) ==
  [canDeposit |-> stage = "Open", canWithdraw |-> stage \in RoundState]

claimOffer_bug_first(f) == f.roundState = "Drawn" /\ f.isParticipant /\ ~f.hasClaimed

claimOffer(f) == f.roundState \in {"Drawn", "Claimable"} /\ f.isParticipant /\ ~f.hasClaimed

ownerOffer(f) ==
  [canFund |-> f.isOwner /\ f.roundState = "Open",
   canLock |-> f.isOwner /\ f.roundState = "Open",
   canDraw |-> f.isOwner /\ f.roundState = "Locked"]

evmGate(slot) ==
  CASE slot.status = "connected"    -> "ready"
    [] slot.status = "wrongNetwork" -> "switchSepolia"
    [] slot.status \in {"missing", "disconnected"} -> "connectEvm"

button(name, shown) == IF shown THEN {name} ELSE {}

\* The buttons of the screen while nothing is under way: what stands before the
\* feature, ...
GateButtons(slot, stage) ==
  button("connectEvm", evmGate(slot) = "connectEvm")
    \cup button("switchSepolia", evmGate(slot) = "switchSepolia")
    \cup button("again", stage = "loadFailed")

\* ... the saver's card, with the permission the token asks for and all three
\* that move tokens, ...
SaverButtons(stage, f) ==
  button("grantOperator", ~f.operatorGranted)
    \cup button("deposit", depositOffer(stage).canDeposit)
    \cup button("withdraw", depositOffer(stage).canWithdraw)
    \cup button("withdrawAll", depositOffer(stage).canWithdraw)

\* ... the host's card, ...
HostButtons(f) ==
  button("fund", ownerOffer(f).canFund)
    \cup button("lock", ownerOffer(f).canLock)
    \cup button("draw", ownerOffer(f).canDraw)

\* ... and the draw's.
ClaimButton(f) == button("claim", claimOffer(f))

Buttons(slot, facts, loadFailed) ==
  LET stage == stageOf(slot.status, facts, loadFailed)
      feature == evmGate(slot) = "ready" /\ stage \in RoundState
  IN  GateButtons(slot, stage)
        \cup UNION {SaverButtons(stage, f) \cup HostButtons(f) \cup ClaimButton(f) :
                      f \in IF feature THEN facts ELSE {}}

-----------------------------------------------------------------------------
(* The contract: what it asks of each, and what its reads answer *)

DepositAccepted(u, allowed) ==
  /\ roundState = "Open" /\ allowed
  /\ u \in Range(participants) \/ Len(participants) < MAX_PARTICIPANTS

LockAccepted(u) == roundState = "Open" /\ u = owner

FundAccepted(u, allowed) == LockAccepted(u) /\ allowed

readPool == [roundState |-> roundState, participantCount |-> Len(participants)]

readUserState(u) ==
  [isParticipant |-> u \in Range(participants), hasClaimed |-> u \in claimed]

isPoolOwner(u) == u = owner

\* All the page reads, of one moment; allowed is the answer of the token.
PoolFacts(u, allowed) ==
  [roundState |-> readPool.roundState, participantCount |-> readPool.participantCount,
   isParticipant |-> readUserState(u).isParticipant, hasClaimed |-> readUserState(u).hasClaimed,
   operatorGranted |-> allowed, isOwner |-> isPoolOwner(u)]

ConnectedSlot(u) == [status |-> "connected", address |-> u, chainId |-> Sepolia]

\* The screen of somebody connected, on a reading of this moment.
ScreenOf(u, allowed) == Buttons(ConnectedSlot(u), {PoolFacts(u, allowed)}, FALSE)

\* Of somebody who gave the permission.
AllowedScreenOf(u) == ScreenOf(u, TRUE)

-----------------------------------------------------------------------------
(* Properties *)

\* What the page shows on a reading of this moment tells exactly what the
\* contract would accept: claiming and locking are offered when they work and to
\* nobody else; funding works exactly when it is offered and the permission is
\* not asked for; a deposit exactly when, besides, a place is left or taken by
\* oneself, as the count beside it says; the way out is always there.
FreshOffers ==
  \A u \in Accounts, allowed \in BOOLEAN :
    LET f     == PoolFacts(u, allowed)
        shown == ScreenOf(u, allowed)
        asked == "grantOperator" \in shown
    IN  /\ "claim" \in shown <=> MayClaim(u)
        /\ "lock" \in shown <=> LockAccepted(u)
        /\ "fund" \in shown /\ ~asked <=> FundAccepted(u, allowed)
        /\ DepositAccepted(u, allowed) <=>
             /\ "deposit" \in shown /\ ~asked
             /\ f.isParticipant \/ f.participantCount < MAX_PARTICIPANTS
        /\ "draw" \in shown => roundState = "Locked" /\ MayDraw(u)
        /\ {"withdraw", "withdrawAll"} \subseteq shown

\* The same screen left as it is while everybody's transactions go on: a claim on
\* offer is neither taken away nor lost to others, one that the draw did not bring
\* never comes, a deposit that is closed stays closed, and nobody gets a place in
\* a pool that was full.  Each holds from one step to the next, so for as long as
\* the screen is not read again.
Aged(u) ==
  LET shown  == AllowedScreenOf(u)
      drawn  == roundState \in {"Drawn", "Claimable"}
      Barred == u \notin Range(participants) /\ Len(participants) = MAX_PARTICIPANTS
  IN  /\ "claim" \in shown \/ u \in claimed => "claim" \in shown' \/ u \in claimed'
      /\ drawn /\ "claim" \notin shown => drawn' /\ "claim" \notin shown'
      /\ "deposit" \notin shown => "deposit" \notin shown'
      /\ Barred => Barred' /\ ~DepositAccepted(u, TRUE)'

\* Only a step that changes what the reads answer needs to be looked at.
OffersAge ==
  \/ UNCHANGED <<roundState, participants, claimed>>
  \/ \A u \in Accounts : Aged(u)

\* The page's offers against the contract, on a fresh reading and on an old one.
\* "The screen renders what this says and calls what this names" (flow.ts:2), and
\* what it calls is the contract, later.
OffersStand == []FreshOffers /\ [][OffersAge]_vars

\* "Run the draw" is there for whoever may run it (README.md of the contract, "a
\* silent owner cannot strand a funded prize").
DrawIsOffered ==
  \A u \in Accounts : roundState = "Locked" /\ MayDraw(u) => "draw" \in AllowedScreenOf(u)

\* The belief of the wallet manager, whatever the extension reports in whatever
\* order: connected means an account is known and the network is the pool's
\* ("not a silent connected", evmWallet.ts:40).
SlotSound(slot) ==
  /\ slot.status = "connected" => slot.address # NoAddress /\ slot.chainId = Sepolia
  /\ slot.status = "wrongNetwork" => slot.address # NoAddress /\ slot.chainId = OtherChain
=============================================================================
