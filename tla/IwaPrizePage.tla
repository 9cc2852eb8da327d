----------------------------- MODULE IwaPrizePage -----------------------------
(***************************************************************************)
(* The prize page over the pool: iwa-web/src/screens/PrizeSavingsView.tsx  *)
(* with the Ethereum slot of app/WalletProvider.tsx.                       *)
(*                                                                         *)
(* The page reads the contract in several requests, one after the other,   *)
(* while everybody's transactions go on, and keeps what it read until the  *)
(* next time.  An account that changes does not end a refresh under way    *)
(* and does not clear what an earlier one showed.  A press of a button is  *)
(* a transaction of the account the extension is on by then, so it is one  *)
(* of the transactions below; the page waits for it and reads again.       *)
(*                                                                         *)
(* The token's operators are external: the contract pulls tokens only from *)
(* those who allowed it, until a time they chose.  Requests are answered   *)
(* from the latest block.  The page is mounted once.                       *)
(***************************************************************************)
EXTENDS IwaPrizeViews

CONSTANT Refreshes        \* bound: refreshes that may be under way at a time

VARIABLES
  operators,              \* accounts that allow the pool to pull their tokens
  slot,                   \* evm of the wallet manager
  facts,                  \* what the page shows: at most one, with whose it is
  loadFailed,
  refreshes               \* under way, by number

page     == <<slot, facts, loadFailed, refreshes>>
pagevars == <<vars, operators, page>>

-----------------------------------------------------------------------------
(* The chain *)

setOperator(u, allowed) ==
  /\ operators' = IF allowed THEN operators \cup {u} ELSE operators \ {u}
  /\ UNCHANGED <<vars, page>>

\* Everybody's transactions: those that pull tokens revert without permission.
Transactions ==
  /\ \/ Tick
     \/ \E u \in Accounts :
          \/ lockRound(u) \/ withdrawAll(u) \/ claim(u)
          \/ \E ticket \in 0..(MAX_POOL_TOTAL - 1) : draw(u, ticket)
          \/ \E new \in Accounts \cup {Nobody} : transferOwnership(u, new)
          \/ \E amount \in Requests :
               \/ withdraw(u, amount) \/ donate(u, amount)
               \/ u \in operators /\ (deposit(u, amount) \/ fundPrize(u, amount))
  /\ UNCHANGED <<operators, page>>

-----------------------------------------------------------------------------
(* Reading *)

PoolFields == {"roundState", "participantCount"}
UserFields == {"isParticipant", "hasClaimed"}
Fields     == PoolFields \cup UserFields \cup {"operatorGranted", "isOwner"}

isOperator(u) == u \in operators

\* What a refresh has read before it asks for a field.  What it asks for together
\* is answered in any order.
before(field) ==
  CASE field \in PoolFields        -> {}
    [] field \in UserFields        -> PoolFields
    [] field = "operatorGranted"   -> PoolFields \cup UserFields
    [] field = "isOwner"           -> PoolFields \cup UserFields \cup {"operatorGranted"}

-----------------------------------------------------------------------------
(* Refreshing *)

NoRefresh == [by |-> "none"]

Refresh(by, u, got) == [by |-> by, of |-> u, got |-> got]

Active(i) == refreshes[i].by # "none"

\* by: begun by the page itself, or to follow a transaction: "press" until that is
\* over, "sent" after.  The account is the one of the moment of the press.
Begin(i, u, by) ==
  /\ ~Active(i)
  /\ refreshes' = [refreshes EXCEPT ![i] = Refresh(by, u, << >>)]

Ends(i) == refreshes' = [refreshes EXCEPT ![i] = NoRefresh]

\* The buttons are disabled until the refresh after a transaction has ended.
busy == \E i \in DOMAIN refreshes : refreshes[i].by \in {"press", "sent"}

Shown == Buttons(slot, {f.is : f \in facts}, loadFailed)

Offered == IF busy THEN {} ELSE Shown

\* One request is answered.
Read(i, field) ==
  /\ refreshes[i].by \in {"page", "sent"}
  /\ field \notin DOMAIN refreshes[i].got
  /\ before(field) \subseteq DOMAIN refreshes[i].got
  /\ refreshes' = [refreshes EXCEPT ![i] =
       Refresh(@.by, @.of, [x \in DOMAIN @.got \cup {field} |->
                              IF x = field THEN PoolFacts(@.of, isOperator(@.of))[x] ELSE @.got[x]])]
  /\ UNCHANGED <<vars, operators, slot, facts, loadFailed>>

\* All are: they are shown, whatever was shown before and whoever is connected.
Show(i) ==
  /\ Active(i) /\ DOMAIN refreshes[i].got = Fields
  /\ facts' = {[of |-> refreshes[i].of, is |-> refreshes[i].got]}
  /\ loadFailed' = FALSE
  /\ Ends(i)
  /\ UNCHANGED <<vars, operators, slot>>

Fail(i) ==
  /\ refreshes[i].by \in {"page", "sent"}
  /\ loadFailed' = TRUE
  /\ Ends(i)
  /\ UNCHANGED <<vars, operators, slot, facts>>

\* Any button of the saver, the host or the draw.
Press(i) ==
  /\ "withdrawAll" \in Offered
  /\ slot.address # NoAddress
  /\ Begin(i, slot.address, "press")
  /\ UNCHANGED <<vars, operators, slot, facts, loadFailed>>

\* The transaction of a press was mined, or declined or reverted: only then
\* nothing is read.
Sent(i) ==
  /\ refreshes[i].by = "press"
  /\ refreshes' = [refreshes EXCEPT ![i] = Refresh("sent", @.of, @.got)] \/ Ends(i)
  /\ UNCHANGED <<vars, operators, slot, facts, loadFailed>>

TryAgain(i) ==
  /\ "again" \in Offered
  /\ slot.address # NoAddress
  /\ Begin(i, slot.address, "page")
  /\ UNCHANGED <<vars, operators, slot, facts, loadFailed>>

-----------------------------------------------------------------------------
(* The slot *)

\* A status or an account that changed makes the page read again.
Becomes(next) ==
  /\ slot' = next
  /\ IF /\ next.status = "connected" /\ next.address # NoAddress
        /\ <<next.status, next.address>> # <<slot.status, slot.address>>
     THEN \E i \in DOMAIN refreshes : Begin(i, next.address, "page")
     ELSE UNCHANGED refreshes
  /\ UNCHANGED <<vars, operators, facts, loadFailed>>

\* The account and the chain are asked for again after the check of the network,
\* and may be other ones by then.
connectEthereum ==
  /\ "connectEvm" \in Offered
  /\ \/ Becomes([status |-> "missing", address |-> NoAddress, chainId |-> NoChain])
     \/ \E u \in Accounts \cup {NoAddress} :
          \/ Becomes([status |-> "connected", address |-> u, chainId |-> Sepolia])
          \/ \E chain \in {Sepolia, OtherChain} :
               Becomes([status |-> "wrongNetwork", address |-> u, chainId |-> chain])

switchToSepolia ==
  /\ "switchSepolia" \in Offered
  /\ \E u \in Accounts \cup {NoAddress}, chain \in {Sepolia, OtherChain} :
       Becomes([status |-> onNetwork(chain), address |-> u, chainId |-> chain])

\* A browser without an extension reports nothing.  disconnectEthereum, in the
\* menu, leaves what the first of the events does.
onEvent ==
  /\ slot.status # "missing"
  /\ \E event \in EvmEvents : Becomes(nextEvmState(slot, event))

-----------------------------------------------------------------------------
(* The specification *)

PageInit ==
  /\ Init
  /\ operators = {}
  /\ slot = DISCONNECTED
  /\ facts = {}
  /\ loadFailed = FALSE
  /\ refreshes = [i \in Refreshes |-> NoRefresh]

PageNext ==
  \/ Transactions
  \/ \E u \in Accounts, allowed \in BOOLEAN : setOperator(u, allowed)
  \/ connectEthereum \/ switchToSepolia \/ onEvent
  \/ \E i \in DOMAIN refreshes :
       \/ \E field \in Fields : Read(i, field)
       \/ Show(i) \/ Fail(i) \/ Press(i) \/ Sent(i) \/ TryAgain(i)

PageSpec == PageInit /\ [][PageNext]_pagevars

-----------------------------------------------------------------------------
(* Properties *)

\* What it shows later, read in pieces between everybody's transactions, keeps no
\* one from their money: of the account that was read, whoever is connected now,
\* a claim on offer works unless it was made since, and one that is not on offer
\* after the draw would be refused; and nothing that is closed, to a deposit, to
\* the owner or to one more saver, has opened again.
StaleOffers ==
  "withdrawAll" \in Shown =>
    \A f \in facts :
      /\ "claim" \in Shown => MayClaim(f.of) \/ f.of \in claimed
      /\ "claim" \notin Shown /\ f.is.roundState \in {"Drawn", "Claimable"} => ~MayClaim(f.of)
      /\ "deposit" \notin Shown => roundState # "Open"
      /\ f.is.isOwner /\ "lock" \notin Shown => roundState # "Open"
      /\ ~f.is.isParticipant /\ f.is.participantCount = MAX_PARTICIPANTS => ~DepositAccepted(f.of, TRUE)

\* "Only the pool owner sees these controls." (flow.ts:160): with nothing under
\* way, they are shown to the account they were read for, the owner of then.
OwnerOnly ==
  /\ \A i \in DOMAIN refreshes : ~Active(i)
  /\ Shown \cap {"fund", "lock", "draw"} # {} /\ slot.address # NoAddress
  => \A f \in facts : f.of = slot.address
=============================================================================
