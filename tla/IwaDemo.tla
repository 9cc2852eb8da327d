------------------------------ MODULE IwaDemo ------------------------------
(***************************************************************************)
(* The demo scripts of scripts/demo: one operator account that holds every *)
(* member of a circle drives it through prepare, deposit, contribute and   *)
(* payout, one process each, with run-state.json as the only memory        *)
(* between them.  A process can die, or lose an answer of the node, at any *)
(* await; the transaction it has sent goes on without it.                  *)
(*                                                                         *)
(* A transaction knows how many blocks ago it was included, up to the      *)
(* proving window; amounts count contributions of one unit.  A dry run     *)
(* sends and writes nothing and is left out, and so is the preflight,      *)
(* which either ends a script before it reads anything or changes nothing. *)
(***************************************************************************)
EXTENDS Naturals, Sequences, FiniteSets, FiniteSetsExt

CONSTANTS Order,                    \* the members, in payout order
          PROVING_BLOCK_BACKOFF,    \* 10 in run.mjs
          Funds,                    \* USDC in the operator's account
          MaxCircles, MaxTxs, MaxCrashes, MaxDonations   \* bounds of a run

\* A number of blocks.
ASSUME DemoAssumption == PROVING_BLOCK_BACKOFF \in Nat

VARIABLES
  circles,    \* the circles the account created on chain, by id
  tokens,     \* USDC left in the account, allowances of the pool, helper surplus
  txs,        \* the transactions sent, in order, with what became of them
  state,      \* run-state.json
  script,     \* the process that runs, and how far it is
  died,       \* the scripts that died on the way
  donations

chain == <<circles, tokens>>
vars  == <<circles, tokens, txs, state, script, died, donations>>

memberLimit == Len(Order)
Members     == {Order[i] : i \in 1..memberLimit}
Rounds      == 1..memberLimit
CircleIds   == DOMAIN circles
Hashes      == DOMAIN txs

\* Deposit, one contribution per member, payout: each pulls the pool fee.
transactionPlan == memberLimit + 2
\* What 04 approves: the whole pot in USDC, the fee of every pool transaction.
computeFunding_bug_onefee == [usdc |-> memberLimit, strk |-> 1]

computeFunding == [usdc |-> memberLimit, strk |-> transactionPlan]

NoScript == [name |-> "none", at |-> "none", stage |-> "none"]
-----------------------------------------------------------------------------
(* What the scripts read of the chain.                                      *)

getContributionObligation(c, r, m) ==
  CASE <<r, m>> \in circles[c].paid   -> "OnTime"
    [] <<r, m>> \in circles[c].missed -> "MissedDefault"
    [] OTHER                          -> "Pending"

getPayoutState(c, r) == circles[c].claims[r]
\* The nonce of a contribution is its round, and is spent with it.
contributionNonce(r) == r
isContributionNonceConsumed(c, m, nonce) == <<nonce, m>> \in circles[c].paid
getHelperTokenLiability ==
  MapThenSumSet(LAMBDA c : Cardinality(circles[c].paid)
                           - memberLimit * Cardinality({r \in Rounds : getPayoutState(c, r) = "Paid"}),
                CircleIds)

Done(hs, label) == {h \in hs : txs[h].state = "done" /\ txs[h].label = label}
\* What the notes of the account hold, as of the transactions in hs.
Shielded(hs) == memberLimit * Cardinality(Done(hs, "deposit") \cup Done(hs, "payout"))
                - Cardinality(Done(hs, "contribution"))

\* The transactions a proof against head - 10 can see.
ProvingBase == {h \in Hashes : txs[h].state = "done" /\ txs[h].age >= PROVING_BLOCK_BACKOFF}

\* The latest of the recorded pool transactions, by its block.
Recorded == {h \in state.transactions : txs[h].kind = "pool"}
lastPoolTxBlock_bug_first == {h \in Recorded : \A k \in Recorded : h <= k}

lastPoolTxBlock == {h \in Recorded : \A k \in Recorded : txs[h].age <= txs[k].age}

waitForProvingWindow(since) == \A h \in since : txs[h].age > PROVING_BLOCK_BACKOFF
-----------------------------------------------------------------------------
(* 07 and 08: what is said of a run.                                        *)

\* A transaction that is not of the pool has no event of the pool.
TransactionVerified(h) == txs[h].state = "done" /\ txs[h].kind = "pool"

\* What 08 puts in its file.
Submission == {h \in Recorded : TransactionVerified(h)}

\* "Resulting IWA state" of 07; the liability of a round paid out is zero.
ResultingState ==
  /\ state.circleId # 0
  /\ \A m \in Members : getContributionObligation(state.circleId, 1, m) = "OnTime"
  /\ getPayoutState(state.circleId, 1) = "Paid"

VerificationPasses ==
  /\ Recorded # {}
  /\ \A h \in state.transactions : TransactionVerified(h)
  /\ ResultingState
-----------------------------------------------------------------------------
(* The scripts.                                                             *)

Init ==
  /\ circles = <<>>
  /\ tokens = [usdc |-> Funds, allowed |-> [usdc |-> 0, strk |-> 0], surplus |-> FALSE]
  /\ txs = <<>>
  /\ state = [circleId |-> 0, transactions |-> {}]
  /\ script = NoScript
  /\ died = {} /\ donations = 0

Stage(label, at) == [script EXCEPT !.stage = label, !.at = at]
Ends == script' = NoScript

\* A script reads before it sends, and throws on whatever it does not like:
\* a script that would only read and stop is not started here.  The run is
\* over with the state that 07 looks for.
Starts(name, m, label, at) ==
  /\ script = NoScript
  /\ Len(txs) < MaxTxs /\ ~ResultingState
  /\ script' = [name |-> name, at |-> at, stage |-> label, member |-> m, circle |-> state.circleId,
                round |-> IF label \in {"contribution", "finalize", "authorize", "payout"}
                          THEN circles[state.circleId].round ELSE 0,
                custody |-> getHelperTokenLiability, snapshot |-> state.transactions,
                since |-> {}, base |-> {}]
  /\ UNCHANGED <<chain, txs, state, died, donations>>

\* 00: with a circle recorded there is nothing left to do.
Prepare ==
  /\ state.circleId = 0
  /\ Len(circles) < MaxCircles
  /\ Starts("prepare", Order[1], "create_circle", "submit")

\* 04: enough in the account, then only the allowances that fall short.
Deposit ==
  /\ tokens.usdc >= computeFunding.usdc
  /\ IF tokens.allowed.usdc < computeFunding.usdc \/ tokens.allowed.strk < computeFunding.strk
     THEN Starts("deposit", Order[1], "approve", "submit")
     ELSE Starts("deposit", Order[1], "deposit", "wait")

\* 05: everything the helper and the circle will ask for, before a proof.
Contribute(m) ==
  LET c == state.circleId
      r == circles[c].round
  IN /\ c # 0
     /\ circles[c].status = "Active"
     /\ getContributionObligation(c, r, m) = "Pending"
     /\ ~isContributionNonceConsumed(c, m, contributionNonce(r))
     /\ ~tokens.surplus
     /\ Starts("contribute", m, "contribution", "wait")

\* 06: what to do about the claim of a round, by the status it has.  A claim
\* the helper's custody does not cover, or of another status, ends the script.
ClaimStage(status, custody) ==
  CASE status = "None" -> "finalize"
    [] custody < memberLimit -> "abort"
    [] status = "SettlementAuthorized" -> "payout"
    [] status \in {"Scheduled", "DeferredLocked"} -> "authorize"
    [] OTHER -> "abort"

Payout ==
  LET c == state.circleId
      r == circles[c].round
      label == ClaimStage(getPayoutState(c, r), getHelperTokenLiability)
  IN /\ c # 0
     /\ circles[c].status = "Active"
     /\ \A m \in Members : getContributionObligation(c, r, m) # "Pending"
     /\ label # "abort"
     /\ Starts("payout", Order[1], label, IF label = "payout" THEN "wait" ELSE "submit")
-----------------------------------------------------------------------------
(* Sending.                                                                 *)

Tx(kind) == [label |-> script.stage, kind |-> kind, circle |-> script.circle, round |-> script.round,
             member |-> script.member, state |-> "sent", age |-> 0, base |-> script.base]

submit ==
  /\ script.at = "submit"
  /\ txs' = Append(txs, Tx("transparent"))
  /\ script' = [script EXCEPT !.at = "receipt"]
  /\ UNCHANGED <<chain, state, died, donations>>

\* The window is counted from the last pool transaction of the run and from
\* the transparent one this proof has to see.
WaitAndProve ==
  /\ script.at = "wait"
  /\ waitForProvingWindow(script.since \cup lastPoolTxBlock)
  /\ IF \/ script.stage = "deposit" /\ ~(Done(Hashes, "approve") \subseteq ProvingBase)
        \/ script.stage = "contribution" /\ Shielded(ProvingBase) < 1
     THEN Ends
     ELSE script' = [script EXCEPT !.at = "broadcast", !.base = ProvingBase]
  /\ UNCHANGED <<chain, txs, state, died, donations>>

submitPoolTx ==
  /\ script.at = "broadcast"
  /\ txs' = Append(txs, Tx("pool"))
  /\ script' = [script EXCEPT !.at = "receipt"]
  /\ UNCHANGED <<chain, state, died, donations>>

recordTransaction(h) == [state EXCEPT !.transactions = @ \cup {h}]

\* The first circle of ours that is open, in the order of the ids: the circle
\* just created, or one that a prepare that died left without all its members.
resolveNewCircleId == Min({c \in CircleIds : circles[c].status = "OpenForMembers"})

\* The script reads the claim again after each transparent stage.
AfterStage(h) ==
  LET label == ClaimStage(getPayoutState(script.circle, script.round), script.custody)
  IN CASE label = "payout" -> [Stage("payout", "wait") EXCEPT !.since = {h}]
       [] label = "authorize" /\ script.stage = "finalize" -> Stage("authorize", "submit")
       [] OTHER -> NoScript

\* The members that have not had their join sent, in order.
NextJoin(i) == [Stage("join", "submit") EXCEPT !.member = Order[i]]

\* A transaction that reverted changed nothing: it is forgotten with the
\* script that sees it, which throws.
Receipt ==
  /\ script.at = "receipt"
  /\ LET h == Len(txs) IN
     /\ txs[h].state # "sent"
     /\ \/ /\ txs[h].state = "reverted"
           /\ Ends
           /\ txs' = SubSeq(txs, 1, h - 1)
           /\ UNCHANGED state
        \/ /\ txs[h].state = "done"
           /\ UNCHANGED txs
           /\ CASE script.stage = "create_circle" ->
                     /\ state' = [circleId |-> resolveNewCircleId, transactions |-> script.snapshot]
                     /\ script' = [NextJoin(1) EXCEPT !.circle = resolveNewCircleId]
                [] script.stage = "join" ->
                     /\ state' = recordTransaction(h)
                     /\ LET i == CHOOSE k \in 1..memberLimit : Order[k] = script.member IN
                        IF i = memberLimit THEN Ends ELSE script' = NextJoin(i + 1)
                [] script.stage = "approve" ->
                     /\ state' = recordTransaction(h)
                     /\ script' = [Stage("deposit", "wait") EXCEPT !.since = {h}]
                [] script.stage \in {"finalize", "authorize"} ->
                     state' = recordTransaction(h) /\ script' = AfterStage(h)
                [] OTHER -> state' = recordTransaction(h) /\ Ends
  /\ UNCHANGED <<chain, died, donations>>

\* The process dies, or the node does not answer it: what it sent stays sent.
Crash ==
  /\ script # NoScript
  /\ script.name \notin died /\ Cardinality(died) < MaxCrashes
  /\ died' = died \cup {script.name}
  /\ Ends
  /\ UNCHANGED <<chain, txs, state, donations>>
-----------------------------------------------------------------------------
(* The chain: the circle contract, the helper and the privacy pool.         *)

NewCircle == [status |-> "OpenForMembers", joined |-> {}, round |-> 0, paid |-> {}, missed |-> {},
              claims |-> [r \in Rounds |-> "None"]]

\* A proof that does not show an earlier transaction of the account is stale.
ProofHolds(t) == /\ {h \in Hashes : txs[h].kind = "pool" /\ txs[h].state = "done"} \subseteq t.base
                 /\ tokens.allowed.strk > 0

FeePaid == [tokens EXCEPT !.allowed.strk = @ - 1]

Accepted(t) ==
  LET c == t.circle
      r == t.round
  IN CASE t.label = "create_circle" -> TRUE
       [] t.label = "approve" -> TRUE
       [] t.label = "join" -> circles[c].status = "OpenForMembers" /\ t.member \notin circles[c].joined
       [] t.label = "finalize" -> /\ circles[c].round = r /\ getPayoutState(c, r) = "None"
                                  /\ \A m \in Members : getContributionObligation(c, r, m) # "Pending"
       [] t.label = "authorize" -> getPayoutState(c, r) = "Scheduled"
       [] t.label = "deposit" -> /\ ProofHolds(t) /\ tokens.usdc >= memberLimit
                                 /\ tokens.allowed.usdc >= memberLimit
       [] t.label = "contribution" -> /\ ProofHolds(t) /\ ~tokens.surplus
                                      /\ getContributionObligation(c, r, t.member) = "Pending"
       [] t.label = "payout" -> ProofHolds(t) /\ getPayoutState(c, r) = "SettlementAuthorized"

Joined(c, m) ==
  LET all == circles[c].joined \cup {m} = Members IN
  [circles EXCEPT ![c].joined = @ \cup {m}, ![c].status = IF all THEN "Active" ELSE @,
                  ![c].round = IF all THEN 1 ELSE @]

Finalized(c, r) ==
  [circles EXCEPT ![c].claims[r] = IF \E m \in Members : <<r, m>> \in circles[c].missed
                                   THEN "DeferredLocked" ELSE "Scheduled",
                  ![c].round = IF r < memberLimit THEN r + 1 ELSE r]

Effect(t) ==
  LET c == t.circle
      r == t.round
  IN /\ circles' = CASE t.label = "create_circle" -> Append(circles, NewCircle)
                     [] t.label = "join"          -> Joined(c, t.member)
                     [] t.label = "finalize"      -> Finalized(c, r)
                     [] t.label = "authorize"     -> [circles EXCEPT ![c].claims[r] = "SettlementAuthorized"]
                     [] t.label = "contribution"  -> [circles EXCEPT ![c].paid = @ \cup {<<r, t.member>>}]
                     [] t.label = "payout"        -> [circles EXCEPT ![c].claims[r] = "Paid"]
                     [] OTHER                     -> circles
     /\ tokens' = CASE t.label = "approve" -> [tokens EXCEPT !.allowed = computeFunding]
                    [] t.label = "deposit" -> [FeePaid EXCEPT !.usdc = @ - memberLimit,
                                                              !.allowed.usdc = @ - memberLimit]
                    [] t.kind = "pool"     -> FeePaid
                    [] OTHER               -> tokens

\* Nothing waits for a creation or a join to be old enough.
AgeMatters == {"approve", "deposit", "contribution", "finalize", "authorize", "payout"}
Old == PROVING_BLOCK_BACKOFF + 1

\* The oldest transaction on its way is included, whether it succeeds or not.
Included ==
  \E h \in Hashes :
    /\ txs[h].state = "sent"
    /\ \A k \in 1..(h - 1) : txs[k].state # "sent"
    /\ \/ /\ Accepted(txs[h])
          /\ Effect(txs[h])
          /\ txs' = [txs EXCEPT ![h].state = "done",
                                ![h].age = IF txs[h].label \in AgeMatters THEN 0 ELSE Old]
       \/ ~Accepted(txs[h]) /\ UNCHANGED chain /\ txs' = [txs EXCEPT ![h].state = "reverted"]
    /\ UNCHANGED <<state, script, died, donations>>

\* Another block.  Ages matter up to the proving window, and only while a
\* script waits for it: a block that comes earlier would come then as well.
Block ==
  /\ script.at = "wait"
  /\ txs' = [h \in Hashes |-> IF txs[h].state = "done" /\ txs[h].age < Old
                              THEN [txs[h] EXCEPT !.age = @ + 1] ELSE txs[h]]
  /\ UNCHANGED <<chain, state, script, died, donations>>

\* Anyone defaults a member past the grace period.
Default(c, m) ==
  /\ circles[c].status = "Active"
  /\ getContributionObligation(c, circles[c].round, m) = "Pending"
  /\ circles' = [circles EXCEPT ![c].missed = @ \cup {<<circles[c].round, m>>}]
  /\ UNCHANGED <<tokens, txs, state, script, died, donations>>

Donate ==
  /\ donations < MaxDonations /\ ~tokens.surplus
  /\ tokens' = [tokens EXCEPT !.surplus = TRUE]
  /\ donations' = donations + 1
  /\ UNCHANGED <<circles, txs, state, script, died>>

normalize_surplus ==
  /\ tokens.surplus
  /\ tokens' = [tokens EXCEPT !.surplus = FALSE]
  /\ UNCHANGED <<circles, txs, state, script, died, donations>>
-----------------------------------------------------------------------------
ScriptStep == submit \/ WaitAndProve \/ submitPoolTx \/ Receipt

Next ==
  \/ Prepare \/ Deposit \/ Payout
  \/ \E m \in Members : Contribute(m)
  \/ ScriptStep
  \/ Crash
  \/ Included \/ Block \/ Donate \/ normalize_surplus
  \/ \E c \in CircleIds, m \in Members : Default(c, m)

Spec == Init /\ [][Next]_vars

\* Blocks come, transactions are included and a process that lives goes on;
\* somebody normalizes the helper; and the operator keeps running the scripts
\* that are left, as their README lists them.
FairSpec ==
  /\ Spec
  /\ SF_vars(Block) /\ WF_vars(Included) /\ WF_vars(ScriptStep) /\ WF_vars(normalize_surplus)
  /\ SF_vars(Prepare) /\ SF_vars(Deposit) /\ SF_vars(Payout)
  /\ \A m \in Members : SF_vars(Contribute(m))
-----------------------------------------------------------------------------
(* Properties.                                                              *)

\* The scripts are separate processes, and a proof must show every earlier
\* pool transaction of the account: without a crash, what run-state.json
\* records is enough for every proof that is sent to be against a block that
\* shows them all, so that no pool transaction is refused for its age.
ProofsSeeTheRun ==
  died = {} =>
    \A h \in Hashes : txs[h].kind = "pool" =>
      \A k \in 1..(h - 1) : txs[k].kind = "pool" /\ txs[k].state = "done" => k \in txs[h].base

\* The scripts are run whenever and however often, anything is donated to the
\* helper meanwhile, and a deposit or a contribution may be cut off at any
\* await, before or after what it sent is included: unless a member defaults,
\* the run ends with a round paid out, on one approval for all the pool
\* transactions of the plan; and with every one of them in the submission, if
\* no process died between sending and recording one.
RunCompletes ==
  <>(\/ ResultingState /\ (died = {} => Cardinality(Submission) >= transactionPlan)
     \/ died \cap {"prepare", "payout"} # {}
     \/ \E c \in CircleIds : circles[c].missed # {})

\* README.md:94 of the scripts: "the circle id and every submitted hash".
\* Prepare writes the run state it read before it sent anything, without the
\* creation that submit has recorded meanwhile (00_prepare.mjs:105-106).
EverySubmittedRecorded ==
  script = NoScript /\ died = {} =>
    \A h \in Hashes : txs[h].state = "done" => h \in state.transactions

\* The branches of 06 for a claim that exists already are there for a run that
\* was interrupted; finalization has moved current_round on, and the script
\* looks at the claim of the current round only.  Prepare, cut off between two
\* joins, refuses to go on as well.
InterruptedRunCompletes ==
  <>((\E c \in CircleIds : circles[c].missed # {}) \/ ResultingState)

\* 07_verify.mjs:4, "Each recorded pool transaction is checked": 07 asks every
\* recorded transaction for an event of the pool, the joins, the approvals, the
\* finalization and the authorization included, which emit none (:61, :96).  It
\* fails a run in which nothing went wrong.
GoodRunVerifies == (died = {} /\ script = NoScript /\ ResultingState) => VerificationPasses
=============================================================================
