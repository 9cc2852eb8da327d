------------------------------ MODULE IwaConsole ------------------------------
(***************************************************************************)
(* The STRK20 console, iwa-web/src/screens/Strk20ConsoleView.tsx over      *)
(* chains/strk20: an operator shields USDC and sends the contributions of  *)
(* the members, one private transaction each, in one round of a circle.    *)
(*                                                                         *)
(* What the screen holds are copies of the chain, read at different times  *)
(* and kept until the next reading.  A wallet call is slow, and may fail   *)
(* after the network took the transaction.  Other tabs and wallets send    *)
(* contributions too.  The balances and the surplus of the helper are      *)
(* anybody's to change, so a reading gives any value that a gate tells     *)
(* apart (no allowance too small for both plans), and the pool takes or    *)
(* refuses a transaction for reasons the model does not keep.  Left out:   *)
(* transparent USDC and the registration, which gate as the allowance      *)
(* does, the blocks the note still needs to mature, and dry builds.        *)
(* The circle is the one the console was given, active, and the members    *)
(* are given again whenever a disconnection dropped them.                  *)
(***************************************************************************)
EXTENDS Naturals, Sequences, FiniteSets, TLC

CONSTANTS
  Members,               \* labels of the members the console is given
  Unread,                \* null
  MaxSent                \* bound: transactions of the pool

ASSUME ConsoleAssumption ==
  /\ Unread \notin Members /\ MaxSent \in Nat

VARIABLES
  obligation,            \* on chain: of each member, in the current round
  sent,                  \* transactions of the pool, by hash
  screen,                \* what the console shows
  txs,                   \* the transactions it recorded
  op                     \* the operation under way, which disables the buttons

onchain     == <<obligation, sent>>
consolevars == <<onchain, screen, txs, op>>

memberLimit == Cardinality(Members)

\* Statuses: Pending, and Settled, which is OnTime or LateWithinGrace.  The grace
\* period does not end: a missed contribution is only refused everywhere.
Pending == "Pending"
Settled == "Settled"

\* Of no member: a transaction that shields.
Shield == Unread

Idle == [kind |-> "idle"]

-----------------------------------------------------------------------------
(* The chain *)

Send(m) ==
  /\ Len(sent) < MaxSent
  /\ sent' = Append(sent, [of |-> m, result |-> "pending"])

\* What the pool, the helper and the circle do with a transaction, atomically.
Accept(i) ==
  /\ sent[i].result = "pending"
  /\ LET m == sent[i].of
     IN  \/ /\ m \in Members => obligation[m] = Pending
            /\ sent' = [sent EXCEPT ![i].result = "SUCCEEDED"]
            /\ obligation' = [n \in Members |-> IF n = m THEN Settled ELSE obligation[n]]
         \/ /\ sent' = [sent EXCEPT ![i].result = "REVERTED"]
            /\ UNCHANGED obligation
  /\ UNCHANGED <<screen, txs, op>>

\* The same members in another tab.
SentElsewhere ==
  /\ \E m \in Members : Send(m)
  /\ UNCHANGED <<obligation, screen, txs, op>>

-----------------------------------------------------------------------------
(* What the screen derives *)

\* One sent here, or one imported from the wallet.
shieldCompleted == screen.shieldSent \/ screen.imported = "shield"

\* A shield that was sent here, or else whatever was last imported, has a block.
effectiveShieldBlock == screen.shieldSent \/ screen.imported # Unread

\* The plan is for the whole run, whatever of it is done, in pool fees and in
\* contributions.
computeFunding ==
  [strkApprovalRequired |-> IF shieldCompleted THEN memberLimit ELSE 1 + memberLimit,
   shieldedUsdcRequired |-> memberLimit]

\* Balances that were not read yet have no shortfall.
computeShortfalls ==
  /\ screen.allowance # Unread
  /\ \/ screen.allowance < computeFunding.strkApprovalRequired
     \/ /\ shieldCompleted
        /\ screen.shielded = Unread \/ screen.shielded < computeFunding.shieldedUsdcRequired

\* No blocker is left for this member.
MayContribute(m) ==
  /\ screen.wallet
  /\ screen.shielded # Unread /\ screen.shielded >= computeFunding.shieldedUsdcRequired
  /\ shieldCompleted /\ effectiveShieldBlock
  /\ screen.obligations # Unread /\ screen.obligations[m] = Pending
  /\ screen.noSurplus
  /\ screen.allowance # Unread /\ screen.allowance >= computeFunding.strkApprovalRequired

hasContributed(m) == screen.obligations # Unread /\ screen.obligations[m] = Settled

-----------------------------------------------------------------------------
(* What the screen offers, a step of the page after the other: the buttons   *)
(* that are shown and not disabled.  Nearly all are while something runs.    *)

button(name, offered) == IF offered /\ op = Idle THEN {name} ELSE {}

\* Disconnecting is never disabled.
WalletStep == IF screen.wallet THEN {"disconnect"} ELSE button("connect", TRUE)

FundingStep ==
  button("read balance", screen.wallet) \cup button("approve", screen.wallet)

CircleStep == button("load circle", TRUE)

ShieldStep ==
  button("import shield", TRUE)
    \cup button("shield", ~shieldCompleted /\ screen.wallet /\ ~computeShortfalls)

\* Recovering is offered of a settled contribution of which the screen has no
\* transaction at all.
ContributionStep(m) ==
  button("contribute", MayContribute(m))
    \cup button("recover", hasContributed(m) /\ ~(\E t \in txs : t.label = m) /\ effectiveShieldBlock)

confirmedPoolHashes == {t.hash : t \in {u \in txs : u.verification = "SUCCEEDED"}}

VerifyStep == button("verify all", txs # {})

\* The badge of the last step.
VerifyStatus == IF Cardinality(confirmedPoolHashes) >= 1 + memberLimit THEN "ok" ELSE "wait"

-----------------------------------------------------------------------------
(* Operations *)

\* The buttons are disabled while one runs.  m is the member it is about, hash
\* what it sent, and settled whether the obligation of m was settled when the
\* button was pressed, which the screen does not know.
run(kind, step, m) ==
  /\ op = Idle
  /\ op' = [kind |-> kind, step |-> step, m |-> m, hash |-> 0,
            settled |-> m \in Members /\ obligation[m] = Settled]

At(kind, step) == op.kind = kind /\ op.step = step

Go(step) == op' = [op EXCEPT !.step = step]

Set(fields) == screen' = [f \in DOMAIN screen |-> IF f \in DOMAIN fields THEN fields[f] ELSE screen[f]]

\* An operation that throws shows why, and keeps what it has set so far.
Throws ==
  /\ op # Idle
  /\ op' = Idle
  /\ UNCHANGED <<onchain, screen, txs>>

\* The allowance, the surplus and the balances.
refreshFunding ==
  /\ op # Idle /\ op.step = "refresh"
  /\ \E a \in {memberLimit, memberLimit + 1}, clear \in BOOLEAN :
       Set([allowance |-> a, noSurplus |-> clear])
  /\ op' = Idle
  /\ UNCHANGED <<onchain, txs>>

onConnect ==
  /\ "connect" \in WalletStep
  /\ run("connect", "refresh", Unread)
  /\ Set([wallet |-> TRUE])
  /\ UNCHANGED <<onchain, txs>>

\* Stops no operation.  What the shield left, the allowance and the transactions
\* stay.
onDisconnect ==
  /\ "disconnect" \in WalletStep
  /\ Set([wallet |-> FALSE, obligations |-> Unread, shielded |-> Unread])
  /\ UNCHANGED <<onchain, txs, op>>

\* The funding is read again after an approval, and on demand.
onApproveStrk ==
  /\ "approve" \in FundingStep
  /\ run("approve", "refresh", Unread)
  /\ UNCHANGED <<onchain, screen, txs>>

\* The answer of the wallet may come after a disconnection.
onReadShieldedBalance ==
  \/ /\ "read balance" \in FundingStep /\ run("balance", "read", Unread)
     /\ UNCHANGED <<onchain, screen, txs>>
  \/ /\ At("balance", "read")
     /\ \E n \in {0, memberLimit} : Set([shielded |-> n])
     /\ op' = Idle
     /\ UNCHANGED <<onchain, txs>>

\* The obligations are read one after the other and shown together; nothing
\* depends on their being of one moment.
onLoadCircle ==
  \/ /\ "load circle" \in CircleStep /\ run("load", "obligations", Unread)
     /\ UNCHANGED <<onchain, screen, txs>>
  \/ /\ At("load", "obligations")
     /\ Set([obligations |-> obligation])
     /\ Go("surplus")
     /\ UNCHANGED <<onchain, txs>>
  \/ /\ At("load", "surplus")
     /\ \E clear \in BOOLEAN : Set([noSurplus |-> clear])
     /\ op' = Idle
     /\ UNCHANGED <<onchain, txs>>

-----------------------------------------------------------------------------
(* Receipts *)

Record(hash, m, verification) ==
  txs' = IF \E t \in txs : t.hash = hash THEN txs
         ELSE txs \cup {[hash |-> hash, label |-> m, verification |-> verification]}

verifyTransaction_bug_found(i) ==
  IF sent[i].result = "pending" THEN "not found" ELSE "SUCCEEDED"

\* A transaction that is not in a block has no receipt.
verifyTransaction(i) == IF sent[i].result = "pending" THEN "not found" ELSE sent[i].result

\* What is asked for is an event of the USDC contract that names the pool.  A
\* contribution has one too, of the USDC that the pool pays out to the helper, and
\* passes as a shield.
verifyShieldTransaction(i) == verifyTransaction(i) = "SUCCEEDED"

\* The operator gives any hash.  A rejected import takes the place of an accepted one.
onImportShield ==
  /\ "import shield" \in ShieldStep
  /\ \E i \in DOMAIN sent :
       /\ Set([imported |-> CASE verifyShieldTransaction(i)        -> "shield"
                              [] verifyTransaction(i) = "not found" -> Unread
                              [] OTHER                              -> "rejected"])
       /\ IF verifyShieldTransaction(i) THEN Record(i, Shield, verifyTransaction(i)) ELSE UNCHANGED txs
  /\ UNCHANGED <<onchain, op>>

\* The events of the circle for this member; the search may start after them.
findContributionTransaction(m) ==
  {i \in DOMAIN sent : sent[i].of = m /\ sent[i].result = "SUCCEEDED"}

onRecoverContribution ==
  /\ \E m \in Members :
       /\ "recover" \in ContributionStep(m)
       /\ \E i \in findContributionTransaction(m) : Record(i, m, verifyTransaction(i))
  /\ UNCHANGED <<onchain, screen, op>>

\* The obligations are read again if the circle was loaded.
onVerifyAll ==
  \/ /\ "verify all" \in VerifyStep
     /\ txs' = {[t EXCEPT !.verification = verifyTransaction(t.hash)] : t \in txs}
     /\ IF screen.obligations # Unread THEN run("verify", "obligations", Unread)
        ELSE UNCHANGED op
     /\ UNCHANGED <<onchain, screen>>
  \/ /\ At("verify", "obligations")
     /\ Set([obligations |-> obligation])
     /\ op' = Idle
     /\ UNCHANGED <<onchain, txs>>

-----------------------------------------------------------------------------
(* Transactions of the pool *)

onShield ==
  /\ "shield" \in ShieldStep
  /\ run("shield", "send", Shield)
  /\ UNCHANGED <<onchain, screen, txs>>

onContribute ==
  /\ \E m \in Members : "contribute" \in ContributionStep(m) /\ run("contribution", "obligation", m)
  /\ UNCHANGED <<onchain, screen, txs>>

contributionFor_bug_stale ==
  /\ At("contribution", "obligation")
  /\ Go("send")
  /\ UNCHANGED <<onchain, screen, txs>>

\* Whatever the screen shows, the obligation, the nonce and the surplus are read
\* again, one after the other, before anything is signed.
contributionFor ==
  /\ op.kind = "contribution"
  /\ \/ op.step = "obligation" /\ obligation[op.m] = Pending /\ Go("nonce")
     \/ op.step = "nonce" /\ obligation[op.m] # Settled /\ Go("surplus")
     \/ op.step = "surplus" /\ Go("send")
  /\ UNCHANGED <<onchain, screen, txs>>

\* The wallet takes the transaction.  It may still fail to answer with its hash
\* (Throws), and the network may take long, or never take it.
submit ==
  /\ op # Idle /\ op.step = "send"
  /\ Send(op.m)
  /\ op' = [op EXCEPT !.step = "wallet", !.hash = Len(sent')]
  /\ UNCHANGED <<obligation, screen, txs>>

\* A shield is counted from the block of now.
Submitted ==
  /\ op # Idle /\ op.step = "wallet"
  /\ Record(op.hash, op.m, "none")
  /\ IF op.kind = "shield" THEN Set([shieldSent |-> TRUE]) ELSE UNCHANGED screen
  /\ Go("refresh")
  /\ UNCHANGED onchain

-----------------------------------------------------------------------------
(* The specification *)

\* A new page.  The wallet may have shielded by itself before.
ConsoleInit ==
  /\ obligation = [m \in Members |-> Pending]
  /\ sent \in {<< >>, <<[of |-> Shield, result |-> "SUCCEEDED"]>>}
  /\ screen = [wallet |-> FALSE, obligations |-> Unread,
               shielded |-> Unread, allowance |-> Unread, noSurplus |-> FALSE,
               shieldSent |-> FALSE, imported |-> Unread]
  /\ txs = {}
  /\ op = Idle

ConsoleNext ==
  \/ \E i \in DOMAIN sent : Accept(i)
  \/ SentElsewhere
  \/ Throws \/ refreshFunding \/ onConnect \/ onDisconnect
  \/ onApproveStrk \/ onReadShieldedBalance \/ onLoadCircle
  \/ onImportShield \/ onRecoverContribution \/ onVerifyAll
  \/ onShield \/ onContribute \/ contributionFor \/ submit \/ Submitted

ConsoleSpec == ConsoleInit /\ [][ConsoleNext]_consolevars

Symmetry == Permutations(Members)

-----------------------------------------------------------------------------
(* Properties *)

\* "A hash that exists is not evidence" (publicReads.ts:366) and "it can only
\* report a hash the contract actually emitted" (Strk20ConsoleView.tsx:756):
\* among timed out calls, retries that revert, other tabs and recoveries, a
\* transaction the console shows as a confirmed contribution of a member is the
\* one that settled that member's obligation, and there is one at most.
ConfirmedIsSettled ==
  \A t \in txs : t.verification = "SUCCEEDED" /\ t.label \in Members =>
    /\ obligation[t.label] = Settled
    /\ sent[t.hash].of = t.label /\ sent[t.hash].result = "SUCCEEDED"
    /\ \A u \in txs : u.label = t.label /\ u.verification = "SUCCEEDED" => u = t

\* "confirmed pool transactions 3 / 3" (Strk20ConsoleView.tsx:1320): the badge of
\* the last step says the run is done.
DoneIsDone == VerifyStatus = "ok" => \A m \in Members : obligation[m] = Settled

\* "proves it really shielded USDC" (Strk20ConsoleView.tsx:583) and "imported shield
\* verified: USDC moved into the pool" (Strk20ConsoleView.tsx:603): what the console
\* recorded as the shield is one.  No run checks it, as it does not hold: the hash of
\* a contribution is accepted, and recovering the member it settled then adds
\* nothing.
ShieldIsShield == \A t \in txs : t.label = Shield => sent[t.hash].of = Shield

\* "the settled state, not the client, is the source of truth": nothing is sent
\* for a contribution that had settled when the button was pressed, however old
\* what the screen shows, and whichever call of the wallet seemed to fail.
NothingSentAgain ==
  [][op # Idle /\ op.step = "send" /\ sent' # sent /\ op' # op => ~op.settled]_consolevars
=============================================================================
