----------------------------- MODULE IwaDashboard -----------------------------
(***************************************************************************)
(* The operator's dashboard over the drafts service and its organizer:     *)
(* iwa-web/src/screens/AdminView.tsx with lib/adminView.ts, the route      *)
(* POST /api/admin/overview of backend/src/app.ts, coordinationCounts of   *)
(* pgStore.ts and RpcChainHealth of chainVerify.ts.                        *)
(*                                                                         *)
(* A report is put together from three queries in no transaction, and two  *)
(* questions to the node, while organizers and members go on, and it may   *)
(* be shown long after.  The wallet may change at any point of it.         *)
(*                                                                         *)
(* Figures that never change (addresses, the network, the security         *)
(* section) and the ages that only choose a tone are left out.             *)
(***************************************************************************)
EXTENDS IwaOrganizer

CONSTANTS
  Wallets,           \* wallets that open the page
  Operators,         \* those ADMIN_ADDRESSES names
  NoWallet,
  Reads,             \* overviews under way at a time
  rpcConfigured      \* the service was given an RPC endpoint

ASSUME DashboardAssumption ==
  Operators \subseteq Wallets /\ NoWallet \notin Wallets /\ rpcConfigured \in BOOLEAN

VARIABLES
  indexed_circles,   \* circles the indexer has recorded
  address,           \* the wallet connected in the operator's tab
  state,             \* what the screen shows
  overview           \* each read: who asked, and what it has found so far

dashvars == <<orgvars, indexed_circles, address, state, overview>>
others   == <<orgvars, indexed_circles>>

NotAsked == [stage |-> "none"]

-----------------------------------------------------------------------------
(* coordinationCounts: three queries, each of one snapshot *)

WithStatus(status) == {d \in Drafts : circle_drafts[d].status = status}

AcceptedPlaces == {p \in Drafts \X Slots : Exists(p[1]) /\ member_ref[p[1]][p[2]] # NotTaken}

Recorded == {circle_drafts[d].circle_id : d \in Drafts} \ {NoCircle}

\* No draft is ever abandoned: nothing in the service sets that status.
CountDrafts ==
  [draftsTotal |-> Cardinality({d \in Drafts : Exists(d)}),
   draftsCollecting |-> Cardinality(WithStatus("draft")),
   draftsReady |-> Cardinality(WithStatus("ready")),
   draftsCreated |-> Cardinality(WithStatus("created")),
   placesTotal |-> MEMBER_COUNT * Cardinality({d \in Drafts : Exists(d)}),
   createdWithoutCircleId |->
     Cardinality({d \in WithStatus("created") : circle_drafts[d].circle_id = NoCircle})]

CountPlaces == [placesAccepted |-> Cardinality(AcceptedPlaces)]

CountCircles ==
  [indexedCircles |-> Cardinality(indexed_circles),
   unrecordedChainCircles |-> Cardinality(indexed_circles \ Recorded)]

\* The fields of both records, from the first where it has them.
Together(f, g) ==
  [x \in DOMAIN f \cup DOMAIN g |-> IF x \in DOMAIN f THEN f[x] ELSE g[x]]

Queries == <<"drafts", "places", "circles">>

\* The three awaited together instead of one after the other.
Due_bug_all(o) == Range(Queries) \ o.answered

\* The query a read makes next.
Due(o) == {Queries[i] : i \in {j \in 1..3 : Cardinality(o.answered) = j - 1}}

\* What the node may be found to be: the circle contract is asked only if the
\* node answered.
Health ==
  {h \in [rpcReachable : BOOLEAN, circleReadOk : BOOLEAN] : h.circleReadOk => h.rpcReachable}

-----------------------------------------------------------------------------
(* lib/adminView.ts *)

\* Math.round((n / d) * 100), where there is something to divide by: the row is
\* there or it is not.
Rate(n, d) == {(200 * n + d) \div (2 * k) : k \in {d} \ {0}}

overviewSection(facts) ==
  [rpc |-> <<rpcConfigured, facts.rpcReachable>>,
   drafts |-> facts.draftsTotal, created |-> facts.draftsCreated,
   places |-> <<facts.placesAccepted, facts.placesTotal>>]

businessSection(facts) ==
  [acceptance |-> Rate(facts.placesAccepted, facts.placesTotal),
   completion |-> Rate(facts.draftsCreated, facts.draftsTotal),
   indexed |-> facts.indexedCircles]

\* What an operator might have to look into.  The counts come with the answer
\* only if the database gave them, so "database" is never among the items.
operationsOf(facts) ==
  LET item(key, shown) == IF shown THEN {key} ELSE {}
  IN  item("rpc-missing", ~rpcConfigured)
        \cup item("rpc", rpcConfigured /\ ~facts.rpcReachable)
        \cup item("circle-read", rpcConfigured /\ facts.rpcReachable /\ ~facts.circleReadOk)
        \cup item("unrecorded", facts.unrecordedChainCircles > 0)
        \cup item("created-without-id", facts.createdWithoutCircleId > 0)
        \cup item("ready", facts.draftsReady > 0)
        \cup item("collecting", facts.draftsCollecting > 0)

adminReport(facts) ==
  [overview |-> overviewSection(facts), business |-> businessSection(facts),
   circleRead |-> facts.circleReadOk, operations |-> operationsOf(facts)]

-----------------------------------------------------------------------------
(* The tab *)

\* The buttons of the screen: the read is offered before, after a failure and
\* over a report; never while one is loading or to a wallet that was refused.
Offered ==
  IF address = NoWallet THEN {"connect"}
  ELSE CASE state.kind \in {"idle", "failed", "ready"} -> {"load"}
         [] state.kind = "forbidden" -> {"home"}
         [] OTHER -> {}

\* Another account, or none: the report is forgotten.  A read goes on.
WalletChanges(w) ==
  /\ w # address
  /\ address' = w
  /\ state' = [kind |-> "idle"]
  /\ UNCHANGED <<others, overview>>

load(r) ==
  /\ "load" \in Offered
  /\ overview[r] = NotAsked
  /\ state' = [kind |-> "loading"]
  /\ overview' = [overview EXCEPT ![r] = [stage |-> "signing", by |-> address]]
  /\ UNCHANGED <<others, address>>

allows_bug_any(w) == TRUE

allows(w) == w \in Operators

\* The wallet of the tab is asked to sign for the address that was connected
\* when the button was pressed; the service takes no other signature.
Authenticate(r) ==
  /\ overview[r].stage = "signing"
  /\ address = overview[r].by
  /\ \/ /\ allows(address)
        /\ overview' = [overview EXCEPT ![r] =
             [stage |-> "counting", by |-> address, answered |-> {}, counts |-> << >>]]
     \/ /\ ~allows(address)
        /\ overview' = [overview EXCEPT ![r] = [stage |-> "not_admin"]]
  /\ UNCHANGED <<others, address, state>>

coordinationCounts(r, query) ==
  LET o      == overview[r]
      answer == CASE query = "drafts"  -> CountDrafts
                  [] query = "places"  -> CountPlaces
                  [] query = "circles" -> CountCircles
  IN  /\ o.stage = "counting"
      /\ query \in Due(o)
      /\ overview' = [overview EXCEPT ![r].answered = @ \cup {query}, ![r].counts = Together(answer, @)]
      /\ UNCHANGED <<others, address, state>>

\* The answer is shown to whoever is connected when it comes.
ShowOverview(r) ==
  LET o == overview[r]
  IN  /\ o.stage = "counting" /\ o.answered = Range(Queries)
      /\ \E h \in Health : state' = [kind |-> "ready", by |-> o.by, facts |-> Together(h, o.counts)]
      /\ overview' = [overview EXCEPT ![r] = NotAsked]
      /\ UNCHANGED <<others, address>>

ShowForbidden(r) ==
  /\ overview[r].stage = "not_admin"
  /\ state' = [kind |-> "forbidden"]
  /\ overview' = [overview EXCEPT ![r] = NotAsked]
  /\ UNCHANGED <<others, address>>

\* Not signed, not verified, a query rejected, or the answer lost.
ReadFails(r) ==
  /\ overview[r] # NotAsked
  /\ state' = [kind |-> "failed"]
  /\ overview' = [overview EXCEPT ![r] = NotAsked]
  /\ UNCHANGED <<others, address>>

\* The indexer records circles in the order of the chain.
IndexCircle ==
  /\ Cardinality(indexed_circles) < Len(circles)
  /\ indexed_circles' = 1..(Cardinality(indexed_circles) + 1)
  /\ UNCHANGED <<orgvars, address, state, overview>>

DashInit ==
  /\ OrgInit
  /\ indexed_circles = {}
  /\ address = NoWallet
  /\ state = [kind |-> "idle"]
  /\ overview = [r \in Reads |-> NotAsked]

DashNext ==
  \/ OrgNext /\ UNCHANGED <<indexed_circles, address, state, overview>>
  \/ IndexCircle
  \/ \E w \in Wallets \cup {NoWallet} : WalletChanges(w)
  \/ \E r \in Reads :
       \/ load(r)
       \/ Authenticate(r)
       \/ \E query \in Range(Queries) : coordinationCounts(r, query)
       \/ ShowOverview(r)
       \/ ShowForbidden(r)
       \/ ReadFails(r)

DashSpec == DashInit /\ [][DashNext]_dashvars

-----------------------------------------------------------------------------
(* Properties *)

\* A report is put together from queries that see different moments and is
\* shown at a later one.  It is only ever one an operator signed for; what it
\* counts that only grows is there; a circle is never counted both as created
\* and as missing its record, for the drafts are read before the circles; and
\* nothing says a draft is created without a circle, which "should not happen"
\* (adminView.ts:431).
ReportIsEarned ==
  state.kind = "ready" =>
    LET f      == state.facts
        report == adminReport(f)
    IN  /\ state.by \in Operators
        /\ report.overview.drafts <= Cardinality({d \in Drafts : Exists(d)})
        /\ f.placesAccepted <= Cardinality(AcceptedPlaces)
        /\ f.draftsCreated + f.unrecordedChainCircles <= Len(circles)
        /\ report.business.completion \subseteq 0..100
        /\ "created-without-id" \notin report.operations

\* "the moment that wallet is no longer the one connected the screen is showing
\* something the current wallet never proved it may see" (AdminView.tsx:109-110).
ReportIsOurs == state.kind = "ready" => state.by = address

\* The acceptance rate is a percentage.
RateIsOfTheWhole ==
  state.kind = "ready" => state.facts.placesAccepted <= state.facts.placesTotal
=============================================================================
