------------------------------ MODULE IwaDrafts ------------------------------
(***************************************************************************)
(* Drafts, invitations and creation records of the service: the routes of  *)
(* backend/src/app.ts over the tables of backend/src/pgStore.ts, with the  *)
(* chain evidence of backend/src/chainVerify.ts.                           *)
(*                                                                         *)
(* An organizer's draft has places, each with its invite.  People take     *)
(* places, the organizer puts them in payout order, creates the circle on  *)
(* chain, and reports it; or asks the service to find it (/reconcile).     *)
(*                                                                         *)
(* Handlers run concurrently.  A route is a step for each thing it reads,  *)
(* and one for what it does with that after its awaits (authentication,    *)
(* the chain, a row lock).  A read of the chain is part of the last step:  *)
(* circles are only ever appended and keep their order and terms           *)
(* (ConfigsFixed in IwaCircleProofs), so no answer goes stale.             *)
(***************************************************************************)
EXTENDS Naturals, Sequences, FiniteSets, Functions

CONSTANTS
  Drafts,            \* draft ids
  MEMBER_COUNT,      \* places of a draft
  Members,           \* member commitments; a wallet has one, for all circles
  Amounts,           \* contribution amounts
  Handlers,          \* requests the service works on at a time
  MAX_CIRCLE_SCAN,
  NotTaken,          \* member_ref NULL
  MaxCircles         \* bound: circles on chain

ASSUME DraftsAssumption ==
  /\ MEMBER_COUNT \in 2..32
  /\ NotTaken \notin Members /\ IsFiniteSet(Members)
  /\ MAX_CIRCLE_SCAN \in Nat
  /\ MaxCircles \in Nat

VARIABLES
  circle_drafts,     \* the table: status, contribution_amount, circle_id
  slot_order,        \* which place has slot_index i
  member_ref,        \* who holds a place
  circles,           \* on chain: payout order and terms, by circle id
  requests           \* what each handler is in the middle of

tables == <<circle_drafts, slot_order, member_ref>>
vars   == <<tables, circles, requests>>

\* Places are named by the position they were created with.
Slots == 1..MEMBER_COUNT

\* A circle id, or NULL.
NoCircle == 0

PayoutOrders == UNION {Injection(1..n, Members) : n \in 1..Cardinality(Members)}

Idle == [kind |-> "idle"]

\* A request that has not read the places of its draft yet.
NotRead == << >>

-----------------------------------------------------------------------------
(* Drafts and the chain *)

\* Variants named ..._bug_... are not part of the specification: each is what
\* the definition after it would be with a plausible mistake, kept to show that
\* the properties notice it.

Exists(d) == circle_drafts[d].status # "absent"

Full(d) == \A s \in Slots : member_ref[d][s] # NotTaken

\* The order a draft with every place taken expects on chain.
expectedPayoutOrder(d) == [i \in Slots |-> member_ref[d][slot_order[d][i]]]

\* The terms are left out of the comparison.
Matches_bug_terms(c, order, d) == c \in DOMAIN circles /\ circles[c].payout_order = order

\* The payout order and the terms of circle c are those of the draft.  An equal
\* order has as many members as the draft has places.
Matches(c, order, d) ==
  /\ c \in DOMAIN circles
  /\ circles[c].payout_order = order
  /\ circles[c].contribution_amount = circle_drafts[d].contribution_amount

\* The search gives up at the first circle that is another's.
Found_bug_break(c, order, d) == c = 1 /\ Matches(c, order, d)

\* The first match of an upward search that ends at the last circle, or before.
Found(c, order, d) ==
  /\ c <= MAX_CIRCLE_SCAN
  /\ Matches(c, order, d)
  /\ \A b \in 1..(c - 1) : ~Matches(b, order, d)

\* Of a draft that is neither created nor abandoned, once its places are taken.
deriveStatus(taken) ==
  IF \A s \in Slots : taken[s] # NotTaken THEN "ready" ELSE "draft"

-----------------------------------------------------------------------------
(* Initial state *)

Init ==
  /\ circle_drafts = [d \in Drafts |-> [status |-> "absent", circle_id |-> NoCircle]]
  /\ slot_order = [d \in Drafts |-> [i \in Slots |-> i]]
  /\ member_ref = [d \in Drafts |-> [s \in Slots |-> NotTaken]]
  /\ circles = << >>
  /\ requests = [h \in Handlers |-> Idle]

-----------------------------------------------------------------------------
(* The chain, and a new draft *)

\* Anyone creates a circle of any members on chain, once or again.
create_circle(order, amount) ==
  /\ Len(circles) < MaxCircles
  /\ circles' = Append(circles, [payout_order |-> order, contribution_amount |-> amount])
  /\ UNCHANGED <<tables, requests>>

createDraft(d, amount) ==
  /\ ~Exists(d)
  /\ circle_drafts' = [circle_drafts EXCEPT ![d] =
       [status |-> "draft", contribution_amount |-> amount, circle_id |-> NoCircle]]
  /\ UNCHANGED <<slot_order, member_ref, circles, requests>>

-----------------------------------------------------------------------------
(* Requests *)

Begin(h, request) ==
  /\ requests[h] = Idle
  /\ requests' = [requests EXCEPT ![h] = request]
  /\ UNCHANGED <<tables, circles>>

Done(h) == requests' = [requests EXCEPT ![h] = Idle]

\* Acceptances hold the row of their place until they commit.
Locked(d, s) ==
  \E h \in Handlers :
    requests[h].kind = "accept" /\ requests[h].draft = d /\ requests[h].slot = s

\* Without FOR UPDATE.
BeginAccept_bug_nolock(h, d, s, m) ==
  /\ Exists(d)
  /\ member_ref[d][s] = NotTaken
  /\ Begin(h, [kind |-> "accept", draft |-> d, slot |-> s, member |-> m])

\* The place is locked and read; one that is taken is refused in the end.
BeginAccept(h, d, s, m) ==
  /\ Exists(d)
  /\ ~Locked(d, s)
  /\ member_ref[d][s] = NotTaken
  /\ Begin(h, [kind |-> "accept", draft |-> d, slot |-> s, member |-> m])

Duplicate_bug_none(d, m) == FALSE

\* Found by a query, and refused by draft_slots_unique_member if it were not.
Duplicate(d, m) == \E s \in Slots : member_ref[d][s] = m

\* The draft is locked and read, and everything to the commit happens under
\* that lock.
acceptInvite(h) ==
  LET r     == requests[h]
      taken == [member_ref[r.draft] EXCEPT ![r.slot] = r.member]
  IN  /\ r.kind = "accept"
      /\ circle_drafts[r.draft].status # "created"
      /\ ~Duplicate(r.draft, r.member)
      /\ member_ref' = [member_ref EXCEPT ![r.draft] = taken]
      /\ circle_drafts' = [circle_drafts EXCEPT ![r.draft].status = deriveStatus(taken)]
      /\ Done(h)
      /\ UNCHANGED <<slot_order, circles>>

\* The guard on the status is on the draft as it was read before the signature
\* was checked.
BeginOrder(h, d, order) ==
  /\ Exists(d)
  /\ circle_drafts[d].status # "created"
  /\ Begin(h, [kind |-> "order", draft |-> d, order |-> order])

IsPermutation(order) == order \in Bijection(Slots, Slots)

\* Locks every place of the draft, not the draft.
reorderSlots(h) ==
  LET r == requests[h]
  IN  /\ r.kind = "order"
      /\ \A s \in Slots : ~Locked(r.draft, s)
      /\ IsPermutation(r.order)
      /\ slot_order' = [slot_order EXCEPT ![r.draft] = r.order]
      /\ Done(h)
      /\ UNCHANGED <<circle_drafts, member_ref, circles>>

\* A report for a draft that has its circle is answered at once.  The row of a
\* draft and its places are read by two queries, in no transaction.
BeginCreated(h, d, c) ==
  /\ Exists(d)
  /\ circle_drafts[d].circle_id = NoCircle
  /\ Begin(h, [kind |-> "created", draft |-> d, circle |-> c, expected |-> NotRead])

BeginReconcile(h, d) ==
  /\ Exists(d)
  /\ circle_drafts[d].circle_id = NoCircle
  /\ Begin(h, [kind |-> "reconcile", draft |-> d, expected |-> NotRead])

\* A draft with free places is rejected, or has no circle.
ReadPlaces(h) ==
  /\ requests[h].kind \in {"created", "reconcile"}
  /\ requests[h].expected = NotRead
  /\ Full(requests[h].draft)
  /\ requests' = [requests EXCEPT ![h].expected = expectedPayoutOrder(requests[h].draft)]
  /\ UNCHANGED <<tables, circles>>

\* One statement, whatever the row holds by now.
markCreated(d, c) ==
  circle_drafts' = [circle_drafts EXCEPT ![d].circle_id = c, ![d].status = "created"]

ReportCreated(h) ==
  LET r == requests[h]
  IN  /\ r.kind = "created" /\ r.expected # NotRead
      /\ Matches(r.circle, r.expected, r.draft)
      /\ markCreated(r.draft, r.circle)
      /\ Done(h)
      /\ UNCHANGED <<slot_order, member_ref, circles>>

Reconcile(h) ==
  LET r == requests[h]
  IN  /\ r.kind = "reconcile" /\ r.expected # NotRead
      /\ \E c \in DOMAIN circles : Found(c, r.expected, r.draft) /\ markCreated(r.draft, c)
      /\ Done(h)
      /\ UNCHANGED <<slot_order, member_ref, circles>>

\* Refused, or the chain does not answer, or the service restarts and the
\* database rolls the transaction back.
EndWithoutEffect(h) ==
  /\ requests[h] # Idle
  /\ Done(h)
  /\ UNCHANGED <<tables, circles>>

Next ==
  \/ \E order \in PayoutOrders, amount \in Amounts : create_circle(order, amount)
  \/ \E d \in Drafts, amount \in Amounts : createDraft(d, amount)
  \/ \E h \in Handlers :
       \/ acceptInvite(h)
       \/ reorderSlots(h)
       \/ ReadPlaces(h)
       \/ ReportCreated(h)
       \/ Reconcile(h)
       \/ EndWithoutEffect(h)
       \/ \E d \in Drafts :
            \/ \E s \in Slots, m \in Members : BeginAccept(h, d, s, m)
            \/ \E order \in [Slots -> Slots] : BeginOrder(h, d, order)
            \/ \E c \in 1..MaxCircles : BeginCreated(h, d, c)
            \/ BeginReconcile(h, d)

Spec == Init /\ [][Next]_vars

-----------------------------------------------------------------------------
(* Safety *)

DraftRow ==
  [status : {"absent"}, circle_id : {NoCircle}]
    \cup [status : {"draft", "ready", "created"}, contribution_amount : Amounts, circle_id : Nat]

ExpectedList == [Slots -> Members] \cup {NotRead}

Request ==
  {Idle}
    \cup [kind : {"accept"}, draft : Drafts, slot : Slots, member : Members]
    \cup [kind : {"order"}, draft : Drafts, order : [Slots -> Slots]]
    \cup [kind : {"created"}, draft : Drafts, circle : Nat, expected : ExpectedList]
    \cup [kind : {"reconcile"}, draft : Drafts, expected : ExpectedList]

\* The rows have the types of the schema, and slot_index numbers the places of
\* a draft without gap or repetition (UNIQUE (draft_id, slot_index)).
TypeOK ==
  /\ circle_drafts \in [Drafts -> DraftRow]
  /\ slot_order \in [Drafts -> Bijection(Slots, Slots)]
  /\ member_ref \in [Drafts -> [Slots -> Members \cup {NotTaken}]]
  /\ circles \in Seq([payout_order : PayoutOrders, contribution_amount : Amounts])
  /\ requests \in [Handlers -> Request]

\* "One commitment may hold at most one place in a circle" (store.ts:311), with
\* any number of invites of the draft being accepted at once.
OnePlaceEach ==
  \A d \in Drafts : \A s, t \in Slots :
    member_ref[d][s] = member_ref[d][t] /\ s # t => member_ref[d][s] = NotTaken

\* "A draft becomes ready exactly when every reserved slot is accepted"
\* (store.ts:199): the last two people to accept, at the same time, make it so.
ReadyWhenFull ==
  \A d \in Drafts :
    /\ circle_drafts[d].status = "ready" => Full(d)
    /\ Full(d) /\ Exists(d) => circle_drafts[d].status \in {"ready", "created"}
    /\ circle_drafts[d].status = "created" <=> circle_drafts[d].circle_id # NoCircle

\* Whatever reports, searches, reorderings and acceptances overlapped, the
\* circle a draft is recorded with exists, on its terms, and is a circle of
\* exactly the people who took its places.
CreatedHoldsItsMembers ==
  \A d \in Drafts : circle_drafts[d].status = "created" =>
    LET c == circle_drafts[d].circle_id
    IN  /\ c \in DOMAIN circles
        /\ circles[c].contribution_amount = circle_drafts[d].contribution_amount
        /\ Range(circles[c].payout_order) = Range(member_ref[d])

\* chainVerify.ts:10, "that circle is this draft's circle": no other's.
OneDraftPerCircle ==
  \A d, e \in Drafts : circle_drafts[d].circle_id = circle_drafts[e].circle_id =>
    d = e \/ circle_drafts[d].circle_id = NoCircle

-----------------------------------------------------------------------------
(* Action properties *)

\* A place that was taken stays with the person who took it, through every
\* reordering and every other acceptance; nobody is told twice it is theirs.
KeepsPlaces ==
  \A d \in Drafts, s \in Slots :
    member_ref[d][s] # NotTaken => member_ref'[d][s] = member_ref[d][s]

PlaceKept == [][KeepsPlaces]_vars

\* The rows of the database as the map of module MemoryDrafts: a draft carries
\* its places in their present order.
StoredDraft(d) ==
  [contributionAmount |-> circle_drafts[d].contribution_amount,
   status             |-> circle_drafts[d].status,
   circleId           |-> circle_drafts[d].circle_id,
   slots              |-> [i \in Slots |-> [slotId    |-> slot_order[d][i],
                                           memberRef |-> member_ref[d][slot_order[d][i]]]]]

StoredDrafts == [d \in {e \in Drafts : Exists(e)} |-> StoredDraft(d)]

Memory == INSTANCE MemoryDrafts WITH
  Ids <- Drafts, memberCount <- MEMBER_COUNT, MemberRefs <- Members,
  CircleIds <- 1..MaxCircles, drafts <- StoredDrafts

\* One Store interface has two implementations (store.ts:136 and pgStore.ts):
\* with requests split at their awaits and several under way, the tables only
\* ever change as the store of one thread would change them.  In particular an
\* acceptance takes a place that is free when it commits, sees every other
\* acceptance of the draft, and leaves the status they add up to.
ImplementsMemoryStore == Memory!Spec

\* app.ts:1013, "A different circle is a different matter and is refused".
CircleKept ==
  [][\A d \in Drafts : circle_drafts[d].circle_id # NoCircle =>
       circle_drafts'[d].circle_id = circle_drafts[d].circle_id]_vars

-----------------------------------------------------------------------------
(* Liveness, under the fairness of the model module *)

\* There is a circle on chain within the scan with the order and the terms of
\* the draft.
Created(d) == \E c \in 1..MAX_CIRCLE_SCAN : Matches(c, expectedPayoutOrder(d), d)

\* "Recovers a creation that happened on chain but was never recorded here"
\* (app.ts:1045): if the order of the draft settles on that of a circle, the
\* draft is recorded, though every report of it is lost.
CreationIsRecovered ==
  \A d \in Drafts :
    <>[](Exists(d) /\ Full(d) /\ Created(d)) => <>(circle_drafts[d].status = "created")

=============================================================================
