--------------------------- MODULE IwaDraftsProofs ---------------------------
(***************************************************************************)
(* The drafts of the service, for any drafts, places, people, amounts and  *)
(* numbers of requests at a time: places are taken once and kept, a record *)
(* of creation is always of a circle of the people in the draft, and the   *)
(* drafts implement the store of one thread of module MemoryDrafts.        *)
(*                                                                         *)
(* Over the service: the organizer's page never takes one place for        *)
(* another, and the operator's dashboard counts what is there.             *)
(***************************************************************************)
EXTENDS IwaDashboard, SequenceTheorems, FiniteSetTheorems, TLAPS

-----------------------------------------------------------------------------
(* The inductive invariant *)

\* An acceptance under way has its place to itself, and the place is free.
PlacesHeld ==
  \A h \in Handlers : requests[h].kind = "accept" =>
    /\ Exists(requests[h].draft)
    /\ member_ref[requests[h].draft][requests[h].slot] = NotTaken
    /\ \A g \in Handlers :
         /\ requests[g].kind = "accept"
         /\ requests[g].draft = requests[h].draft
         /\ requests[g].slot = requests[h].slot
         => g = h

\* What a report or a search expects on chain is a list of the people in the
\* draft, in an order that was theirs, with no place free.
ListsOfAll ==
  \A h \in Handlers : requests[h].kind \in {"created", "reconcile"} =>
    /\ Exists(requests[h].draft)
    /\ requests[h].expected # NotRead =>
         /\ Full(requests[h].draft)
         /\ Range(requests[h].expected) = Range(member_ref[requests[h].draft])

\* Nobody holds a place of a draft that is not there yet.
Unheld ==
  \A d \in Drafts : ~Exists(d) => \A s \in Slots : member_ref[d][s] = NotTaken

DraftsInv ==
  /\ TypeOK
  /\ OnePlaceEach
  /\ ReadyWhenFull
  /\ CreatedHoldsItsMembers
  /\ PlacesHeld
  /\ ListsOfAll
  /\ Unheld

-----------------------------------------------------------------------------
(* Types of requests and rows *)

LEMMA RequestTypes ==
  ASSUME TypeOK, NEW h \in Handlers
  PROVE  /\ requests[h].kind = "accept" =>
              /\ requests[h].draft \in Drafts /\ requests[h].slot \in Slots
              /\ requests[h].member \in Members
         /\ requests[h].kind = "order" => requests[h].draft \in Drafts
         /\ requests[h].kind = "created" =>
              /\ requests[h].draft \in Drafts /\ requests[h].circle \in Nat
              /\ requests[h].expected \in ExpectedList
         /\ requests[h].kind = "reconcile" =>
              /\ requests[h].draft \in Drafts
              /\ requests[h].expected \in ExpectedList
<1>1. requests[h] \in Request
  BY DEF TypeOK
<1>2. QED
  BY <1>1 DEF Request, Idle

LEMMA RowTypes ==
  ASSUME TypeOK, NEW d \in Drafts, Exists(d)
  PROVE  /\ circle_drafts[d].status \in {"draft", "ready", "created"}
         /\ \A t \in {"draft", "ready", "created"} :
              [circle_drafts EXCEPT ![d].status = t] \in [Drafts -> DraftRow]
         /\ \A c \in Nat :
              [circle_drafts EXCEPT ![d].circle_id = c, ![d].status = "created"]
                \in [Drafts -> DraftRow]
<1>1. circle_drafts[d] \in [status : {"draft", "ready", "created"},
                            contribution_amount : Amounts, circle_id : Nat]
  BY DEF TypeOK, DraftRow, Exists
<1>2. circle_drafts \in [Drafts -> DraftRow]
  BY DEF TypeOK
<1>3. ASSUME NEW t \in {"draft", "ready", "created"}
      PROVE  [circle_drafts EXCEPT ![d].status = t] \in [Drafts -> DraftRow]
  <2>1. [circle_drafts[d] EXCEPT !.status = t] \in DraftRow
    BY <1>1 DEF DraftRow
  <2>2. QED
    BY <1>2, <2>1
<1>4. ASSUME NEW c \in Nat
      PROVE  [circle_drafts EXCEPT ![d].circle_id = c, ![d].status = "created"]
               \in [Drafts -> DraftRow]
  <2>1. [circle_drafts[d] EXCEPT !.circle_id = c, !.status = "created"] \in DraftRow
    BY <1>1 DEF DraftRow
  <2>2. [circle_drafts EXCEPT ![d].circle_id = c, ![d].status = "created"]
          = [circle_drafts EXCEPT ![d] =
               [circle_drafts[d] EXCEPT !.circle_id = c, !.status = "created"]]
    BY <1>2
  <2>3. QED
    BY <1>2, <2>1, <2>2
<1>5. QED
  BY <1>1, <1>3, <1>4

\* Whatever the order of the places, the list on chain is of all who hold one.
LEMMA ExpectedIsEveryone ==
  ASSUME TypeOK, NEW d \in Drafts, Full(d)
  PROVE  /\ expectedPayoutOrder(d) \in [Slots -> Members]
         /\ Range(expectedPayoutOrder(d)) = Range(member_ref[d])
<1>1. /\ slot_order[d] \in [Slots -> Slots]
      /\ \A s \in Slots : \E i \in Slots : slot_order[d][i] = s
  BY DEF TypeOK, Bijection, Injection, Surjection
<1>2. member_ref[d] \in [Slots -> Members]
  BY DEF TypeOK, Full
<1>3. QED
  BY <1>1, <1>2 DEF expectedPayoutOrder, Range

-----------------------------------------------------------------------------
(* Steps that only begin or end a request *)

LEMMA EndKeepsRequests ==
  ASSUME DraftsInv, NEW h \in Handlers, Done(h)
  PROVE  /\ requests' \in [Handlers -> Request]
         /\ requests'[h] = Idle
         /\ \A g \in Handlers \ {h} : requests'[g] = requests[g]
<1>1. Idle \in Request
  BY DEF Request
<1>2. QED
  BY <1>1 DEF DraftsInv, TypeOK, Done

LEMMA EndWithoutEffectKeeps ==
  ASSUME DraftsInv, NEW h \in Handlers, EndWithoutEffect(h)
  PROVE  DraftsInv'
<1>1. /\ requests' \in [Handlers -> Request] /\ requests'[h] = Idle
      /\ \A g \in Handlers \ {h} : requests'[g] = requests[g]
  BY EndKeepsRequests DEF EndWithoutEffect
<1>2. UNCHANGED <<circle_drafts, slot_order, member_ref, circles>>
  BY DEF EndWithoutEffect, tables
<1>3. TypeOK'
  BY <1>1, <1>2 DEF DraftsInv, TypeOK
<1>4. OnePlaceEach' /\ ReadyWhenFull' /\ CreatedHoldsItsMembers' /\ Unheld'
  BY <1>2 DEF DraftsInv, OnePlaceEach, ReadyWhenFull, CreatedHoldsItsMembers, Unheld,
              Full, Exists
<1>5. PlacesHeld' /\ ListsOfAll'
  BY <1>1, <1>2 DEF DraftsInv, PlacesHeld, ListsOfAll, Idle, Full, Exists
<1>6. QED
  BY <1>3, <1>4, <1>5 DEF DraftsInv

LEMMA BeginKeeps ==
  ASSUME DraftsInv, NEW h \in Handlers, NEW r \in Request, Begin(h, r),
         r.kind = "accept" => /\ Exists(r.draft) /\ ~Locked(r.draft, r.slot)
                              /\ member_ref[r.draft][r.slot] = NotTaken,
         r.kind \in {"created", "reconcile"} =>
           Exists(r.draft) /\ r.expected = NotRead
  PROVE  DraftsInv'
<1>1. /\ requests' \in [Handlers -> Request] /\ requests'[h] = r
      /\ \A g \in Handlers \ {h} : requests'[g] = requests[g]
  BY DEF Begin, DraftsInv, TypeOK
<1>2. UNCHANGED <<circle_drafts, slot_order, member_ref, circles>>
  BY DEF Begin, tables
<1>3. TypeOK'
  BY <1>1, <1>2 DEF DraftsInv, TypeOK
<1>4. OnePlaceEach' /\ ReadyWhenFull' /\ CreatedHoldsItsMembers' /\ Unheld'
  BY <1>2 DEF DraftsInv, OnePlaceEach, ReadyWhenFull, CreatedHoldsItsMembers, Unheld,
              Full, Exists
<1>5. PlacesHeld'
  <2>1. r.kind = "accept" => \A g \in Handlers :
          ~(/\ requests[g].kind = "accept" /\ requests[g].draft = r.draft
            /\ requests[g].slot = r.slot)
    BY DEF Locked
  <2>2. QED
    BY <1>1, <1>2, <2>1 DEF DraftsInv, PlacesHeld, Exists
<1>6. ListsOfAll'
  BY <1>1, <1>2 DEF DraftsInv, ListsOfAll, Full, Exists
<1>7. QED
  BY <1>3, <1>4, <1>5, <1>6 DEF DraftsInv

LEMMA ReadPlacesKeeps ==
  ASSUME DraftsInv, NEW h \in Handlers, ReadPlaces(h)
  PROVE  DraftsInv'
<1> DEFINE d == requests[h].draft
           list == expectedPayoutOrder(d)
           r == [requests[h] EXCEPT !.expected = list]
<1>1. /\ requests[h].kind \in {"created", "reconcile"} /\ Full(d)
      /\ requests' = [requests EXCEPT ![h].expected = list]
      /\ UNCHANGED <<circle_drafts, slot_order, member_ref, circles>>
  BY DEF ReadPlaces, tables
<1>2. TypeOK /\ d \in Drafts /\ Exists(d) /\ requests[h] \in Request
  BY <1>1, RequestTypes DEF DraftsInv, ListsOfAll, TypeOK
<1>3. list \in [Slots -> Members] /\ Range(list) = Range(member_ref[d])
  BY <1>1, <1>2, ExpectedIsEveryone
<1>4. r \in Request /\ r.kind = requests[h].kind /\ r.draft = d /\ r.expected = list
  <2> HIDE DEF list
  <2>1. QED
    BY <1>1, <1>2, <1>3 DEF Request, ExpectedList, Idle
<1>5. requests' = [requests EXCEPT ![h] = r]
  BY <1>1, <1>2 DEF TypeOK
<1> HIDE DEF d, list, r
<1>6. /\ requests' \in [Handlers -> Request] /\ requests'[h] = r
      /\ \A g \in Handlers \ {h} : requests'[g] = requests[g]
  BY <1>2, <1>4, <1>5 DEF TypeOK
<1>7. TypeOK'
  BY <1>1, <1>2, <1>6 DEF TypeOK
<1>8. OnePlaceEach' /\ ReadyWhenFull' /\ CreatedHoldsItsMembers' /\ Unheld'
  BY <1>1 DEF DraftsInv, OnePlaceEach, ReadyWhenFull, CreatedHoldsItsMembers, Unheld,
              Full, Exists
<1>9. PlacesHeld'
  BY <1>1, <1>4, <1>6 DEF DraftsInv, PlacesHeld, Exists
<1>10. ListsOfAll'
  <2>1. r.expected # NotRead => Full(r.draft) /\ Range(r.expected) = Range(member_ref[r.draft])
    BY <1>1, <1>3, <1>4
  <2>2. Exists(r.draft)
    BY <1>2, <1>4
  <2>3. QED
    BY <1>1, <1>6, <2>1, <2>2 DEF DraftsInv, ListsOfAll, Full, Exists
<1>11. QED
  BY <1>7, <1>8, <1>9, <1>10 DEF DraftsInv

-----------------------------------------------------------------------------
(* Steps that change the tables or the chain *)

LEMMA CreateCircleKeeps ==
  ASSUME DraftsInv, NEW order \in PayoutOrders, NEW amount \in Amounts,
         create_circle(order, amount)
  PROVE  DraftsInv'
<1> DEFINE circle == [payout_order |-> order, contribution_amount |-> amount]
<1>1. UNCHANGED <<circle_drafts, slot_order, member_ref, requests>>
      /\ circles' = Append(circles, circle)
  BY DEF create_circle, tables
<1>2. circles \in Seq([payout_order : PayoutOrders, contribution_amount : Amounts])
  BY DEF DraftsInv, TypeOK
<1>3. circle \in [payout_order : PayoutOrders, contribution_amount : Amounts]
  OBVIOUS
<1>4. circles' \in Seq([payout_order : PayoutOrders, contribution_amount : Amounts])
  <2> HIDE DEF circle
  <2>1. QED
    BY <1>1, <1>2, <1>3
<1>5. \A c \in DOMAIN circles : c \in DOMAIN circles' /\ circles'[c] = circles[c]
  <2> HIDE DEF circle
  <2>1. QED
    BY <1>1, <1>2, <1>3
<1>6. TypeOK'
  BY <1>1, <1>4 DEF DraftsInv, TypeOK
<1>7. OnePlaceEach' /\ ReadyWhenFull' /\ PlacesHeld' /\ ListsOfAll' /\ Unheld'
  BY <1>1 DEF DraftsInv, OnePlaceEach, ReadyWhenFull, PlacesHeld, ListsOfAll, Unheld, Full, Exists
<1>8. CreatedHoldsItsMembers'
  BY <1>1, <1>5 DEF DraftsInv, CreatedHoldsItsMembers
<1>9. QED
  BY <1>6, <1>7, <1>8 DEF DraftsInv

LEMMA CreateDraftKeeps ==
  ASSUME DraftsInv, NEW d \in Drafts, NEW amount \in Amounts, createDraft(d, amount)
  PROVE  DraftsInv'
<1> DEFINE row == [status |-> "draft", contribution_amount |-> amount, circle_id |-> NoCircle]
<1>1. /\ UNCHANGED <<slot_order, member_ref, circles, requests>>
      /\ ~Exists(d) /\ circle_drafts' = [circle_drafts EXCEPT ![d] = row]
  BY DEF createDraft
<1>2. row \in DraftRow /\ row.status = "draft" /\ row.circle_id = NoCircle
  BY DEF DraftRow, NoCircle
<1> HIDE DEF row
<1>3. /\ circle_drafts' \in [Drafts -> DraftRow] /\ circle_drafts'[d] = row
      /\ \A e \in Drafts \ {d} : circle_drafts'[e] = circle_drafts[e]
  BY <1>1, <1>2 DEF DraftsInv, TypeOK
<1>4. \A e \in Drafts : Exists(e) => e # d /\ Exists(e)'
  BY <1>1, <1>3 DEF Exists
<1>5. ~Full(d)
  <2>1. 1 \in Slots
    BY DraftsAssumption DEF Slots
  <2>2. QED
    BY <1>1, <2>1 DEF DraftsInv, Unheld, Full
<1>6. TypeOK' /\ OnePlaceEach'
  BY <1>1, <1>3 DEF DraftsInv, TypeOK, OnePlaceEach
<1>7. ReadyWhenFull'
  BY <1>1, <1>2, <1>3, <1>5 DEF DraftsInv, ReadyWhenFull, Full, Exists
<1>8. CreatedHoldsItsMembers'
  BY <1>1, <1>2, <1>3 DEF DraftsInv, CreatedHoldsItsMembers
<1>9. PlacesHeld' /\ ListsOfAll'
  BY <1>1, <1>4, RequestTypes DEF DraftsInv, PlacesHeld, ListsOfAll, Full
<1>10. Unheld'
  BY <1>1, <1>2, <1>3 DEF DraftsInv, Unheld, Exists
<1>11. QED
  BY <1>6, <1>7, <1>8, <1>9, <1>10 DEF DraftsInv

\* The place was free when it was locked, so it still is.
LEMMA AcceptKeeps ==
  ASSUME DraftsInv, NEW h \in Handlers, acceptInvite(h)
  PROVE  DraftsInv' /\ KeepsPlaces
<1> DEFINE d == requests[h].draft
           s == requests[h].slot
           m == requests[h].member
           taken == [member_ref[d] EXCEPT ![s] = m]
<1>1. /\ UNCHANGED <<slot_order, circles>> /\ Done(h) /\ requests[h].kind = "accept"
      /\ circle_drafts[d].status # "created" /\ ~Duplicate(d, m)
      /\ member_ref' = [member_ref EXCEPT ![d] = taken]
      /\ circle_drafts' = [circle_drafts EXCEPT ![d].status = deriveStatus(taken)]
  BY DEF acceptInvite
<1>2. TypeOK /\ d \in Drafts /\ s \in Slots /\ m \in Members
      /\ Exists(d) /\ member_ref[d][s] = NotTaken
  BY <1>1, RequestTypes DEF DraftsInv, PlacesHeld
<1>3. /\ requests' \in [Handlers -> Request] /\ requests'[h] = Idle
      /\ \A g \in Handlers \ {h} : requests'[g] = requests[g]
  BY <1>1, EndKeepsRequests
<1>4. /\ taken \in [Slots -> Members \cup {NotTaken}] /\ taken[s] = m
      /\ \A t \in Slots \ {s} : taken[t] = member_ref[d][t]
  BY <1>2 DEF TypeOK
<1>5. deriveStatus(taken) \in {"draft", "ready"}
  BY DEF deriveStatus
<1>6. deriveStatus(taken) = "ready" <=> \A t \in Slots : taken[t] # NotTaken
  BY DEF deriveStatus
<1> HIDE DEF d, s, m, taken
<1>7. /\ member_ref' \in [Drafts -> [Slots -> Members \cup {NotTaken}]]
      /\ member_ref'[d] = taken /\ \A e \in Drafts \ {d} : member_ref'[e] = member_ref[e]
  BY <1>1, <1>2, <1>4 DEF TypeOK
<1>8. circle_drafts' \in [Drafts -> DraftRow]
  BY <1>1, <1>2, <1>5, RowTypes
<1>9. /\ circle_drafts'[d].status = deriveStatus(taken)
      /\ circle_drafts'[d].circle_id = circle_drafts[d].circle_id
      /\ \A e \in Drafts \ {d} : circle_drafts'[e] = circle_drafts[e]
  <2>1. circle_drafts \in [Drafts -> DraftRow]
        /\ circle_drafts[d] \in [status : {"draft", "ready", "created"},
                                  contribution_amount : Amounts, circle_id : Nat]
    BY <1>2 DEF TypeOK, DraftRow, Exists
  <2>2. QED
    BY <1>1, <1>2, <2>1
<1>10. TypeOK'
  BY <1>1, <1>3, <1>7, <1>8 DEF TypeOK, DraftsInv
<1>11. OnePlaceEach'
  <2>1. \A t \in Slots : member_ref[d][t] # m
    BY <1>1 DEF Duplicate
  <2>2. QED
    BY <1>4, <1>7, <2>1 DEF DraftsInv, OnePlaceEach
<1>12. ReadyWhenFull'
  <2>1. circle_drafts[d].circle_id = NoCircle
    BY <1>1, <1>2 DEF DraftsInv, ReadyWhenFull
  <2>2. ASSUME NEW e \in Drafts \ {d}
        PROVE  /\ circle_drafts'[e].status = "ready" => Full(e)'
               /\ Full(e)' /\ Exists(e)' => circle_drafts'[e].status \in {"ready", "created"}
               /\ circle_drafts'[e].status = "created" <=> circle_drafts'[e].circle_id # NoCircle
    BY <1>7, <1>9 DEF DraftsInv, ReadyWhenFull, Full, Exists
  <2>3. /\ circle_drafts'[d].status = "ready" <=> \A t \in Slots : member_ref'[d][t] # NotTaken
        /\ circle_drafts'[d].status # "created" /\ circle_drafts'[d].circle_id = NoCircle
    BY <1>5, <1>6, <1>7, <1>9, <2>1
  <2>4. QED
    BY <1>2, <2>2, <2>3 DEF ReadyWhenFull, Full
<1>13. CreatedHoldsItsMembers'
  BY <1>1, <1>5, <1>7, <1>9 DEF DraftsInv, CreatedHoldsItsMembers
<1>14. \A e \in Drafts : Exists(e) => Exists(e)'
  BY <1>5, <1>9 DEF Exists
<1>15. PlacesHeld'
  <2> SUFFICES ASSUME NEW k \in Handlers, requests'[k].kind = "accept"
      PROVE  /\ circle_drafts'[requests'[k].draft].status # "absent"
             /\ member_ref'[requests'[k].draft][requests'[k].slot] = NotTaken
             /\ \A g \in Handlers :
                  /\ requests'[g].kind = "accept"
                  /\ requests'[g].draft = requests'[k].draft
                  /\ requests'[g].slot = requests'[k].slot
                  => g = k
    BY DEF PlacesHeld, Exists
  <2>1. k # h /\ requests'[k] = requests[k]
    BY <1>3 DEF Idle
  <2>2. requests[k].draft \in Drafts /\ requests[k].slot \in Slots
    BY <1>2, <2>1, RequestTypes
  <2>3. ~(requests[k].draft = d /\ requests[k].slot = s)
    BY <1>1, <2>1 DEF DraftsInv, PlacesHeld, d, s
  <2>4. member_ref'[requests[k].draft][requests[k].slot] = NotTaken
    BY <1>4, <1>7, <2>1, <2>2, <2>3 DEF DraftsInv, PlacesHeld
  <2>5. circle_drafts'[requests[k].draft].status # "absent"
    BY <1>14, <2>1, <2>2 DEF DraftsInv, PlacesHeld, Exists
  <2>6. \A g \in Handlers : requests'[g].kind = "accept" => requests'[g] = requests[g]
    BY <1>3 DEF Idle
  <2>7. QED
    BY <2>1, <2>4, <2>5, <2>6 DEF DraftsInv, PlacesHeld, Exists
<1>16. ListsOfAll'
  <2>1. ASSUME NEW k \in Handlers, requests'[k].kind \in {"created", "reconcile"}
        PROVE  /\ requests'[k] = requests[k] /\ requests[k].draft \in Drafts
               /\ requests[k].expected # NotRead => requests[k].draft # d
    <3>1. requests'[k] = requests[k]
      BY <1>3, <2>1 DEF Idle
    <3>2. requests[k].draft \in Drafts
      BY <1>2, <2>1, <3>1, RequestTypes
    <3>3. requests[k].expected # NotRead => Full(requests[k].draft)
      BY <2>1, <3>1 DEF DraftsInv, ListsOfAll
    <3>4. QED
      BY <1>2, <3>1, <3>2, <3>3 DEF Full
  <2>2. QED
    BY <1>7, <1>9, <1>14, <2>1 DEF DraftsInv, ListsOfAll, Full, Exists
<1>17. Unheld'
  BY <1>2, <1>5, <1>7, <1>9 DEF DraftsInv, Unheld, Exists
<1>18. KeepsPlaces
  BY <1>2, <1>4, <1>7 DEF KeepsPlaces
<1>19. QED
  BY <1>10, <1>11, <1>12, <1>13, <1>15, <1>16, <1>17, <1>18 DEF DraftsInv

LEMMA ReorderKeeps ==
  ASSUME DraftsInv, NEW h \in Handlers, reorderSlots(h)
  PROVE  DraftsInv'
<1>1. /\ UNCHANGED <<circle_drafts, member_ref, circles>> /\ Done(h)
      /\ requests[h].kind = "order" /\ requests[h].order \in Bijection(Slots, Slots)
      /\ slot_order' = [slot_order EXCEPT ![requests[h].draft] = requests[h].order]
  BY DEF reorderSlots, IsPermutation
<1>2. /\ requests' \in [Handlers -> Request] /\ requests'[h] = Idle
      /\ \A g \in Handlers \ {h} : requests'[g] = requests[g]
  BY <1>1, EndKeepsRequests
<1>3. slot_order' \in [Drafts -> Bijection(Slots, Slots)]
  BY <1>1 DEF DraftsInv, TypeOK
<1>4. TypeOK'
  BY <1>1, <1>2, <1>3 DEF DraftsInv, TypeOK
<1>5. OnePlaceEach' /\ ReadyWhenFull' /\ CreatedHoldsItsMembers' /\ Unheld'
  BY <1>1 DEF DraftsInv, OnePlaceEach, ReadyWhenFull, CreatedHoldsItsMembers, Unheld, Full, Exists
<1>6. PlacesHeld' /\ ListsOfAll'
  BY <1>1, <1>2 DEF DraftsInv, PlacesHeld, ListsOfAll, Idle, Full, Exists
<1>7. QED
  BY <1>4, <1>5, <1>6 DEF DraftsInv

\* A record is written from a list that may no longer be in order, but is still
\* of everyone: nobody leaves or joins a draft that is full.
LEMMA RecordKeeps ==
  ASSUME DraftsInv, NEW h \in Handlers, NEW c \in DOMAIN circles,
         requests[h].kind \in {"created", "reconcile"}, requests[h].expected # NotRead,
         Matches(c, requests[h].expected, requests[h].draft),
         markCreated(requests[h].draft, c), Done(h),
         UNCHANGED <<slot_order, member_ref, circles>>
  PROVE  DraftsInv'
<1> DEFINE d == requests[h].draft
<1>1. /\ circles[c].payout_order = requests[h].expected
      /\ circles[c].contribution_amount = circle_drafts[d].contribution_amount
  BY DEF Matches
<1>2. /\ TypeOK /\ d \in Drafts /\ Exists(d) /\ Full(d)
      /\ Range(requests[h].expected) = Range(member_ref[d])
  BY RequestTypes DEF DraftsInv, ListsOfAll
<1>3. circle_drafts' = [circle_drafts EXCEPT ![d].circle_id = c, ![d].status = "created"]
  BY DEF markCreated
<1>4. /\ requests' \in [Handlers -> Request] /\ requests'[h] = Idle
      /\ \A g \in Handlers \ {h} : requests'[g] = requests[g]
  BY EndKeepsRequests
<1> HIDE DEF d
<1>5. c \in Nat /\ c # NoCircle
  BY <1>2 DEF TypeOK, NoCircle
<1>6. circle_drafts' \in [Drafts -> DraftRow]
  BY <1>2, <1>3, <1>5, RowTypes
<1>7. /\ circle_drafts'[d].status = "created" /\ circle_drafts'[d].circle_id = c
      /\ circle_drafts'[d].contribution_amount = circle_drafts[d].contribution_amount
      /\ \A e \in Drafts \ {d} : circle_drafts'[e] = circle_drafts[e]
  <2>1. circle_drafts \in [Drafts -> DraftRow]
        /\ circle_drafts[d] \in [status : {"draft", "ready", "created"},
                                  contribution_amount : Amounts, circle_id : Nat]
    BY <1>2 DEF TypeOK, DraftRow, Exists
  <2>2. QED
    BY <1>2, <1>3, <2>1
<1>8. \A e \in Drafts : Exists(e) => Exists(e)'
  BY <1>7 DEF Exists
<1>9. TypeOK' /\ OnePlaceEach'
  BY <1>2, <1>4, <1>6 DEF DraftsInv, TypeOK, OnePlaceEach
<1>10. ReadyWhenFull'
  BY <1>5, <1>7 DEF DraftsInv, ReadyWhenFull, Full, Exists
<1>11. CreatedHoldsItsMembers'
  BY <1>1, <1>2, <1>7 DEF DraftsInv, CreatedHoldsItsMembers
<1>12. PlacesHeld' /\ ListsOfAll'
  <2>1. \A g \in Handlers : requests'[g].kind # "idle" => requests'[g] = requests[g]
    BY <1>4 DEF Idle
  <2>2. QED
    BY <1>2, <1>8, <2>1, RequestTypes DEF DraftsInv, PlacesHeld, ListsOfAll, Full
<1>13. Unheld'
  BY <1>2, <1>7 DEF DraftsInv, Unheld, Exists
<1>14. QED
  BY <1>9, <1>10, <1>11, <1>12, <1>13 DEF DraftsInv

-----------------------------------------------------------------------------
(* The invariant *)

LEMMA InitInv == Init => DraftsInv
<1> SUFFICES ASSUME Init PROVE DraftsInv
  OBVIOUS
<1>1. \A d \in Drafts : circle_drafts[d] \in DraftRow /\ circle_drafts[d].status = "absent"
        /\ circle_drafts[d].circle_id = NoCircle
  BY DEF Init, DraftRow
<1>2. [i \in Slots |-> i] \in Bijection(Slots, Slots)
  BY DEF Bijection, Injection, Surjection, IsInjective
<1>3. \A h \in Handlers : requests[h] = Idle
  BY DEF Init
<1>4. TypeOK
  <2>1. circle_drafts \in [Drafts -> DraftRow]
    BY <1>1 DEF Init
  <2>2. slot_order \in [Drafts -> Bijection(Slots, Slots)]
    BY <1>2 DEF Init
  <2>3. requests \in [Handlers -> Request]
    BY DEF Init, Request
  <2>4. circles \in Seq([payout_order : PayoutOrders, contribution_amount : Amounts])
    BY DEF Init
  <2>5. QED
    BY <2>1, <2>2, <2>3, <2>4 DEF Init, TypeOK
<1>5. \A d \in Drafts, s \in Slots : member_ref[d][s] = NotTaken
  BY DEF Init
<1>6. OnePlaceEach /\ CreatedHoldsItsMembers /\ Unheld
  BY <1>1, <1>5 DEF OnePlaceEach, CreatedHoldsItsMembers, Unheld
<1>7. ReadyWhenFull
  BY <1>1 DEF ReadyWhenFull, Exists
<1>8. PlacesHeld /\ ListsOfAll
  BY <1>3 DEF PlacesHeld, ListsOfAll, Idle
<1>9. QED
  BY <1>4, <1>6, <1>7, <1>8 DEF DraftsInv

LEMMA BeginsKeep ==
  ASSUME DraftsInv, NEW h \in Handlers, NEW d \in Drafts
  PROVE  /\ \A s \in Slots, m \in Members : BeginAccept(h, d, s, m) => DraftsInv'
         /\ \A order \in [Slots -> Slots] : BeginOrder(h, d, order) => DraftsInv'
         /\ \A c \in 1..MaxCircles : BeginCreated(h, d, c) => DraftsInv'
         /\ BeginReconcile(h, d) => DraftsInv'
<1>1. ASSUME NEW s \in Slots, NEW m \in Members, BeginAccept(h, d, s, m) PROVE DraftsInv'
  <2> DEFINE r == [kind |-> "accept", draft |-> d, slot |-> s, member |-> m]
  <2>1. r \in Request /\ r.kind = "accept" /\ r.draft = d /\ r.slot = s
    BY DEF Request
  <2>2. Begin(h, r) /\ Exists(d) /\ ~Locked(d, s) /\ member_ref[d][s] = NotTaken
    BY <1>1 DEF BeginAccept
  <2> HIDE DEF r
  <2>3. QED
    BY <2>1, <2>2, BeginKeeps
<1>2. ASSUME NEW order \in [Slots -> Slots], BeginOrder(h, d, order) PROVE DraftsInv'
  <2> DEFINE r == [kind |-> "order", draft |-> d, order |-> order]
  <2>1. r \in Request /\ r.kind = "order"
    BY DEF Request
  <2>2. Begin(h, r)
    BY <1>2 DEF BeginOrder
  <2> HIDE DEF r
  <2>3. QED
    BY <2>1, <2>2, BeginKeeps
<1>3. ASSUME NEW c \in 1..MaxCircles, BeginCreated(h, d, c) PROVE DraftsInv'
  <2> DEFINE r == [kind |-> "created", draft |-> d, circle |-> c, expected |-> NotRead]
  <2>1. Begin(h, r) /\ Exists(d)
    BY <1>3 DEF BeginCreated
  <2>2. r \in Request /\ r.kind = "created" /\ r.draft = d /\ r.expected = NotRead
    BY DEF Request, ExpectedList
  <2> HIDE DEF r
  <2>3. QED
    BY <2>1, <2>2, BeginKeeps
<1>4. ASSUME BeginReconcile(h, d) PROVE DraftsInv'
  <2> DEFINE r == [kind |-> "reconcile", draft |-> d, expected |-> NotRead]
  <2>1. Begin(h, r) /\ Exists(d)
    BY <1>4 DEF BeginReconcile
  <2>2. r \in Request /\ r.kind = "reconcile" /\ r.draft = d /\ r.expected = NotRead
    BY DEF Request, ExpectedList
  <2> HIDE DEF r
  <2>3. QED
    BY <2>1, <2>2, BeginKeeps
<1>5. QED
  BY <1>1, <1>2, <1>3, <1>4

LEMMA RecordsKeep ==
  ASSUME DraftsInv, NEW h \in Handlers
  PROVE  /\ ReportCreated(h) => DraftsInv'
         /\ Reconcile(h) => DraftsInv'
<1>1. ASSUME ReportCreated(h) PROVE DraftsInv'
  <2>1. /\ requests[h].kind = "created" /\ requests[h].expected # NotRead
        /\ Matches(requests[h].circle, requests[h].expected, requests[h].draft)
        /\ markCreated(requests[h].draft, requests[h].circle)
        /\ Done(h) /\ UNCHANGED <<slot_order, member_ref, circles>>
    BY <1>1 DEF ReportCreated
  <2>2. requests[h].circle \in DOMAIN circles
    BY <2>1 DEF Matches
  <2>3. PICK c \in DOMAIN circles :
          /\ Matches(c, requests[h].expected, requests[h].draft)
          /\ markCreated(requests[h].draft, c)
    BY <2>1, <2>2
  <2>4. QED
    BY <2>1, <2>3, RecordKeeps
<1>2. ASSUME Reconcile(h) PROVE DraftsInv'
  <2>1. PICK c \in DOMAIN circles :
          /\ Found(c, requests[h].expected, requests[h].draft)
          /\ markCreated(requests[h].draft, c)
    BY <1>2 DEF Reconcile
  <2>2. /\ requests[h].kind = "reconcile" /\ requests[h].expected # NotRead /\ Done(h)
        /\ UNCHANGED <<slot_order, member_ref, circles>>
    BY <1>2 DEF Reconcile
  <2>3. Matches(c, requests[h].expected, requests[h].draft)
    BY <2>1 DEF Found
  <2>4. QED
    BY <2>1, <2>2, <2>3, RecordKeeps
<1>3. QED
  BY <1>1, <1>2

LEMMA StepInv == DraftsInv /\ [Next]_vars => DraftsInv'
<1> SUFFICES ASSUME DraftsInv, [Next]_vars PROVE DraftsInv'
  OBVIOUS
<1>1. ASSUME NEW order \in PayoutOrders, NEW amount \in Amounts, create_circle(order, amount)
      PROVE  DraftsInv'
  BY <1>1, CreateCircleKeeps
<1>2. ASSUME NEW d \in Drafts, NEW amount \in Amounts, createDraft(d, amount) PROVE DraftsInv'
  BY <1>2, CreateDraftKeeps
<1>3. ASSUME NEW h \in Handlers,
             \/ acceptInvite(h) \/ reorderSlots(h) \/ ReadPlaces(h) \/ ReportCreated(h)
             \/ Reconcile(h) \/ EndWithoutEffect(h)
      PROVE  DraftsInv'
  BY <1>3, AcceptKeeps, ReorderKeeps, ReadPlacesKeeps, RecordsKeep, EndWithoutEffectKeeps
<1>4. ASSUME NEW h \in Handlers, NEW d \in Drafts,
             \/ \E s \in Slots, m \in Members : BeginAccept(h, d, s, m)
             \/ \E order \in [Slots -> Slots] : BeginOrder(h, d, order)
             \/ \E c \in 1..MaxCircles : BeginCreated(h, d, c)
             \/ BeginReconcile(h, d)
      PROVE  DraftsInv'
  BY <1>4, BeginsKeep
<1>5. CASE UNCHANGED vars
  <2>1. UNCHANGED <<circle_drafts, slot_order, member_ref, circles, requests>>
    BY <1>5 DEF vars, tables
  <2>2. QED
    BY <2>1 DEF DraftsInv, TypeOK, OnePlaceEach, ReadyWhenFull, CreatedHoldsItsMembers,
                PlacesHeld, ListsOfAll, Unheld, Full, Exists
<1>6. QED
  BY <1>1, <1>2, <1>3, <1>4, <1>5 DEF Next

\* The invariant of the drafts, which the theorems below are parts of.
THEOREM DraftsInvariant == Spec => []DraftsInv
BY InitInv, StepInv, PTL DEF Spec

\* The tables keep the types and the constraints of the schema, and the
\* positions of a draft remain a numbering of its places.
THEOREM DraftsTypeCorrect == Spec => []TypeOK
<1>1. DraftsInv => TypeOK
  BY DEF DraftsInv
<1>2. QED
  BY <1>1, DraftsInvariant, PTL

\* However many invites of a draft are accepted at once, nobody gets two places.
THEOREM OnePlaceEachHolds == Spec => []OnePlaceEach
<1>1. DraftsInv => OnePlaceEach
  BY DEF DraftsInv
<1>2. QED
  BY <1>1, DraftsInvariant, PTL

\* A draft is ready, or created, exactly when every place is taken.
THEOREM ReadyWhenFullHolds == Spec => []ReadyWhenFull
<1>1. DraftsInv => ReadyWhenFull
  BY DEF DraftsInv
<1>2. QED
  BY <1>1, DraftsInvariant, PTL

\* The record of a creation, by report or by search, from however stale a
\* reading of the draft, is of a circle on its terms and of its people.
THEOREM CreatedHoldsItsMembersHolds == Spec => []CreatedHoldsItsMembers
<1>1. DraftsInv => CreatedHoldsItsMembers
  BY DEF DraftsInv
<1>2. QED
  BY <1>1, DraftsInvariant, PTL

-----------------------------------------------------------------------------
(* Places *)

LEMMA StepKeepsPlaces == DraftsInv /\ [Next]_vars => KeepsPlaces
<1> SUFFICES ASSUME DraftsInv, [Next]_vars PROVE KeepsPlaces
  OBVIOUS
<1>1. UNCHANGED member_ref => KeepsPlaces
  BY DEF KeepsPlaces
<1>2. ASSUME NEW h \in Handlers, acceptInvite(h) PROVE KeepsPlaces
  BY <1>2, AcceptKeeps
<1>3. ASSUME NEW h \in Handlers,
             \/ reorderSlots(h) \/ ReadPlaces(h) \/ ReportCreated(h) \/ Reconcile(h)
             \/ EndWithoutEffect(h)
      PROVE  UNCHANGED member_ref
  BY <1>3 DEF reorderSlots, ReadPlaces, ReportCreated, Reconcile, EndWithoutEffect, tables
<1>4. ASSUME NEW h \in Handlers, NEW d \in Drafts,
             \/ \E s \in Slots, m \in Members : BeginAccept(h, d, s, m)
             \/ \E order \in [Slots -> Slots] : BeginOrder(h, d, order)
             \/ \E c \in 1..MaxCircles : BeginCreated(h, d, c)
             \/ BeginReconcile(h, d)
      PROVE  UNCHANGED member_ref
  BY <1>4 DEF BeginAccept, BeginOrder, BeginCreated, BeginReconcile, Begin, tables
<1>5. ASSUME NEW x, NEW y, create_circle(x, y) \/ createDraft(x, y) PROVE UNCHANGED member_ref
  BY <1>5 DEF create_circle, createDraft, tables
<1>6. CASE UNCHANGED vars
  BY <1>1, <1>6 DEF vars, tables
<1>7. QED
  BY <1>1, <1>2, <1>3, <1>4, <1>5, <1>6 DEF Next

\* A place that was taken stays with its holder, through everything.
THEOREM PlaceKeptHolds == Spec => PlaceKept
<1>1. DraftsInv /\ [Next]_vars => [KeepsPlaces]_vars
  BY StepKeepsPlaces
<1>2. QED
  BY <1>1, DraftsInvariant, PTL DEF Spec, PlaceKept

-----------------------------------------------------------------------------
(* What the map needs to know beside the invariant of the drafts *)

\* A draft that is not there yet has its places in the order of the schema, and
\* no request to reorder it; and every circle has an id within the bound.
StoreInv ==
  /\ \A d \in Drafts : ~Exists(d) => \A i \in Slots : slot_order[d][i] = i
  /\ \A h \in Handlers : requests[h].kind = "order" => Exists(requests[h].draft)
  /\ Len(circles) <= MaxCircles

LEMMA InitStore == Init => StoreInv
<1> SUFFICES ASSUME Init PROVE StoreInv
  OBVIOUS
<1>1. \A d \in Drafts, i \in Slots : slot_order[d][i] = i
  BY DEF Init
<1>2. \A h \in Handlers : requests[h].kind # "order"
  BY DEF Init, Idle
<1>3. Len(circles) <= MaxCircles
  BY DraftsAssumption DEF Init
<1>4. QED
  BY <1>1, <1>2, <1>3 DEF StoreInv

\* No draft goes away, only the places of a draft that is there are reordered,
\* and a request to reorder is begun only then.
LEMMA StoreKept ==
  ASSUME TypeOK, StoreInv,
         \A d \in Drafts : Exists(d) => circle_drafts'[d].status # "absent",
         \A d \in Drafts : ~Exists(d) => slot_order'[d] = slot_order[d],
         \A h \in Handlers : requests'[h].kind = "order" =>
           \/ requests'[h] = requests[h]
           \/ circle_drafts'[requests'[h].draft].status # "absent",
         Len(circles') <= MaxCircles
  PROVE  StoreInv'
<1>1. ASSUME NEW d \in Drafts, ~Exists(d)'
      PROVE  \A i \in Slots : slot_order'[d][i] = i
  BY <1>1 DEF StoreInv, Exists
<1>2. ASSUME NEW h \in Handlers, requests'[h].kind = "order"
      PROVE  circle_drafts'[requests'[h].draft].status # "absent"
  BY <1>2, RequestTypes DEF StoreInv, Exists
<1>3. QED
  BY <1>1, <1>2 DEF StoreInv, Exists

\* A request is begun, ended or continued, and nothing else.
LEMMA RequestKeepsStore ==
  ASSUME TypeOK, StoreInv, NEW h \in Handlers, NEW r,
         requests' = [requests EXCEPT ![h] = r], UNCHANGED <<tables, circles>>,
         r.kind = "order" => Exists(r.draft)
  PROVE  StoreInv'
<1>1. circle_drafts' = circle_drafts /\ slot_order' = slot_order /\ circles' = circles
  BY DEF tables
<1>2. \A g \in Handlers : requests'[g] = requests[g] \/ requests'[g] = r
  BY DEF TypeOK
<1>3. QED
  BY <1>1, <1>2, StoreKept DEF StoreInv, Exists

LEMMA BeginsKeepStore ==
  ASSUME TypeOK, StoreInv, NEW h \in Handlers, NEW d \in Drafts,
         \/ \E s \in Slots, m \in Members : BeginAccept(h, d, s, m)
         \/ \E order \in [Slots -> Slots] : BeginOrder(h, d, order)
         \/ \E c \in 1..MaxCircles : BeginCreated(h, d, c)
         \/ BeginReconcile(h, d)
  PROVE  StoreInv'
<1>1. ASSUME NEW r, Begin(h, r), r.kind = "order" => Exists(r.draft) PROVE StoreInv'
  BY <1>1, RequestKeepsStore DEF Begin
<1>2. QED
  BY <1>1 DEF BeginAccept, BeginOrder, BeginCreated, BeginReconcile

\* The row of a draft, as what the statements of the routes leave in it.
Row(t, amount, c) == [status |-> t, contribution_amount |-> amount, circle_id |-> c]

\* The status of a draft is only ever set to one of a draft that is there.
LEMMA StatusSet ==
  ASSUME TypeOK, NEW d \in Drafts, NEW t \in {"draft", "ready", "created"}, NEW amount, NEW c,
         circle_drafts' = [circle_drafts EXCEPT ![d] = Row(t, amount, c)]
  PROVE  \A e \in Drafts : Exists(e) => circle_drafts'[e].status # "absent"
<1>1. Row(t, amount, c).status # "absent"
  BY DEF Row
<1>2. QED
  BY <1>1 DEF TypeOK, Exists

LEMMA StatusChanged ==
  ASSUME TypeOK, NEW d \in Drafts, Exists(d), NEW t
  PROVE  [circle_drafts EXCEPT ![d].status = t]
           = [circle_drafts EXCEPT ![d] =
               Row(t, circle_drafts[d].contribution_amount, circle_drafts[d].circle_id)]
<1>1. circle_drafts[d] \in [status : {"draft", "ready", "created"},
                            contribution_amount : Amounts, circle_id : Nat]
  BY DEF TypeOK, DraftRow, Exists
<1>2. [circle_drafts[d] EXCEPT !.status = t]
        = Row(t, circle_drafts[d].contribution_amount, circle_drafts[d].circle_id)
  BY <1>1 DEF Row
<1>3. [circle_drafts EXCEPT ![d].status = t]
        = [circle_drafts EXCEPT ![d] = [circle_drafts[d] EXCEPT !.status = t]]
  OBVIOUS
<1>4. QED
  BY <1>2, <1>3

LEMMA CircleChanged ==
  ASSUME TypeOK, NEW d \in Drafts, Exists(d), NEW c, NEW t
  PROVE  [circle_drafts EXCEPT ![d].circle_id = c, ![d].status = t]
           = [circle_drafts EXCEPT ![d] = Row(t, circle_drafts[d].contribution_amount, c)]
<1> DEFINE r == circle_drafts[d]
           q == [r EXCEPT !.circle_id = c]
<1>1. r \in [status : {"draft", "ready", "created"}, contribution_amount : Amounts,
             circle_id : Nat]
  BY DEF TypeOK, DraftRow, Exists
<1>2. q = Row(r.status, r.contribution_amount, c)
  BY <1>1 DEF Row
<1>3. [Row(r.status, r.contribution_amount, c) EXCEPT !.status = t]
        = Row(t, r.contribution_amount, c)
  BY DEF Row
<1>4. [r EXCEPT !.circle_id = c, !.status = t] = [q EXCEPT !.status = t]
  BY <1>1
<1>5. [circle_drafts EXCEPT ![d].circle_id = c, ![d].status = t]
        = [circle_drafts EXCEPT ![d] = [r EXCEPT !.circle_id = c, !.status = t]]
  BY DEF TypeOK
<1>6. QED
  BY <1>2, <1>3, <1>4, <1>5

LEMMA HandlersKeepStore ==
  ASSUME DraftsInv, StoreInv, NEW h \in Handlers,
         \/ acceptInvite(h) \/ reorderSlots(h) \/ ReadPlaces(h) \/ ReportCreated(h)
         \/ Reconcile(h) \/ EndWithoutEffect(h)
  PROVE  StoreInv'
<1>1. TypeOK
  BY DEF DraftsInv
<1>2. CASE ReadPlaces(h)
  <2>1. PICK list : requests' = [requests EXCEPT ![h].expected = list]
    BY <1>2 DEF ReadPlaces
  <2>2. requests' = [requests EXCEPT ![h] = [requests[h] EXCEPT !.expected = list]]
    BY <2>1
  <2>3. [requests[h] EXCEPT !.expected = list].kind # "order"
    <3>1. requests[h].kind \in {"created", "reconcile"} /\ requests[h] \in Request
      BY <1>1, <1>2 DEF ReadPlaces, TypeOK
    <3>2. QED
      BY <3>1 DEF Request, Idle
  <2>4. QED
    BY <1>1, <1>2, <2>2, <2>3, RequestKeepsStore DEF ReadPlaces
<1>3. CASE EndWithoutEffect(h)
  BY <1>1, <1>3, RequestKeepsStore DEF EndWithoutEffect, Done, Idle
<1>4. ASSUME Done(h), circles' = circles,
             \A d \in Drafts : Exists(d) => circle_drafts'[d].status # "absent",
             \A d \in Drafts : ~Exists(d) => slot_order'[d] = slot_order[d]
      PROVE  StoreInv'
  <2>1. \A g \in Handlers : requests'[g].kind = "order" => requests'[g] = requests[g]
    BY <1>1, <1>4 DEF Done, TypeOK, Idle
  <2>2. QED
    BY <1>1, <1>4, <2>1, StoreKept DEF StoreInv
<1>5. CASE acceptInvite(h)
  <2> DEFINE d == requests[h].draft
  <2>1. PICK t : /\ Done(h) /\ UNCHANGED <<slot_order, circles>> /\ requests[h].kind = "accept"
                 /\ circle_drafts' = [circle_drafts EXCEPT ![d].status = t] /\ t \in {"draft", "ready"}
    BY <1>5 DEF acceptInvite, deriveStatus
  <2>2. d \in Drafts /\ Exists(d)
    BY <1>1, <2>1, RequestTypes DEF DraftsInv, PlacesHeld
  <2>3. circle_drafts' = [circle_drafts EXCEPT ![d] =
          Row(t, circle_drafts[d].contribution_amount, circle_drafts[d].circle_id)]
    BY <1>1, <2>1, <2>2, StatusChanged
  <2>4. \A e \in Drafts : Exists(e) => circle_drafts'[e].status # "absent"
    <3>1. t \in {"draft", "ready", "created"}
      BY <2>1
    <3>2. QED
      BY <1>1, <2>2, <2>3, <3>1, StatusSet
  <2>5. QED
    BY <1>4, <2>1, <2>4
<1>6. CASE reorderSlots(h)
  <2>1. /\ Done(h) /\ UNCHANGED <<circle_drafts, circles>> /\ requests[h].kind = "order"
        /\ slot_order' = [slot_order EXCEPT ![requests[h].draft] = requests[h].order]
    BY <1>6 DEF reorderSlots
  <2>2. requests[h].draft \in Drafts /\ Exists(requests[h].draft)
    BY <1>1, <2>1, RequestTypes DEF StoreInv
  <2>3. \A d \in Drafts : ~Exists(d) => slot_order'[d] = slot_order[d]
    BY <1>1, <2>1, <2>2 DEF TypeOK
  <2>4. QED
    BY <1>4, <2>1, <2>3 DEF Exists
<1>7. ASSUME NEW c \in Nat, markCreated(requests[h].draft, c), Done(h), UNCHANGED <<slot_order, circles>>,
             requests[h].kind \in {"created", "reconcile"}
      PROVE  StoreInv'
  <2> DEFINE d == requests[h].draft
  <2>1. d \in Drafts /\ Exists(d)
    BY <1>1, <1>7, RequestTypes DEF DraftsInv, ListsOfAll
  <2>2. circle_drafts' = [circle_drafts EXCEPT ![d] =
          Row("created", circle_drafts[d].contribution_amount, c)]
    BY <1>1, <1>7, <2>1, CircleChanged DEF markCreated
  <2>3. \A e \in Drafts : Exists(e) => circle_drafts'[e].status # "absent"
    BY <1>1, <2>1, <2>2, StatusSet
  <2>4. QED
    BY <1>4, <1>7, <2>3
<1>8. CASE ReportCreated(h)
  <2>1. requests[h].circle \in Nat
    BY <1>1, <1>8, RequestTypes DEF ReportCreated
  <2>2. QED
    BY <1>7, <1>8, <2>1 DEF ReportCreated
<1>9. CASE Reconcile(h)
  <2>1. DOMAIN circles \subseteq Nat
    BY <1>1 DEF TypeOK
  <2>2. QED
    BY <1>7, <1>9, <2>1 DEF Reconcile
<1>10. QED
  BY <1>2, <1>3, <1>5, <1>6, <1>8, <1>9

LEMMA StepStore == DraftsInv /\ StoreInv /\ [Next]_vars => StoreInv'
<1> SUFFICES ASSUME DraftsInv, StoreInv, [Next]_vars PROVE StoreInv'
  OBVIOUS
<1>1. TypeOK
  BY DEF DraftsInv
<1>2. ASSUME NEW order \in PayoutOrders, NEW amount \in Amounts, create_circle(order, amount)
      PROVE  StoreInv'
  <2>1. /\ Len(circles) < MaxCircles /\ UNCHANGED <<circle_drafts, slot_order, requests>>
        /\ \E c : circles' = Append(circles, c)
    BY <1>2 DEF create_circle, tables
  <2>2. circles \in Seq([payout_order : PayoutOrders, contribution_amount : Amounts])
    BY <1>1 DEF TypeOK
  <2>3. Len(circles') = Len(circles) + 1 /\ Len(circles) \in Nat
    BY <2>1, <2>2
  <2>4. Len(circles') <= MaxCircles
    BY <2>1, <2>3, DraftsAssumption
  <2>5. QED
    BY <1>1, <2>1, <2>4, StoreKept DEF Exists
<1>3. ASSUME NEW d \in Drafts, NEW amount \in Amounts, createDraft(d, amount) PROVE StoreInv'
  <2>1. /\ UNCHANGED <<slot_order, circles, requests>>
        /\ circle_drafts' = [circle_drafts EXCEPT ![d] =
             [status |-> "draft", contribution_amount |-> amount, circle_id |-> NoCircle]]
    BY <1>3 DEF createDraft
  <2>2. \A e \in Drafts : Exists(e) => circle_drafts'[e].status # "absent"
    BY <1>1, <2>1 DEF TypeOK, Exists
  <2>3. QED
    BY <1>1, <2>1, <2>2, StoreKept DEF StoreInv
<1>4. CASE UNCHANGED vars
  BY <1>1, <1>4, StoreKept DEF vars, tables, StoreInv, Exists
<1>5. QED
  BY <1>1, <1>2, <1>3, <1>4, BeginsKeepStore, HandlersKeepStore DEF Next

\* Both invariants together, which the steps below start from.
THEOREM StoreInvariant == Spec => [](DraftsInv /\ StoreInv)
<1>1. DraftsInv /\ StoreInv /\ [Next]_vars => DraftsInv' /\ StoreInv'
  BY StepInv, StepStore
<1>2. QED
  BY <1>1, InitInv, InitStore, PTL DEF Spec

-----------------------------------------------------------------------------
(* The map of drafts *)

\* A step that leaves the rows alone leaves the map alone.
LEMMA SameRowsSameMap ==
  ASSUME UNCHANGED tables
  PROVE  UNCHANGED StoredDrafts
<1>1. /\ circle_drafts' = circle_drafts /\ slot_order' = slot_order /\ member_ref' = member_ref
  BY DEF tables
<1>2. QED
  BY <1>1 DEF StoredDrafts, StoredDraft, Exists

\* A step that leaves the rows of all drafts but one alone, and neither makes
\* nor removes a draft, stores that one again.
LEMMA OneDraftStored ==
  ASSUME NEW d \in Drafts, Exists(d), Exists(d)',
         \A e \in Drafts \ {d} : /\ circle_drafts'[e] = circle_drafts[e]
                                 /\ slot_order'[e] = slot_order[e]
                                 /\ member_ref'[e] = member_ref[e]
  PROVE  /\ d \in DOMAIN StoredDrafts
         /\ StoredDrafts[d] = StoredDraft(d)
         /\ Memory!Changed(d, StoredDraft(d)')
<1>1. \A e \in Drafts \ {d} : StoredDraft(e)' = StoredDraft(e) /\ (Exists(e)' <=> Exists(e))
  BY DEF StoredDraft, Exists
<1>2. {e \in Drafts : Exists(e)}' = {e \in Drafts : Exists(e)}
  BY <1>1
<1>3. QED
  BY <1>1, <1>2 DEF StoredDrafts, Memory!Changed

LEMMA CreateIsStored ==
  ASSUME NEW d \in Drafts, NEW amount \in Amounts, DraftsInv, StoreInv, createDraft(d, amount)
  PROVE  Memory!createDraft(d, amount)
<1> DEFINE new == [contributionAmount |-> amount, status |-> "draft", circleId |-> NoCircle,
                   slots |-> [i \in Memory!Places |-> [slotId |-> i, memberRef |-> NotTaken]]]
<1>1. /\ ~Exists(d)
      /\ circle_drafts' = [circle_drafts EXCEPT ![d] =
           [status |-> "draft", contribution_amount |-> amount, circle_id |-> NoCircle]]
      /\ slot_order' = slot_order /\ member_ref' = member_ref
  BY DEF createDraft
<1>2. circle_drafts \in [Drafts -> DraftRow]
  BY DEF DraftsInv, TypeOK
<1>3. /\ Exists(d)'
      /\ \A e \in Drafts \ {d} : StoredDraft(e)' = StoredDraft(e) /\ (Exists(e)' <=> Exists(e))
  BY <1>1, <1>2 DEF StoredDraft, Exists
<1>4. \A i \in Slots : slot_order[d][i] = i /\ member_ref[d][i] = NotTaken
  BY <1>1 DEF DraftsInv, StoreInv, Unheld
<1>5. StoredDraft(d)' = new
  BY <1>1, <1>2, <1>4 DEF StoredDraft, Memory!Places, Slots
<1>6. {e \in Drafts : Exists(e)}' = {e \in Drafts : Exists(e)} \cup {d}
  BY <1>3
<1>7. DOMAIN StoredDrafts = {e \in Drafts : Exists(e)}
  BY DEF StoredDrafts
<1>8. StoredDrafts' = [x \in DOMAIN StoredDrafts \cup {d} |->
                         IF x = d THEN new ELSE StoredDrafts[x]]
  BY <1>3, <1>5, <1>6, <1>7 DEF StoredDrafts
<1>9. QED
  BY <1>1, <1>7, <1>8 DEF Memory!createDraft

\* The places of a draft in an order, as the map holds them.
Placed(order, holder) ==
  [i \in Slots |-> [slotId |-> order[i], memberRef |-> holder[order[i]]]]

LEMMA PlacedIsPermutation ==
  ASSUME NEW holder \in [Slots -> Members \cup {NotTaken}],
         NEW p \in Bijection(Slots, Slots), NEW q \in Bijection(Slots, Slots)
  PROVE  /\ Placed(q, holder) \in [Slots -> [slotId : Slots, memberRef : Members \cup {NotTaken}]]
         /\ \A i \in Slots : \E j \in Slots : Placed(q, holder)[j] = Placed(p, holder)[i]
         /\ Placed(q, holder) \in [Slots -> {Placed(p, holder)[i] : i \in Slots}]
<1>1. /\ \A i \in Slots : p[i] \in Slots /\ q[i] \in Slots
      /\ \A t \in Slots : \E i \in Slots : p[i] = t
      /\ \A t \in Slots : \E i \in Slots : q[i] = t
  BY DEF Bijection, Injection, Surjection
<1>2. /\ \A i \in Slots : Placed(q, holder)[i] = [slotId |-> q[i], memberRef |-> holder[q[i]]]
      /\ \A i \in Slots : Placed(p, holder)[i] = [slotId |-> p[i], memberRef |-> holder[p[i]]]
  BY DEF Placed
<1>3. \A i \in Slots : \E j \in Slots : q[j] = p[i]
  BY <1>1
<1>4. \A i \in Slots : \E j \in Slots : p[j] = q[i]
  BY <1>1
<1>5. /\ \A i \in Slots : \E j \in Slots : Placed(q, holder)[j] = Placed(p, holder)[i]
      /\ \A i \in Slots : \E j \in Slots : Placed(p, holder)[j] = Placed(q, holder)[i]
  <2>1. ASSUME NEW i \in Slots PROVE \E j \in Slots : Placed(q, holder)[j] = Placed(p, holder)[i]
    <3>1. PICK j \in Slots : q[j] = p[i]
      BY <1>3
    <3>2. Placed(q, holder)[j] = Placed(p, holder)[i]
      BY <1>2, <3>1
    <3>3. QED
      BY <3>2
  <2>2. ASSUME NEW i \in Slots PROVE \E j \in Slots : Placed(p, holder)[j] = Placed(q, holder)[i]
    <3>1. PICK j \in Slots : p[j] = q[i]
      BY <1>4
    <3>2. Placed(p, holder)[j] = Placed(q, holder)[i]
      BY <1>2, <3>1
    <3>3. QED
      BY <3>2
  <2>3. QED
    BY <2>1, <2>2
<1>6. \A i \in Slots : Placed(q, holder)[i] \in {Placed(p, holder)[j] : j \in Slots}
  BY <1>5
<1>7. Placed(q, holder) \in [Slots -> [slotId : Slots, memberRef : Members \cup {NotTaken}]]
  BY <1>1 DEF Placed
<1>8. Placed(q, holder) = [i \in Slots |-> Placed(q, holder)[i]]
  BY <1>7
<1>9. QED
  BY <1>5, <1>6, <1>7, <1>8

\* The places, with one given to a member.
Given(slots, s, m) ==
  [i \in Slots |-> IF slots[i].slotId = s THEN [slotId |-> s, memberRef |-> m] ELSE slots[i]]

\* What an acceptance reads and leaves: the place is there as it is held, every
\* place is held by somebody the draft knows, and the new list is full when the
\* new holders are.
TakenFacts(old, new, holder, taken, s, m) ==
  /\ Given(old, s, m) = new
  /\ (\A i \in Slots : new[i].memberRef # NotTaken) <=> (\A t \in Slots : taken[t] # NotTaken)
  /\ \E i \in Slots : old[i].slotId = s /\ old[i].memberRef = holder[s]
  /\ \A i \in Slots : \E t \in Slots : old[i].memberRef = holder[t]

LEMMA PlacedTaken ==
  ASSUME NEW holder \in [Slots -> Members \cup {NotTaken}],
         NEW order \in Bijection(Slots, Slots), NEW s \in Slots, NEW m \in Members,
         NEW taken, taken = [holder EXCEPT ![s] = m]
  PROVE  TakenFacts(Placed(order, holder), Placed(order, taken), holder, taken, s, m)
<1>1. /\ \A i \in Slots : order[i] \in Slots
      /\ \A t \in Slots : \E i \in Slots : order[i] = t
  BY DEF Bijection, Injection, Surjection
<1>2. /\ \A i \in Slots : Placed(order, holder)[i].slotId = order[i]
      /\ \A i \in Slots : Placed(order, holder)[i].memberRef = holder[order[i]]
      /\ \A i \in Slots :
           Placed(order, holder)[i] = [slotId |-> order[i], memberRef |-> holder[order[i]]]
      /\ \A i \in Slots : Placed(order, taken)[i].memberRef = taken[order[i]]
  BY DEF Placed
<1>3. \A t \in Slots : taken[t] = IF t = s THEN m ELSE holder[t]
  OBVIOUS
<1>4. \A i \in Slots : (IF Placed(order, holder)[i].slotId = s
                        THEN [slotId |-> s, memberRef |-> m]
                        ELSE Placed(order, holder)[i])
                       = [slotId |-> order[i], memberRef |-> taken[order[i]]]
  BY <1>1, <1>2, <1>3
<1>5. Given(Placed(order, holder), s, m) = Placed(order, taken)
  BY <1>4 DEF Given, Placed
<1>6. (\A i \in Slots : Placed(order, taken)[i].memberRef # NotTaken)
         <=> (\A t \in Slots : taken[t] # NotTaken)
  <2>1. ASSUME NEW t \in Slots, \A i \in Slots : Placed(order, taken)[i].memberRef # NotTaken
        PROVE  taken[t] # NotTaken
    <3>1. PICK i \in Slots : order[i] = t
      BY <1>1
    <3>2. QED
      BY <1>2, <2>1, <3>1
  <2>2. ASSUME NEW i \in Slots, \A t \in Slots : taken[t] # NotTaken
        PROVE  Placed(order, taken)[i].memberRef # NotTaken
    <3>1. order[i] \in Slots /\ taken[order[i]] # NotTaken
      BY <1>1, <2>2
    <3>2. QED
      BY <1>2, <3>1
  <2>3. QED
    BY <2>1, <2>2
<1>7. \E i \in Slots : /\ Placed(order, holder)[i].slotId = s
                       /\ Placed(order, holder)[i].memberRef = holder[s]
  <2>1. PICK i \in Slots : order[i] = s
    BY <1>1
  <2>2. /\ Placed(order, holder)[i].slotId = s
        /\ Placed(order, holder)[i].memberRef = holder[s]
    BY <1>2, <2>1
  <2>3. QED
    BY <2>2
<1>8. \A i \in Slots : \E t \in Slots : Placed(order, holder)[i].memberRef = holder[t]
  BY <1>1, <1>2
<1>9. QED
  BY <1>5, <1>6, <1>7, <1>8 DEF TakenFacts

\* The place is still free and the member holds no other when the acceptance
\* commits, and the new status is that of the places as they are then.
LEMMA AcceptIsStored ==
  ASSUME NEW h \in Handlers, DraftsInv, acceptInvite(h),
         NEW d, NEW s, NEW m,
         requests[h].draft = d, requests[h].slot = s, requests[h].member = m
  PROVE  Memory!acceptInvite(d, s, m)
<1> DEFINE taken == [member_ref[d] EXCEPT ![s] = m]
           old   == Placed(slot_order[d], member_ref[d])
           new   == Placed(slot_order[d], taken)
<1>1. /\ slot_order' = slot_order /\ requests[h].kind = "accept"
      /\ circle_drafts[d].status # "created" /\ ~Duplicate(d, m)
      /\ member_ref' = [member_ref EXCEPT ![d] = taken]
      /\ circle_drafts' = [circle_drafts EXCEPT ![d].status = deriveStatus(taken)]
  BY DEF acceptInvite
<1>2. /\ TypeOK /\ d \in Drafts /\ s \in Slots /\ m \in Members
      /\ Exists(d) /\ member_ref[d][s] = NotTaken
  BY <1>1, RequestTypes DEF DraftsInv, PlacesHeld
<1>3. /\ member_ref[d] \in [Slots -> Members \cup {NotTaken}]
      /\ slot_order[d] \in Bijection(Slots, Slots)
  BY <1>2 DEF TypeOK
<1>4. taken = [member_ref[d] EXCEPT ![s] = m]
  OBVIOUS
<1>5. PICK status \in {"draft", "ready", "created"} : status = deriveStatus(taken)
  BY DEF deriveStatus
<1> HIDE DEF taken
<1>6. circle_drafts' = [circle_drafts EXCEPT ![d] =
        Row(status, circle_drafts[d].contribution_amount, circle_drafts[d].circle_id)]
  BY <1>1, <1>2, <1>5, StatusChanged
<1>7. /\ circle_drafts'[d] = Row(status, circle_drafts[d].contribution_amount,
                                 circle_drafts[d].circle_id)
      /\ member_ref'[d] = taken
      /\ \A e \in Drafts \ {d} : /\ circle_drafts'[e] = circle_drafts[e]
                                 /\ slot_order'[e] = slot_order[e]
                                 /\ member_ref'[e] = member_ref[e]
  BY <1>1, <1>2, <1>6 DEF TypeOK
<1>8. Exists(d)'
  BY <1>7 DEF Exists, Row
<1>9. /\ d \in DOMAIN StoredDrafts /\ StoredDrafts[d] = StoredDraft(d)
      /\ Memory!Changed(d, StoredDraft(d)')
  BY <1>2, <1>7, <1>8, OneDraftStored
<1>10. TakenFacts(old, new, member_ref[d], taken, s, m)
  BY <1>2, <1>3, <1>4, PlacedTaken
<1>11. \A i \in Slots : old[i].memberRef # m
  BY <1>1, <1>10 DEF Duplicate, TakenFacts
<1>12. /\ StoredDraft(d).slots = old
       /\ StoredDraft(d).status = circle_drafts[d].status
  BY DEF StoredDraft, Placed
<1>13. StoredDraft(d)' = [contributionAmount |-> StoredDraft(d).contributionAmount,
                          status |-> status, circleId |-> StoredDraft(d).circleId, slots |-> new]
  BY <1>1, <1>7 DEF StoredDraft, Row, Placed
<1>14. Memory!Places = Slots
  BY DEF Memory!Places, Slots
<1> HIDE DEF old, new
<1>15. Memory!deriveStatus(new) = status
  BY <1>5, <1>10, <1>14 DEF Memory!deriveStatus, deriveStatus, TakenFacts
<1>16. StoredDraft(d).status \notin {"created", "abandoned"}
  BY <1>1, <1>2, <1>12, RowTypes
<1>17. QED
  <2>1. \E i \in Memory!Places : /\ StoredDrafts[d].slots[i].slotId = s
                                 /\ StoredDrafts[d].slots[i].memberRef = NotTaken
    BY <1>2, <1>9, <1>10, <1>12, <1>14 DEF TakenFacts
  <2>2. \A i \in Memory!Places : StoredDrafts[d].slots[i].memberRef # m
    BY <1>9, <1>11, <1>12, <1>14
  <2>3. [i \in Memory!Places |-> IF StoredDrafts[d].slots[i].slotId = s
                                THEN [slotId |-> s, memberRef |-> m]
                                ELSE StoredDrafts[d].slots[i]]
          = new
    BY <1>9, <1>10, <1>12, <1>14 DEF TakenFacts, Given
  <2>4. QED
    BY <1>9, <1>13, <1>15, <1>16, <2>1, <2>2, <2>3 DEF Memory!acceptInvite

\* A new numbering of the places is a permutation of what the draft carries.
LEMMA ReorderIsStored ==
  ASSUME NEW h \in Handlers, DraftsInv, StoreInv, reorderSlots(h),
         NEW d, requests[h].draft = d
  PROVE  \E slots \in [Memory!Places ->
                         [slotId : Memory!Places, memberRef : Members \cup {NotTaken}]] :
           Memory!reorderSlots(d, slots)
<1> DEFINE old == Placed(slot_order[d], member_ref[d])
           new == Placed(slot_order'[d], member_ref[d])
<1>1. /\ circle_drafts' = circle_drafts /\ member_ref' = member_ref
      /\ requests[h].kind = "order" /\ requests[h].order \in Bijection(Slots, Slots)
      /\ slot_order' = [slot_order EXCEPT ![d] = requests[h].order]
  BY DEF reorderSlots, IsPermutation
<1>2. TypeOK /\ d \in Drafts /\ Exists(d)
  BY <1>1, RequestTypes DEF DraftsInv, StoreInv
<1>3. /\ d \in DOMAIN StoredDrafts /\ StoredDrafts[d] = StoredDraft(d)
      /\ Memory!Changed(d, StoredDraft(d)')
  <2>1. \A e \in Drafts \ {d} : /\ circle_drafts'[e] = circle_drafts[e]
                                /\ slot_order'[e] = slot_order[e]
                                /\ member_ref'[e] = member_ref[e]
    BY <1>1, <1>2 DEF TypeOK
  <2>2. Exists(d)'
    BY <1>1, <1>2 DEF Exists
  <2>3. QED
    BY <1>2, <2>1, <2>2, OneDraftStored
<1>4. /\ member_ref[d] \in [Slots -> Members \cup {NotTaken}]
      /\ slot_order[d] \in Bijection(Slots, Slots)
      /\ slot_order'[d] \in Bijection(Slots, Slots)
  BY <1>1, <1>2 DEF TypeOK
<1>5. /\ new \in [Slots -> [slotId : Slots, memberRef : Members \cup {NotTaken}]]
      /\ \A i \in Slots : \E j \in Slots : new[j] = old[i]
      /\ new \in [Slots -> {old[i] : i \in Slots}]
  BY <1>4, PlacedIsPermutation
<1>6. StoredDraft(d).slots = old
  BY DEF StoredDraft, Placed
<1>7. StoredDraft(d)' = [contributionAmount |-> StoredDraft(d).contributionAmount,
                         status |-> StoredDraft(d).status,
                         circleId |-> StoredDraft(d).circleId, slots |-> new]
  BY <1>1 DEF StoredDraft, Placed
<1>8. Memory!Places = Slots
  BY DEF Memory!Places, Slots
<1> HIDE DEF old, new
<1>9. Memory!reorderSlots(d, new)
  BY <1>3, <1>5, <1>6, <1>7, <1>8 DEF Memory!reorderSlots
<1>10. QED
  BY <1>5, <1>8, <1>9

LEMMA RecordIsStored ==
  ASSUME NEW d \in Drafts, NEW c \in Nat, TypeOK, Exists(d), markCreated(d, c),
         UNCHANGED <<slot_order, member_ref>>
  PROVE  d \in DOMAIN StoredDrafts /\ Memory!markCreated(d, c)
<1>1. circle_drafts' = [circle_drafts EXCEPT ![d] =
        Row("created", circle_drafts[d].contribution_amount, c)]
  BY CircleChanged DEF markCreated
<1>2. circle_drafts'[d] = Row("created", circle_drafts[d].contribution_amount, c)
  BY <1>1 DEF TypeOK
<1>3. \A e \in Drafts \ {d} : circle_drafts'[e] = circle_drafts[e]
  BY <1>1 DEF TypeOK
<1>4. Exists(d)'
  BY <1>2 DEF Exists, Row
<1>5. /\ d \in DOMAIN StoredDrafts /\ StoredDrafts[d] = StoredDraft(d)
      /\ Memory!Changed(d, StoredDraft(d)')
  BY <1>3, <1>4, OneDraftStored
<1>6. StoredDraft(d)' = [contributionAmount |-> StoredDraft(d).contributionAmount,
                         status |-> "created", circleId |-> c, slots |-> StoredDraft(d).slots]
  BY <1>2 DEF StoredDraft, Row
<1>7. QED
  BY <1>5, <1>6 DEF Memory!markCreated

\* Every step of the service is one operation of the store, or none.
LEMMA StepIsStored == DraftsInv /\ StoreInv /\ [Next]_vars => [Memory!Next]_StoredDrafts
<1> SUFFICES ASSUME DraftsInv, StoreInv, [Next]_vars
             PROVE  Memory!Next \/ UNCHANGED StoredDrafts
  OBVIOUS
<1>1. TypeOK
  BY DEF DraftsInv
<1>2. ASSUME UNCHANGED tables PROVE UNCHANGED StoredDrafts
  BY <1>2, SameRowsSameMap
<1>3. ASSUME NEW x, NEW y, create_circle(x, y) PROVE UNCHANGED tables
  BY <1>3 DEF create_circle
<1>4. ASSUME NEW d \in Drafts, NEW amount \in Amounts, createDraft(d, amount) PROVE Memory!Next
  BY <1>4, CreateIsStored DEF Memory!Next
<1>5. ASSUME NEW h \in Handlers, acceptInvite(h) PROVE Memory!Next
  <2>1. requests[h].draft \in DOMAIN StoredDrafts /\ requests[h].slot \in Slots
        /\ requests[h].member \in Members
    BY <1>1, <1>5, RequestTypes DEF DraftsInv, PlacesHeld, acceptInvite, StoredDrafts
  <2>2. QED
    BY <1>5, <2>1, AcceptIsStored DEF Memory!Next, Memory!Places, Slots
<1>6. ASSUME NEW h \in Handlers, reorderSlots(h) PROVE Memory!Next
  <2>1. requests[h].draft \in DOMAIN StoredDrafts
    BY <1>1, <1>6, RequestTypes DEF StoreInv, reorderSlots, StoredDrafts
  <2>2. QED
    BY <1>6, <2>1, ReorderIsStored DEF Memory!Next
<1>7. ASSUME NEW h \in Handlers, NEW c \in DOMAIN circles, markCreated(requests[h].draft, c),
             requests[h].kind \in {"created", "reconcile"}, UNCHANGED <<slot_order, member_ref>>
      PROVE  Memory!Next
  <2>1. requests[h].draft \in Drafts /\ Exists(requests[h].draft)
    BY <1>1, <1>7, RequestTypes DEF DraftsInv, ListsOfAll
  <2>2. c \in 1..MaxCircles
    <3>1. DOMAIN circles = 1..Len(circles) /\ Len(circles) \in Nat
      BY <1>1 DEF TypeOK
    <3>2. QED
      BY <1>7, <3>1, DraftsAssumption DEF StoreInv
  <2>3. c \in Nat
    BY <2>2
  <2>4. QED
    BY <1>1, <1>7, <2>1, <2>2, <2>3, RecordIsStored DEF Memory!Next
<1>8. ASSUME NEW h \in Handlers, ReportCreated(h) PROVE Memory!Next
  BY <1>7, <1>8 DEF ReportCreated, Matches
<1>9. ASSUME NEW h \in Handlers, Reconcile(h) PROVE Memory!Next
  BY <1>7, <1>9 DEF Reconcile
<1>10. ASSUME NEW h \in Handlers, ReadPlaces(h) \/ EndWithoutEffect(h) PROVE UNCHANGED tables
  BY <1>10 DEF ReadPlaces, EndWithoutEffect
<1>11. ASSUME NEW h \in Handlers, NEW d \in Drafts,
              \/ \E s \in Slots, m \in Members : BeginAccept(h, d, s, m)
              \/ \E order \in [Slots -> Slots] : BeginOrder(h, d, order)
              \/ \E c \in 1..MaxCircles : BeginCreated(h, d, c)
              \/ BeginReconcile(h, d)
       PROVE  UNCHANGED tables
  BY <1>11 DEF BeginAccept, BeginOrder, BeginCreated, BeginReconcile, Begin
<1>12. CASE UNCHANGED vars
  BY <1>2, <1>12 DEF vars
<1>13. QED
  BY <1>2, <1>3, <1>4, <1>5, <1>6, <1>8, <1>9, <1>10, <1>11, <1>12 DEF Next

LEMMA InitIsStored == Init => Memory!Init
<1>1. Init => {e \in Drafts : Exists(e)} = {}
  BY DEF Init, Exists
<1>2. QED
  BY <1>1 DEF StoredDrafts, Memory!Init

\* However requests overlap, the tables of the service are a map of drafts on
\* which one operation of the store is done at a time.
THEOREM ImplementsMemoryStoreHolds == Spec => ImplementsMemoryStore
BY InitIsStored, StepIsStored, StoreInvariant, PTL DEF Spec, ImplementsMemoryStore, Memory!Spec

-----------------------------------------------------------------------------
(* The organizer's page: steps of the service *)

\* A view shows every place once, and of who holds them what is so.
GoodView(v) ==
  /\ DOMAIN v = {"status", "circleId", "slots"} /\ DOMAIN v.slots = Slots
  /\ \A i \in Slots : DOMAIN v.slots[i] = {"slotId", "accepted", "memberRef"}
  /\ orderOf(v) \in Bijection(Slots, Slots)
  /\ \A i \in Slots : v.slots[i].memberRef \in {NotTaken, member_ref[Draft][v.slots[i].slotId]}

PageFields == {"connected", "draft", "pendingOrder", "busy", "createdCircleId", "unrecorded"}

\* The page holds a good view or none, an arrangement of positions, and the id
\* of a circle that is there.
PageOK ==
  /\ DOMAIN page = PageFields
  /\ page.draft # NoDraft => Exists(Draft) /\ GoodView(page.draft)
  /\ page.pendingOrder # NotRead => page.pendingOrder \in [Slots -> Slots]
  /\ page.unrecorded # NoCircle => page.unrecorded \in DOMAIN circles

PollOK == poll # NoDraft => Exists(Draft) /\ GoodView(poll)

\* The circles on chain are of the people in the draft, which is full once
\* there is one.
CirclesOfDraft ==
  /\ \A c \in DOMAIN circles : Range(circles[c].payout_order) = Range(member_ref[Draft])
  /\ Len(circles) > 0 => Full(Draft)
  /\ Len(circles) <= MaxCircles

\* The page asks of a draft that is there.
AskedOK == requests[Organizer] # Idle => Exists(Draft)

OrgInv == DraftsInv /\ PageOK /\ PollOK /\ CirclesOfDraft /\ AskedOK

\* What a press or an answer sets.
LEMMA PageSets ==
  ASSUME NEW fields, DOMAIN fields \subseteq PageFields, DOMAIN page = PageFields, Page(fields)
  PROVE  /\ DOMAIN page' = PageFields
         /\ \A f \in PageFields : page'[f] = IF f \in DOMAIN fields THEN fields[f] ELSE page[f]
BY DEF Page

LEMMA ViewsAreGood ==
  ASSUME NEW order \in Bijection(Slots, Slots), NEW status, NEW circle,
         NEW ref, \A s \in Slots : ref[s] \in {NotTaken, member_ref[Draft][s]},
         NEW v, v = ViewOf(order, status, circle, ref, Draft)
  PROVE  GoodView(v)
<1>1. order \in [Slots -> Slots]
  BY DEF Bijection, Injection
<1>2. /\ DOMAIN v = {"status", "circleId", "slots"} /\ DOMAIN v.slots = Slots
      /\ \A i \in Slots : DOMAIN v.slots[i] = {"slotId", "accepted", "memberRef"}
  BY DEF ViewOf
<1>3. \A i \in Slots : v.slots[i].slotId = order[i] /\ v.slots[i].memberRef = ref[order[i]]
  BY DEF ViewOf
<1>4. orderOf(v) = order
  BY <1>1, <1>3 DEF orderOf
<1>5. \A i \in Slots : v.slots[i].memberRef \in {NotTaken, member_ref[Draft][v.slots[i].slotId]}
  BY <1>1, <1>3
<1> QED
  BY <1>2, <1>4, <1>5 DEF GoodView

LEMMA SlotOfView ==
  ASSUME NEW v, GoodView(v), NEW s \in Slots
  PROVE  LET x == CHOOSE x \in Range(v.slots) : x.slotId = s
         IN  /\ x.slotId = s /\ x \in Range(v.slots)
             /\ x.memberRef \in {NotTaken, member_ref[Draft][s]}
<1>1. orderOf(v) \in [Slots -> Slots] /\ \A t \in Slots : \E i \in Slots : orderOf(v)[i] = t
  BY DEF GoodView, Bijection, Injection, Surjection
<1>2. PICK i \in Slots : v.slots[i].slotId = s
  BY <1>1 DEF orderOf
<1>3. v.slots[i] \in Range(v.slots)
  BY DEF GoodView, Range
<1> DEFINE x == CHOOSE x \in Range(v.slots) : x.slotId = s
<1>4. x \in Range(v.slots) /\ x.slotId = s
  BY <1>2, <1>3
<1> HIDE DEF x
<1>5. PICK j \in Slots : x = v.slots[j]
  BY <1>4 DEF Range, GoodView
<1>6. x.memberRef \in {NotTaken, member_ref[Draft][s]}
  BY <1>4, <1>5 DEF GoodView
<1> QED
  BY <1>4, <1>6 DEF x

\* What the page carries over by place is still so.
LEMMA MergeIsGood ==
  ASSUME NEW fresh, NEW current, GoodView(fresh), current # NoDraft => GoodView(current),
         NEW v, v = mergePrivate(fresh, current)
  PROVE  GoodView(v)
<1>1. CASE current = NoDraft
  BY <1>1 DEF mergePrivate
<1>2. CASE current # NoDraft
  <2> DEFINE held(s) == (CHOOSE x \in Range(current.slots) : x.slotId = s).memberRef
             slots == [i \in Slots |->
               [fresh.slots[i] EXCEPT !.memberRef =
                  IF fresh.slots[i].memberRef # NotTaken THEN fresh.slots[i].memberRef
                  ELSE held(fresh.slots[i].slotId)]]
  <2>1. v = [fresh EXCEPT !.slots = slots]
    BY <1>2 DEF mergePrivate
  <2>2. \A s \in Slots : held(s) \in {NotTaken, member_ref[Draft][s]}
    BY <1>2, SlotOfView
  <2>3. /\ DOMAIN fresh = {"status", "circleId", "slots"}
        /\ \A i \in Slots : DOMAIN fresh.slots[i] = {"slotId", "accepted", "memberRef"}
        /\ orderOf(fresh) \in Bijection(Slots, Slots)
        /\ \A i \in Slots : /\ fresh.slots[i].slotId \in Slots
                             /\ fresh.slots[i].memberRef \in
                                  {NotTaken, member_ref[Draft][fresh.slots[i].slotId]}
    <3>1. orderOf(fresh) \in [Slots -> Slots]
      BY DEF GoodView, Bijection, Injection
    <3>2. \A i \in Slots : fresh.slots[i].slotId \in Slots
      BY <3>1 DEF orderOf
    <3> QED BY <3>2 DEF GoodView
  <2> HIDE DEF held
  <2>4. \A i \in Slots : slots[i] = [fresh.slots[i] EXCEPT !.memberRef =
                  IF fresh.slots[i].memberRef # NotTaken THEN fresh.slots[i].memberRef
                  ELSE held(fresh.slots[i].slotId)]
    OBVIOUS
  <2>5. DOMAIN slots = Slots
    OBVIOUS
  <2> HIDE DEF slots
  <2>6. DOMAIN v = {"status", "circleId", "slots"} /\ v.slots = slots
    BY <2>1, <2>3
  <2>7. ASSUME NEW i \in Slots
        PROVE  /\ DOMAIN v.slots[i] = {"slotId", "accepted", "memberRef"}
               /\ v.slots[i].slotId = fresh.slots[i].slotId
               /\ v.slots[i].memberRef \in {NotTaken, member_ref[Draft][v.slots[i].slotId]}
    <3>1. v.slots[i] = [fresh.slots[i] EXCEPT !.memberRef =
                  IF fresh.slots[i].memberRef # NotTaken THEN fresh.slots[i].memberRef
                  ELSE held(fresh.slots[i].slotId)]
      BY <2>4, <2>6
    <3>2. PICK f, x : f = fresh.slots[i] /\ x = (IF fresh.slots[i].memberRef # NotTaken THEN fresh.slots[i].memberRef
                  ELSE held(fresh.slots[i].slotId))
      OBVIOUS
    <3>3. v.slots[i] = [f EXCEPT !.memberRef = x] /\ DOMAIN f = {"slotId", "accepted", "memberRef"}
      BY <3>1, <3>2, <2>3
    <3>4. /\ DOMAIN v.slots[i] = {"slotId", "accepted", "memberRef"}
          /\ v.slots[i].slotId = f.slotId /\ v.slots[i].memberRef = x
      BY <3>3
    <3>5. x \in {NotTaken, member_ref[Draft][f.slotId]}
      BY <3>2, <2>2, <2>3
    <3> QED BY <3>2, <3>4, <3>5
  <2>8. orderOf(v) = orderOf(fresh)
    BY <2>7 DEF orderOf
  <2> QED BY <2>3, <2>5, <2>6, <2>7, <2>8 DEF GoodView
<1> QED
  BY <1>1, <1>2

-----------------------------------------------------------------------------
(* What the steps of the service do to what the page knows *)

LEMMA ServiceSteps ==
  ASSUME DraftsInv, [Next]_vars
  PROVE  /\ DraftsInv' /\ KeepsPlaces
         /\ \A d \in Drafts : Exists(d) => Exists(d)'
         /\ \A c \in DOMAIN circles : c \in DOMAIN circles' /\ circles'[c] = circles[c]
<1>1. DraftsInv' /\ KeepsPlaces
  BY StepInv, StepKeepsPlaces
<1>2. TypeOK /\ circle_drafts \in [Drafts -> DraftRow] /\ circles \in Seq([payout_order : PayoutOrders, contribution_amount : Amounts])
  BY DEF DraftsInv, TypeOK
<1>3. UNCHANGED circle_drafts => \A d \in Drafts : Exists(d) => Exists(d)'
  BY DEF Exists
<1>4. UNCHANGED circles => \A c \in DOMAIN circles : c \in DOMAIN circles' /\ circles'[c] = circles[c]
  OBVIOUS
<1>5. ASSUME NEW order, NEW amount, create_circle(order, amount)
      PROVE  \A c \in DOMAIN circles : c \in DOMAIN circles' /\ circles'[c] = circles[c]
  <2> DEFINE circle == [payout_order |-> order, contribution_amount |-> amount]
  <2>1. circles' = Append(circles, circle)
    BY <1>5 DEF create_circle
  <2> HIDE DEF circle
  <2> QED BY <2>1, <1>2
<1>6. \A order, amount : create_circle(order, amount) => UNCHANGED circle_drafts
  BY DEF create_circle, tables
<1>7. ASSUME NEW d \in Drafts, NEW t, t # "absent", UNCHANGED circles,
             \/ \E c : circle_drafts' = [circle_drafts EXCEPT ![d].circle_id = c, ![d].status = t]
             \/ circle_drafts' = [circle_drafts EXCEPT ![d].status = t]
             \/ \E row : circle_drafts' = [circle_drafts EXCEPT ![d] = row] /\ row.status = t,
             Exists(d) \/ \E row : circle_drafts' = [circle_drafts EXCEPT ![d] = row] /\ row.status = t
      PROVE  \A e \in Drafts : Exists(e) => Exists(e)'
  <2>1. \A e \in Drafts \ {d} : circle_drafts'[e] = circle_drafts[e]
    BY <1>2, <1>7
  <2>2. CASE Exists(d)
    <3>1. circle_drafts[d] \in [status : {"draft", "ready", "created"}, contribution_amount : Amounts, circle_id : Nat]
      BY <1>2, <2>2 DEF DraftRow, Exists
    <3>2. circle_drafts'[d].status = t
      BY <1>2, <1>7, <3>1
    <3> QED BY <2>1, <3>2, <1>7 DEF Exists
  <2>3. CASE ~Exists(d)
    BY <2>1, <2>3 DEF Exists
  <2> QED BY <2>2, <2>3
<1>8. ASSUME NEW d \in Drafts, NEW amount, createDraft(d, amount)
      PROVE  \A e \in Drafts : Exists(e) => Exists(e)'
  BY <1>8, <1>2 DEF createDraft, Exists
<1>9. ASSUME NEW h \in Handlers, acceptInvite(h)
      PROVE  \A e \in Drafts : Exists(e) => Exists(e)'
  <2>1. requests[h].draft \in Drafts /\ Exists(requests[h].draft)
    BY <1>2, <1>9, RequestTypes DEF acceptInvite, DraftsInv, PlacesHeld
  <2>2. PICK t : t # "absent" /\ circle_drafts' = [circle_drafts EXCEPT ![requests[h].draft].status = t]
    BY <1>9 DEF acceptInvite, deriveStatus
  <2>3. UNCHANGED circles
    BY <1>9 DEF acceptInvite
  <2> QED BY <2>1, <2>2, <2>3, <1>7
<1>10. ASSUME NEW h \in Handlers, ReportCreated(h) \/ Reconcile(h)
       PROVE  \A e \in Drafts : Exists(e) => Exists(e)'
  <2>1. requests[h].draft \in Drafts /\ Exists(requests[h].draft)
    BY <1>2, <1>10, RequestTypes DEF ReportCreated, Reconcile, DraftsInv, ListsOfAll
  <2>2. PICK c : circle_drafts' = [circle_drafts EXCEPT ![requests[h].draft].circle_id = c,
                                                          ![requests[h].draft].status = "created"]
    BY <1>10 DEF ReportCreated, Reconcile, markCreated
  <2>3. UNCHANGED circles
    BY <1>10 DEF ReportCreated, Reconcile
  <2> QED BY <2>1, <2>2, <2>3, <1>7
<1>11. \A d \in Drafts : Exists(d) => Exists(d)'
  BY <1>3, <1>6, <1>8, <1>9, <1>10
     DEF Next, vars, tables, reorderSlots, ReadPlaces, EndWithoutEffect, BeginAccept, BeginOrder,
         BeginCreated, BeginReconcile, Begin
<1>12. \A c \in DOMAIN circles : c \in DOMAIN circles' /\ circles'[c] = circles[c]
  BY <1>4, <1>5 DEF Next, vars, tables, reorderSlots, ReadPlaces, EndWithoutEffect, BeginAccept,
         BeginOrder, BeginCreated, BeginReconcile, Begin, createDraft, acceptInvite, ReportCreated, Reconcile
<1> QED
  BY <1>1, <1>11, <1>12

-----------------------------------------------------------------------------
(* The steps of the page *)

\* What the sections offer.
LEMMA ButtonsShown ==
  ASSUME NEW b \in Buttons
  PROVE  /\ b[1] \in {"Move", "Save turn order", "Create circle", "Undo changes"} => page.draft # NoDraft
         /\ b[1] = "Save turn order" => page.pendingOrder # NotRead
         /\ b[1] = "Move" => b[2] \in Slots /\ b[3] \in Slots
<1> DEFINE rest == (UNION {InviteRow(i) : i \in Slots}) \cup OrderSection \cup FinishSection \cup StartSection
<1>0. /\ \A x : <<x>>[1] = x
      /\ \A x, y : <<x, y>>[1] = x
      /\ \A x, y, z : <<x, y, z>>[1] = x /\ <<x, y, z>>[2] = y /\ <<x, y, z>>[3] = z
  OBVIOUS
<1>1. \/ b \in {<<"Go to the circle">>} \/ b \in {<<"Connect wallet">>} \/ b \in {<<"Create invitations">>}
      \/ page.draft # NoDraft /\ b \in rest
  BY DEF Buttons, ConnectSection, DraftSection
<1>2. ASSUME NEW i \in Slots, b \in InviteRow(i)
      PROVE  \/ b[1] = "Move" /\ b[2] \in Slots /\ b[3] \in Slots
             \/ b[1] \in {"Copy", "Share"}
  <2>1. PICK slot : \/ b \in {<<"Move", i, to>> : to \in Slots \cap {i - 1, i + 1}}
                    \/ b = <<"Copy", slot>> \/ b = <<"Share", slot>>
    BY <1>2 DEF InviteRow
  <2>2. CASE b \in {<<"Move", i, to>> : to \in Slots \cap {i - 1, i + 1}}
    <3>1. PICK to \in Slots : b = <<"Move", i, to>>
      BY <2>2
    <3> QED BY <3>1, <1>0, Zenon
  <2>3. CASE b = <<"Copy", slot>> \/ b = <<"Share", slot>>
    <3>1. b = <<"Copy", slot>> => b[1] = "Copy"
      BY <1>0, Zenon
    <3>2. b = <<"Share", slot>> => b[1] = "Share"
      BY <1>0, Zenon
    <3> QED BY <2>3, <3>1, <3>2
  <2> QED BY <2>1, <2>2, <2>3
<1>3. ASSUME b \in OrderSection
      PROVE  b[1] \in {"Save turn order", "Undo changes"} /\ page.pendingOrder # NotRead
  <2>1. page.pendingOrder # NotRead /\ (b = <<"Save turn order">> \/ b = <<"Undo changes">>)
    BY <1>3 DEF OrderSection
  <2>2. b[1] = "Save turn order" \/ b[1] = "Undo changes"
    BY <2>1, <1>0, Zenon
  <2> QED BY <2>1, <2>2
<1>4. ASSUME b \in FinishSection \cup StartSection
      PROVE  b[1] \in {"Finish setting up", "Create circle"}
  <2>1. b = <<"Finish setting up">> \/ b = <<"Create circle">>
    BY <1>4 DEF FinishSection, StartSection
  <2>2. b[1] = "Finish setting up" \/ b[1] = "Create circle"
    BY <2>1, <1>0, Zenon
  <2> QED BY <2>2
<1>5. b \in rest => \/ b[1] = "Move" /\ b[2] \in Slots /\ b[3] \in Slots
                    \/ b[1] \in {"Copy", "Share"}
                    \/ b[1] \in {"Save turn order", "Undo changes"} /\ page.pendingOrder # NotRead
                    \/ b[1] \in {"Finish setting up", "Create circle"}
  BY <1>2, <1>3, <1>4
<1>6. b \in {<<"Go to the circle">>, <<"Connect wallet">>, <<"Create invitations">>}
        => b[1] \in {"Go to the circle", "Connect wallet", "Create invitations"}
  <2> SUFFICES ASSUME b \in {<<"Go to the circle">>, <<"Connect wallet">>, <<"Create invitations">>}
               PROVE  b[1] = "Go to the circle" \/ b[1] = "Connect wallet" \/ b[1] = "Create invitations"
    OBVIOUS
  <2>1. b = <<"Go to the circle">> \/ b = <<"Connect wallet">> \/ b = <<"Create invitations">>
    OBVIOUS
  <2> QED BY <2>1, <1>0, Zenon
<1> HIDE DEF rest
<1> QED
  BY <1>1, <1>5, <1>6

\* A press of a button that changes something.
LEMMA Presses ==
  ASSUME NEW b \in Buttons, Press(b)
  PROVE  \/ onConnect
         \/ onCreateDraft
         \/ \E from \in Slots, to \in Slots : move(from, to) /\ page.draft # NoDraft
         \/ discardOrder
         \/ saveOrder /\ page.draft # NoDraft /\ page.pendingOrder # NotRead
         \/ onCreateCircle /\ page.draft # NoDraft
<1>1. ASSUME b[1] = "Move", move(b[2], b[3])
      PROVE  \E from \in Slots, to \in Slots : move(from, to) /\ page.draft # NoDraft
  BY <1>1, ButtonsShown
<1>0. \A x : <<x>>[1] = x
  OBVIOUS
<1>2. b = <<"Save turn order">> => page.draft # NoDraft /\ page.pendingOrder # NotRead
  <2>1. b = <<"Save turn order">> => b[1] = "Save turn order"
    BY <1>0, Zenon
  <2> QED BY <2>1, ButtonsShown
<1>3. b = <<"Create circle">> => page.draft # NoDraft
  <2>1. b = <<"Create circle">> => b[1] = "Create circle"
    BY <1>0, Zenon
  <2> QED BY <2>1, ButtonsShown
<1> QED
  BY <1>1, <1>2, <1>3 DEF Press

\* The order the page creates a circle with.
LEMMA CreatedOrder ==
  ASSUME OrgInv, page.draft # NoDraft, MayCreate,
         NEW order, order = [i \in Slots |-> page.draft.slots[i].memberRef]
  PROVE  /\ order \in [Slots -> Members] /\ Range(order) = Range(member_ref[Draft]) /\ Full(Draft)
         /\ IsInjective(order) => order \in PayoutOrders
<1> DEFINE v == page.draft
<1>1. GoodView(v) /\ member_ref[Draft] \in [Slots -> Members \cup {NotTaken}]
  BY OrganizerAssumption DEF OrgInv, PageOK, DraftsInv, TypeOK
<1>2. /\ orderOf(v) \in [Slots -> Slots]
      /\ \A t \in Slots : \E i \in Slots : orderOf(v)[i] = t
  BY <1>1 DEF GoodView, Bijection, Injection, Surjection
<1>3. \A i \in Slots : /\ orderOf(v)[i] = v.slots[i].slotId
                       /\ order[i] = v.slots[i].memberRef
                       /\ v.slots[i].memberRef # NotTaken
  BY DEF orderOf, MayCreate
<1>4. \A i \in Slots : order[i] = member_ref[Draft][orderOf(v)[i]] /\ order[i] # NotTaken
  BY <1>1, <1>3 DEF GoodView
<1> HIDE DEF v
<1>5. Full(Draft)
  BY <1>2, <1>4 DEF Full
<1>6. member_ref[Draft] \in [Slots -> Members]
  BY <1>1, <1>5 DEF Full
<1>7. order \in [Slots -> Members]
  BY <1>2, <1>4, <1>6
<1>8. Range(order) = Range(member_ref[Draft])
  BY <1>2, <1>4, <1>6, <1>7 DEF Range
<1>9. ASSUME IsInjective(order) PROVE order \in PayoutOrders
  <2>1. order \in Injection(Slots, Members)
    BY <1>7, <1>9 DEF Injection, IsInjective
  <2>2. /\ IsFiniteSet(Members) /\ Cardinality(Members) \in Nat /\ MEMBER_COUNT \in Nat
        /\ MEMBER_COUNT >= 2
    BY DraftsAssumption, FS_CardinalityType
  <2>3. IsFiniteSet(Slots) /\ Cardinality(Slots) = MEMBER_COUNT
    BY <2>2, FS_Interval DEF Slots
  <2>4. Cardinality(Slots) <= Cardinality(Members)
    BY <2>1, <2>2, FS_Injection
  <2>5. MEMBER_COUNT \in 1..Cardinality(Members)
    BY <2>2, <2>3, <2>4
  <2> QED BY <2>1, <2>5 DEF PayoutOrders, Slots
<1> QED
  BY <1>5, <1>7, <1>8, <1>9

\* Whatever the page and the members do, the service only sees its own steps.
LEMMA OrgIsService == OrgInv /\ [OrgNext]_orgvars => [Next]_vars
<1> SUFFICES ASSUME OrgInv, [OrgNext]_orgvars PROVE [Next]_vars
  OBVIOUS
<1>0. Organizer \in Handlers /\ Draft \in Drafts
  BY OrganizerAssumption
<1>1. UNCHANGED vars => [Next]_vars
  OBVIOUS
<1>2. ASSUME requests' = [requests EXCEPT ![Organizer] = Idle], UNCHANGED <<tables, circles>>
      PROVE  [Next]_vars
  <2>1. CASE requests[Organizer] = Idle
    <3>1. requests' = requests
      BY <2>1, <1>2 DEF OrgInv, DraftsInv, TypeOK
    <3> QED BY <3>1, <1>2 DEF vars
  <2>2. CASE requests[Organizer] # Idle
    BY <2>2, <1>0, <1>2 DEF Next, EndWithoutEffect, Done
  <2> QED BY <2>1, <2>2
<1>3. CASE \E b \in Buttons : Press(b)
  <2>1. CASE onConnect
    BY <2>1 DEF onConnect
  <2>2. CASE onCreateDraft
    BY <2>2, <1>0 DEF onCreateDraft, Next
  <2>3. CASE \E from \in Slots, to \in Slots : move(from, to)
    BY <2>3 DEF move
  <2>4. CASE discardOrder
    BY <2>4 DEF discardOrder
  <2>5. CASE saveOrder /\ page.draft # NoDraft /\ page.pendingOrder # NotRead
    <3>1. page.pendingOrder \in [Slots -> Slots]
      BY <2>5 DEF OrgInv, PageOK
    <3> QED BY <2>5, <3>1, <1>0 DEF saveOrder, Next
  <2>6. CASE onCreateCircle /\ page.draft # NoDraft
    <3>1. PICK order : order = [i \in Slots |-> page.draft.slots[i].memberRef]
      OBVIOUS
    <3>2. MayCreate /\ IsInjective(order) /\ create_circle(order, circle_drafts[Draft].contribution_amount)
      BY <2>6, <3>1 DEF onCreateCircle
    <3>3. order \in PayoutOrders
      BY <2>6, <3>1, <3>2, CreatedOrder
    <3>4. circle_drafts[Draft].contribution_amount \in Amounts
      BY <2>6, <1>0 DEF OrgInv, PageOK, DraftsInv, TypeOK, DraftRow, Exists
    <3> QED BY <3>2, <3>3, <3>4 DEF Next
  <2> QED BY <1>3, <2>1, <2>2, <2>3, <2>4, <2>5, <2>6, Presses
<1>4. CASE Reload
  BY <1>4, <1>2 DEF Reload
<1>5. CASE StartPoll \/ EndPoll \/ UNCHANGED orgvars
  BY <1>5 DEF StartPoll, EndPoll, orgvars
<1>6. CASE OrderSaved
  BY <1>6, <1>0 DEF OrderSaved, Next
<1>7. CASE markCreatedRequest
  <2>1. page.unrecorded \in 1..MaxCircles
    <3>1. page.unrecorded \in DOMAIN circles /\ Len(circles) <= MaxCircles
          /\ circles \in Seq([payout_order : PayoutOrders, contribution_amount : Amounts])
      BY <1>7 DEF markCreatedRequest, OrgInv, PageOK, CirclesOfDraft, DraftsInv, TypeOK
    <3> QED BY <3>1, DraftsAssumption
  <2> QED BY <2>1, <1>7, <1>0 DEF markCreatedRequest, Next
<1>8. CASE ReadPlaces(Organizer)
  BY <1>8, <1>0 DEF Next
<1>9. CASE CreationRecorded
  BY <1>9, <1>0 DEF CreationRecorded, Next
<1>10. CASE RequestFails
  BY <1>10, <1>2 DEF RequestFails
<1>11. CASE Members_accept
  BY <1>11, <1>0 DEF Members_accept, Next
<1> QED
  BY <1>3, <1>4, <1>5, <1>6, <1>7, <1>8, <1>9, <1>10, <1>11 DEF OrgNext

\* What a view says of the holders stays so.
LEMMA GoodKept ==
  ASSUME DraftsInv, KeepsPlaces, NEW v, GoodView(v)
  PROVE  GoodView(v)'
<1>1. \A i \in Slots : v.slots[i].slotId \in Slots
  <2>1. orderOf(v) \in [Slots -> Slots]
    BY DEF GoodView, Bijection, Injection
  <2> QED BY <2>1 DEF orderOf
<1>2. \A i \in Slots : v.slots[i].memberRef \in {NotTaken, member_ref'[Draft][v.slots[i].slotId]}
  BY <1>1, OrganizerAssumption DEF GoodView, KeepsPlaces
<1> QED
  BY <1>2 DEF GoodView

\* The views the page is answered with.
LEMMA AnswersAreGood ==
  ASSUME DraftsInv, NEW order \in Bijection(Slots, Slots), NEW status, NEW circle
  PROVE  /\ GoodView(OrganizerView(Draft, order, status, circle))
         /\ GoodView(PublicView(Draft))
<1>1. slot_order[Draft] \in Bijection(Slots, Slots)
  BY OrganizerAssumption DEF DraftsInv, TypeOK
<1>2. GoodView(OrganizerView(Draft, order, status, circle))
  BY ViewsAreGood DEF OrganizerView
<1>3. PICK ref : ref = [s \in Slots |-> NotTaken]
  OBVIOUS
<1>4. GoodView(PublicView(Draft))
  BY <1>1, <1>3, ViewsAreGood DEF PublicView
<1> QED
  BY <1>2, <1>4

\* A step of the page keeps what the page knows, if what is new is so.
LEMMA PageKept ==
  ASSUME OrgInv, [Next]_vars, DOMAIN page' = PageFields,
         \/ page'.draft = page.draft \/ page'.draft = NoDraft
         \/ Exists(Draft)' /\ GoodView(page'.draft),
         page'.pendingOrder \in {page.pendingOrder, NotRead} \cup [Slots -> Slots],
         page'.unrecorded \in {page.unrecorded, NoCircle} \cup DOMAIN circles'
  PROVE  PageOK'
<1>1. /\ DraftsInv /\ KeepsPlaces /\ (Exists(Draft) => Exists(Draft)')
      /\ \A c \in DOMAIN circles : c \in DOMAIN circles'
  BY ServiceSteps, OrganizerAssumption DEF OrgInv
<1>0. PICK v : v = page'.draft
  OBVIOUS
<1>2. v # NoDraft => Exists(Draft)' /\ GoodView(v)
  BY <1>0, <1>1 DEF OrgInv, PageOK
<1>3. v # NoDraft => GoodView(v)'
  BY <1>1, <1>2, GoodKept
<1>4. page'.pendingOrder # NotRead => page'.pendingOrder \in [Slots -> Slots]
  BY DEF OrgInv, PageOK
<1>5. page'.unrecorded # NoCircle => page'.unrecorded \in DOMAIN circles'
  BY <1>1 DEF OrgInv, PageOK
<1>6. (page.draft # NoDraft => Exists(Draft) /\ GoodView(page.draft))'
  BY <1>0, <1>2, <1>3
<1> QED
  BY <1>4, <1>5, <1>6 DEF PageOK

LEMMA PollKept ==
  ASSUME OrgInv, [Next]_vars,
         \/ poll' \in {poll, NoDraft}
         \/ Exists(Draft) /\ GoodView(poll')
  PROVE  PollOK'
<1>1. DraftsInv /\ KeepsPlaces /\ (Exists(Draft) => Exists(Draft)')
  BY ServiceSteps, OrganizerAssumption DEF OrgInv
<1>0. PICK v : v = poll'
  OBVIOUS
<1>2. v # NoDraft => Exists(Draft)' /\ GoodView(v)
  BY <1>0, <1>1 DEF OrgInv, PollOK
<1>3. v # NoDraft => GoodView(v)'
  BY <1>1, <1>2, GoodKept
<1> QED
  BY <1>0, <1>2, <1>3 DEF PollOK

\* Once there is a circle the places of the draft are all taken, for good.
LEMMA CirclesKept ==
  ASSUME OrgInv, [Next]_vars, circles' = circles
  PROVE  CirclesOfDraft'
<1>1. /\ DraftsInv /\ KeepsPlaces /\ DraftsInv'
      /\ circles \in Seq([payout_order : PayoutOrders, contribution_amount : Amounts])
  BY ServiceSteps DEF OrgInv, DraftsInv, TypeOK
<1>2. /\ member_ref[Draft] \in [Slots -> Members \cup {NotTaken}]
      /\ member_ref'[Draft] \in [Slots -> Members \cup {NotTaken}]
  BY <1>1, OrganizerAssumption DEF DraftsInv, TypeOK
<1>3. Full(Draft) => member_ref'[Draft] = member_ref[Draft]
  BY <1>1, <1>2, OrganizerAssumption DEF KeepsPlaces, Full
<1>4. Full(Draft) => Full(Draft)'
  BY <1>3 DEF Full
<1>5. Len(circles) > 0 \/ DOMAIN circles = {}
  BY <1>1
<1> QED
  BY <1>3, <1>4, <1>5 DEF OrgInv, CirclesOfDraft

\* The page creates the circle.
LEMMA CreateKeeps ==
  ASSUME OrgInv, [Next]_vars, onCreateCircle, page.draft # NoDraft
  PROVE  CirclesOfDraft' /\ Len(circles) + 1 \in DOMAIN circles'
<1>1. circles \in Seq([payout_order : PayoutOrders, contribution_amount : Amounts])
  BY DEF OrgInv, DraftsInv, TypeOK
<1>2. PICK order, amount : /\ order = [i \in Slots |-> page.draft.slots[i].memberRef]
                           /\ amount = circle_drafts[Draft].contribution_amount
  OBVIOUS
<1>3. MayCreate /\ IsInjective(order) /\ create_circle(order, amount)
  BY <1>2 DEF onCreateCircle
<1>4. /\ Range(order) = Range(member_ref[Draft]) /\ Full(Draft)
  BY <1>2, <1>3, CreatedOrder
<1>5. PICK circle : circle = [payout_order |-> order, contribution_amount |-> amount]
  OBVIOUS
<1>6. Len(circles) < MaxCircles /\ circles' = Append(circles, circle) /\ UNCHANGED tables
  BY <1>3, <1>5 DEF create_circle
<1>7. /\ Len(circles') = Len(circles) + 1
      /\ \A c \in DOMAIN circles' :
           IF c = Len(circles) + 1 THEN circles'[c] = circle ELSE c \in DOMAIN circles /\ circles'[c] = circles[c]
      /\ Len(circles) + 1 \in DOMAIN circles'
  BY <1>1, <1>6
<1>8. circle.payout_order = order /\ member_ref' = member_ref
  BY <1>5, <1>6 DEF tables
<1>9. Full(Draft)'
  BY <1>4, <1>8 DEF Full
<1>10. \A c \in DOMAIN circles' : Range(circles'[c].payout_order) = Range(member_ref'[Draft])
  BY <1>4, <1>7, <1>8 DEF OrgInv, CirclesOfDraft
<1>11. Len(circles') <= MaxCircles
  BY <1>1, <1>6, <1>7, DraftsAssumption
<1> QED
  BY <1>7, <1>9, <1>10, <1>11 DEF CirclesOfDraft

\* The steps of the service leave what is on chain, but for a creation.
LEMMA OrgStep == OrgInv /\ [OrgNext]_orgvars => OrgInv'
<1> SUFFICES ASSUME OrgInv, [OrgNext]_orgvars PROVE OrgInv'
  OBVIOUS
<1>1. [Next]_vars
  BY OrgIsService
<1>2. DraftsInv' /\ KeepsPlaces
  BY <1>1, ServiceSteps DEF OrgInv
<1>3. /\ Draft \in Drafts /\ slot_order[Draft] \in Bijection(Slots, Slots)
      /\ slot_order'[Draft] \in Bijection(Slots, Slots)
  BY <1>2, OrganizerAssumption DEF OrgInv, DraftsInv, TypeOK
<1>4. DraftsInv /\ DOMAIN page = PageFields
  BY DEF OrgInv, PageOK
<1>7. page' = page => PageOK'
  BY <1>1, <1>4, PageKept
<1>8. poll' = poll => PollOK'
  BY <1>1, PollKept
<1>9. circles' = circles => CirclesOfDraft'
  BY <1>1, CirclesKept
<1>10. ASSUME NEW order \in Bijection(Slots, Slots), NEW status, NEW circle
       PROVE  LET o == OrganizerView(Draft, order, status, circle)
              IN  GoodView(o) /\ GoodView(mergePrivate(o, page.draft))
  <2>1. PICK o, p, q : /\ o = OrganizerView(Draft, order, status, circle)
                       /\ p = page.draft /\ q = mergePrivate(o, page.draft)
    OBVIOUS
  <2>2. GoodView(o)
    BY <2>1, <1>4, AnswersAreGood
  <2>3. p # NoDraft => GoodView(p)
    BY <2>1 DEF OrgInv, PageOK
  <2>4. GoodView(q)
    BY <2>1, <2>2, <2>3, MergeIsGood
  <2> QED BY <2>1, <2>2, <2>4
<1>11. ASSUME \E b \in Buttons : Press(b)
       PROVE  PageOK' /\ PollOK' /\ CirclesOfDraft'
  <2>1. CASE onConnect
    <3>1. UNCHANGED <<vars, poll>>
      BY <2>1 DEF onConnect
    <3>2. CASE Page([connected |-> TRUE])
      <4>1. /\ DOMAIN page' = PageFields /\ page'.draft = page.draft
            /\ page'.pendingOrder = page.pendingOrder /\ page'.unrecorded = page.unrecorded
        BY <3>2, <1>4, PageSets DEF PageFields
      <4> QED BY <4>1, <3>1, <1>1, <1>8, <1>9, PageKept DEF vars
    <3>3. ASSUME NEW o, Exists(Draft), GoodView(o), Page([connected |-> TRUE, draft |-> o])
          PROVE  PageOK' /\ PollOK' /\ CirclesOfDraft'
      <4>1. /\ DOMAIN page' = PageFields /\ page'.draft = o
            /\ page'.pendingOrder = page.pendingOrder /\ page'.unrecorded = page.unrecorded
        BY <3>3, <1>4, PageSets DEF PageFields
      <4>2. Exists(Draft)'
        BY <3>3, <1>1, <1>3, ServiceSteps DEF OrgInv
      <4> QED BY <4>1, <4>2, <3>1, <3>3, <1>1, <1>8, <1>9, PageKept DEF vars
    <3>4. PICK status, circle : status = circle_drafts[Draft].status /\ circle = circle_drafts[Draft].circle_id
      OBVIOUS
    <3>5. PICK o : o = OrganizerView(Draft, slot_order[Draft], status, circle)
      OBVIOUS
    <3>6. GoodView(o)
      BY <3>5, <1>3, <1>10
    <3> QED BY <2>1, <3>2, <3>3, <3>4, <3>5, <3>6 DEF onConnect
  <2>2. CASE onCreateDraft
    <3>1. PICK amount \in Amounts : createDraft(Draft, amount)
      BY <2>2 DEF onCreateDraft
    <3>2. Exists(Draft)' /\ UNCHANGED circles
      BY <3>1, <1>3 DEF createDraft, OrgInv, DraftsInv, TypeOK, Exists
    <3>3. PICK o : o = OrganizerView(Draft, slot_order[Draft], "draft", NoCircle)
      OBVIOUS
    <3>4. Page([draft |-> o]) /\ UNCHANGED poll /\ GoodView(o)
      BY <2>2, <3>3, <1>3, <1>10 DEF onCreateDraft
    <3>5. /\ DOMAIN page' = PageFields /\ page'.draft = o
          /\ page'.pendingOrder = page.pendingOrder /\ page'.unrecorded = page.unrecorded
      BY <3>4, <1>4, PageSets DEF PageFields
    <3> QED BY <3>2, <3>4, <3>5, <1>1, <1>8, <1>9, PageKept
  <2>3. ASSUME NEW from \in Slots, NEW to \in Slots, move(from, to), page.draft # NoDraft
        PROVE  PageOK' /\ PollOK' /\ CirclesOfDraft'
    <3>1. shownOrder \in [Slots -> Slots]
      BY <2>3 DEF shownOrder, OrgInv, PageOK, GoodView, Bijection, Injection
    <3>2. PICK order : order = moveInOrder(shownOrder, from, to)
      OBVIOUS
    <3>3. order \in [Slots -> Slots]
      BY <3>1, <3>2 DEF moveInOrder
    <3>4. Page([pendingOrder |-> order]) /\ UNCHANGED <<vars, poll>>
      BY <2>3, <3>2 DEF move
    <3>5. /\ DOMAIN page' = PageFields /\ page'.draft = page.draft
          /\ page'.pendingOrder = order /\ page'.unrecorded = page.unrecorded
      BY <3>4, <1>4, PageSets DEF PageFields
    <3> QED BY <3>3, <3>4, <3>5, <1>1, <1>8, <1>9, PageKept DEF vars
  <2>4. CASE discardOrder
    <3>1. Page([pendingOrder |-> NotRead]) /\ UNCHANGED <<vars, poll>>
      BY <2>4 DEF discardOrder
    <3>2. /\ DOMAIN page' = PageFields /\ page'.draft = page.draft
          /\ page'.pendingOrder = NotRead /\ page'.unrecorded = page.unrecorded
      BY <3>1, <1>4, PageSets DEF PageFields
    <3> QED BY <3>1, <3>2, <1>1, <1>8, <1>9, PageKept DEF vars
  <2>5. CASE saveOrder
    <3>1. Page([busy |-> TRUE]) /\ UNCHANGED poll /\ UNCHANGED circles
      BY <2>5 DEF saveOrder, BeginOrder, Begin
    <3>2. /\ DOMAIN page' = PageFields /\ page'.draft = page.draft
          /\ page'.pendingOrder = page.pendingOrder /\ page'.unrecorded = page.unrecorded
      BY <3>1, <1>4, PageSets DEF PageFields
    <3> QED BY <3>1, <3>2, <1>1, <1>8, <1>9, PageKept
  <2>6. CASE onCreateCircle /\ page.draft # NoDraft
    <3>1. PICK id : id = Len(circles) + 1
      OBVIOUS
    <3>2. CirclesOfDraft' /\ id \in DOMAIN circles'
      BY <2>6, <3>1, <1>1, CreateKeeps
    <3>3. UNCHANGED poll /\ (Page([createdCircleId |-> id, unrecorded |-> id, busy |-> TRUE]) \/ UNCHANGED page)
      BY <2>6, <3>1 DEF onCreateCircle
    <3>4. CASE Page([createdCircleId |-> id, unrecorded |-> id, busy |-> TRUE])
      <4>1. /\ DOMAIN page' = PageFields /\ page'.draft = page.draft
            /\ page'.pendingOrder = page.pendingOrder /\ page'.unrecorded = id
        BY <3>4, <1>4, PageSets DEF PageFields
      <4> QED BY <4>1, <3>2, <3>3, <1>1, <1>8, PageKept
    <3> QED BY <3>2, <3>3, <3>4, <1>7, <1>8
  <2>7. PICK b \in Buttons : Press(b)
    BY <1>11
  <2> QED BY <2>1, <2>2, <2>3, <2>4, <2>5, <2>6, <2>7, Presses
<1>12. ASSUME Reload
       PROVE  PageOK' /\ PollOK' /\ CirclesOfDraft'
  <2>1. /\ DOMAIN page' = PageFields /\ page'.draft = NoDraft
        /\ page'.pendingOrder = NotRead /\ page'.unrecorded = NoCircle
    BY <1>12 DEF Reload, Opened, PageFields
  <2>2. poll' = NoDraft /\ UNCHANGED circles
    BY <1>12 DEF Reload
  <2> QED BY <2>1, <2>2, <1>1, <1>9, PageKept, PollKept
<1>13. ASSUME StartPoll
       PROVE  PageOK' /\ PollOK' /\ CirclesOfDraft'
  <2>1. /\ page.draft # NoDraft /\ poll' = PublicView(Draft) /\ UNCHANGED <<vars, page>>
    BY <1>13 DEF StartPoll
  <2>2. Exists(Draft)
    BY <2>1 DEF OrgInv, PageOK
  <2>3. PICK p : p = PublicView(Draft)
    OBVIOUS
  <2>4. GoodView(p)
    BY <2>3, <1>3, <1>4, AnswersAreGood
  <2>5. GoodView(poll')
    BY <2>1, <2>3, <2>4
  <2> QED BY <2>1, <2>2, <2>5, <1>1, <1>7, <1>9, PollKept DEF vars
<1>14. ASSUME EndPoll
       PROVE  PageOK' /\ PollOK' /\ CirclesOfDraft'
  <2>1. /\ poll # NoDraft /\ page.draft # NoDraft /\ poll' = NoDraft /\ UNCHANGED vars
        /\ Page([draft |-> mergePrivate(poll, page.draft)]) \/ UNCHANGED page
    BY <1>14 DEF EndPoll
  <2>2. Exists(Draft) /\ Exists(Draft)'
    BY <2>1, <1>1, <1>3, ServiceSteps DEF OrgInv, PageOK
  <2>3. PICK p, q, v : p = poll /\ q = page.draft /\ v = mergePrivate(poll, page.draft)
    OBVIOUS
  <2>4. GoodView(p) /\ GoodView(q) /\ v = mergePrivate(p, q)
    BY <2>1, <2>3 DEF OrgInv, PageOK, PollOK
  <2>5. GoodView(v)
    BY <2>4, MergeIsGood
  <2>6. CASE Page([draft |-> v])
    <3>1. /\ DOMAIN page' = PageFields /\ page'.draft = v
          /\ page'.pendingOrder = page.pendingOrder /\ page'.unrecorded = page.unrecorded
      BY <2>6, <1>4, PageSets DEF PageFields
    <3>2. PageOK'
      BY <3>1, <2>2, <2>5, <1>1, PageKept
    <3> QED BY <3>2, <2>1, <1>1, <1>9, PollKept DEF vars
  <2>7. CASE UNCHANGED page
    BY <2>7, <2>1, <1>1, <1>7, <1>9, PollKept DEF vars
  <2> QED BY <2>1, <2>3, <2>6, <2>7
<1>15. ASSUME OrderSaved \/ CreationRecorded
       PROVE  PageOK' /\ PollOK' /\ CirclesOfDraft'
  <2>1. PICK order, status, circle, pending, unrecorded, o, v :
          /\ order \in Bijection(Slots, Slots)
          /\ o = OrganizerView(Draft, order, status, circle) /\ v = mergePrivate(o, page.draft)
          /\ pending \in {page.pendingOrder, NotRead} /\ unrecorded \in {page.unrecorded, NoCircle}
          /\ \/ Page([draft |-> v, pendingOrder |-> NotRead, busy |-> FALSE])
             \/ Page([draft |-> v, unrecorded |-> NoCircle, busy |-> FALSE])
             \/ Page([busy |-> FALSE])
    <3>1. CASE OrderSaved
      BY <3>1, <1>3 DEF OrderSaved
    <3>2. CASE CreationRecorded
      BY <3>2, <1>3 DEF CreationRecorded
    <3> QED BY <1>15, <3>1, <3>2
  <2>2. UNCHANGED poll /\ UNCHANGED circles
    BY <1>15 DEF OrderSaved, CreationRecorded, reorderSlots, ReportCreated
  <2>3. GoodView(v)
    BY <2>1, <1>10, <1>15
  <2>4. Exists(Draft)'
    <3>1. requests[Organizer] # Idle
      BY <1>15 DEF OrderSaved, CreationRecorded, reorderSlots, ReportCreated, Idle
    <3> QED BY <3>1, <1>1, <1>3, ServiceSteps DEF OrgInv, AskedOK
  <2>5. /\ DOMAIN page' = PageFields /\ page'.draft \in {page.draft, v}
        /\ page'.pendingOrder \in {page.pendingOrder, NotRead}
        /\ page'.unrecorded \in {page.unrecorded, NoCircle}
    <3>1. CASE Page([draft |-> v, pendingOrder |-> NotRead, busy |-> FALSE])
      BY <3>1, <1>4, PageSets DEF PageFields
    <3>2. CASE Page([draft |-> v, unrecorded |-> NoCircle, busy |-> FALSE])
      BY <3>2, <1>4, PageSets DEF PageFields
    <3>3. CASE Page([busy |-> FALSE])
      BY <3>3, <1>4, PageSets DEF PageFields
    <3> QED BY <2>1, <3>1, <3>2, <3>3
  <2> QED BY <2>2, <2>3, <2>4, <2>5, <1>1, <1>8, <1>9, PageKept
<1>17. ASSUME RequestFails
       PROVE  PageOK' /\ PollOK' /\ CirclesOfDraft'
  <2>1. Page([busy |-> FALSE]) /\ UNCHANGED poll /\ UNCHANGED circles
    BY <1>17 DEF RequestFails
  <2>2. /\ DOMAIN page' = PageFields /\ page'.draft = page.draft
        /\ page'.pendingOrder = page.pendingOrder /\ page'.unrecorded = page.unrecorded
    BY <2>1, <1>4, PageSets DEF PageFields
  <2> QED BY <2>1, <2>2, <1>1, <1>8, <1>9, PageKept
<1>18. ASSUME UNCHANGED <<page, poll, circles>>
       PROVE  PageOK' /\ PollOK' /\ CirclesOfDraft'
  BY <1>18, <1>7, <1>8, <1>9
<1>16. ASSUME markCreatedRequest
       PROVE  UNCHANGED <<page, poll, circles>>
  BY <1>16 DEF markCreatedRequest, BeginCreated, Begin
<1>19. ASSUME ReadPlaces(Organizer), UNCHANGED <<page, poll>>
       PROVE  UNCHANGED <<page, poll, circles>>
  BY <1>19 DEF ReadPlaces
<1>20. ASSUME Members_accept
       PROVE  UNCHANGED <<page, poll, circles>>
  BY <1>20 DEF Members_accept, BeginAccept, Begin, acceptInvite, EndWithoutEffect
<1>21. ASSUME UNCHANGED orgvars
       PROVE  UNCHANGED <<page, poll, circles>>
  BY <1>21 DEF orgvars, vars
<1>22. PageOK' /\ PollOK' /\ CirclesOfDraft'
  <2> DEFINE pressed == \E b \in Buttons : Press(b)
             read == ReadPlaces(Organizer) /\ UNCHANGED <<page, poll>>
             left == UNCHANGED orgvars
             goal == PageOK' /\ PollOK' /\ CirclesOfDraft'
  <2>0. \/ pressed \/ Reload \/ StartPoll \/ EndPoll \/ OrderSaved \/ markCreatedRequest
        \/ read \/ CreationRecorded \/ RequestFails \/ Members_accept \/ left
    BY DEF OrgNext
  <2>1. pressed => goal
    BY <1>11
  <2>2. (markCreatedRequest => goal) /\ (read => goal)
    <3>1. markCreatedRequest => goal
      BY <1>18, <1>16
    <3>2. read => goal
      BY <1>18, <1>19
    <3> QED BY <3>1, <3>2
  <2>3. Members_accept => goal
    BY <1>18, <1>20
  <2>4. left => goal
    BY <1>18, <1>21
  <2>5. /\ Reload => goal
        /\ StartPoll => goal
        /\ EndPoll => goal
        /\ OrderSaved => goal
        /\ CreationRecorded => goal
        /\ RequestFails => goal
    BY <1>12, <1>13, <1>14, <1>15, <1>17
  <2> HIDE DEF pressed, read, left, goal
  <2>6. goal
    BY <2>0, <2>1, <2>2, <2>3, <2>4, <2>5
  <2> QED BY <2>6 DEF goal
<1>23. AskedOK'
  <2>1. Exists(Draft) => Exists(Draft)'
    BY <1>1, <1>3, ServiceSteps DEF OrgInv
  <2>2. CASE requests[Organizer] # Idle
    BY <2>1, <2>2 DEF OrgInv, AskedOK
  <2>3. CASE requests[Organizer] = Idle
    <3>1. /\ requests[Organizer].kind = "idle" /\ requests \in [Handlers -> Request] /\ Organizer \in Handlers
      BY <2>3, <1>4, OrganizerAssumption DEF Idle, DraftsInv, TypeOK
    <3>2. requests' = requests => requests'[Organizer] = Idle
      BY <2>3
    <3>3. ASSUME NEW b \in Buttons, Press(b) PROVE requests' = requests \/ Exists(Draft)
      BY <3>3 DEF Press, onConnect, onCreateDraft, createDraft, move, discardOrder, saveOrder, BeginOrder,
                  onCreateCircle, create_circle, vars
    <3>4. Reload \/ RequestFails => requests'[Organizer] = Idle
      BY <3>1 DEF Reload, RequestFails
    <3>5. StartPoll \/ EndPoll \/ UNCHANGED orgvars => requests' = requests
      BY DEF StartPoll, EndPoll, orgvars, vars
    <3>6. markCreatedRequest => Exists(Draft)
      BY DEF markCreatedRequest, BeginCreated
    <3>7. ~OrderSaved /\ ~CreationRecorded /\ ~ReadPlaces(Organizer)
      BY <3>1 DEF OrderSaved, CreationRecorded, reorderSlots, ReportCreated, ReadPlaces
    <3>8. ASSUME Members_accept PROVE requests'[Organizer] = requests[Organizer]
      BY <3>1, <3>8 DEF Members_accept, BeginAccept, Begin, acceptInvite, EndWithoutEffect, Done
    <3>9. requests'[Organizer] = Idle \/ Exists(Draft)
      BY <2>3, <3>2, <3>3, <3>4, <3>5, <3>6, <3>7, <3>8 DEF OrgNext
    <3> QED BY <2>1, <3>9 DEF AskedOK
  <2> QED BY <2>2, <2>3
<1> QED
  BY <1>2, <1>22, <1>23 DEF OrgInv

LEMMA OrgInitInv == OrgInit => OrgInv
<1> SUFFICES ASSUME OrgInit PROVE OrgInv
  OBVIOUS
<1>1. DraftsInv
  BY InitInv DEF OrgInit
<1>2. PageOK /\ PollOK
  BY DEF OrgInit, Opened, PageOK, PollOK, PageFields
<1>3. circles = << >>
  BY DEF OrgInit, Init
<1>4. CirclesOfDraft
  <2>1. DOMAIN circles = {} /\ Len(circles) = 0
    BY <1>3
  <2> QED BY <2>1, DraftsAssumption DEF CirclesOfDraft
<1>5. AskedOK
  BY OrganizerAssumption DEF OrgInit, Init, AskedOK
<1> QED
  BY <1>1, <1>2, <1>4, <1>5 DEF OrgInv

THEOREM OrgInvariant == OrgSpec => []OrgInv
<1> QED
  BY OrgInitInv, OrgStep, PTL DEF OrgSpec

\* The service under the page is the service of module IwaDrafts.
THEOREM OrgImplementsService == OrgSpec => Spec
<1>1. OrgInit => Init
  BY DEF OrgInit
<1> QED
  BY <1>1, OrgIsService, OrgInvariant, PTL DEF OrgSpec, Spec

\* Through polls answered before and after reorderings, acceptances and
\* reports, the page never shows a place as somebody else's, and a circle it
\* creates is of exactly the people who hold the places of the draft.
THEOREM PlacesStayTheirsHolds == OrgSpec => []PlacesStayTheirs
<1>1. OrgInv => PlacesStayTheirs
  BY DEF OrgInv, PageOK, GoodView, CirclesOfDraft, PlacesStayTheirs
<1> QED
  BY <1>1, OrgInvariant, PTL

-----------------------------------------------------------------------------
(* The operator's dashboard: what a count says stays so *)

\* Only the organizer's draft is ever there.
OnlyDraft == \A d \in Drafts : Exists(d) => d = Draft

\* What has been counted is there by now, and a draft counted as created has a
\* circle that is not counted as missing its record.
DraftsCounted(f) ==
  /\ {"draftsTotal", "draftsCreated", "createdWithoutCircleId"} \subseteq DOMAIN f
  /\ f.draftsTotal \in Nat /\ f.draftsCreated \in Nat /\ f.draftsCreated <= f.draftsTotal
  /\ f.draftsTotal <= Cardinality({d \in Drafts : Exists(d)})
  /\ f.draftsCreated <= Cardinality(WithStatus("created"))
  /\ f.createdWithoutCircleId = 0

PlacesCounted(f) ==
  /\ "placesAccepted" \in DOMAIN f
  /\ f.placesAccepted \in Nat /\ f.placesAccepted <= Cardinality(AcceptedPlaces)

CirclesCounted(f) ==
  /\ "unrecordedChainCircles" \in DOMAIN f /\ f.unrecordedChainCircles \in Nat
  /\ f.draftsCreated + f.unrecordedChainCircles <= Len(circles)

\* The queries of a read are answered in their order.
CountsOK(o) ==
  /\ DOMAIN o = {"stage", "by", "answered", "counts"}
  /\ o.by \in Operators
  /\ o.answered \in {{}, {"drafts"}, {"drafts", "places"}, {"drafts", "places", "circles"}}
  /\ "drafts" \in o.answered => DraftsCounted(o.counts)
  /\ "places" \in o.answered => PlacesCounted(o.counts)
  /\ "circles" \in o.answered => CirclesCounted(o.counts)

ReadsOK ==
  /\ overview = [r \in Reads |-> overview[r]]
  /\ \A r \in Reads : overview[r].stage = "counting" => CountsOK(overview[r])

ShownOK ==
  state.kind = "ready" =>
    /\ state.by \in Operators
    /\ DraftsCounted(state.facts) /\ PlacesCounted(state.facts) /\ CirclesCounted(state.facts)

DashInv ==
  /\ OrgInv /\ OnlyDraft
  /\ indexed_circles \subseteq DOMAIN circles
  /\ ReadsOK /\ ShownOK

\* A percentage.
LEMMA RateBounded ==
  ASSUME NEW n \in Nat, NEW d \in Nat, n <= d
  PROVE  Rate(n, d) \subseteq 0..100
<1>1. ASSUME NEW k \in {d} \ {0} PROVE (200 * n + d) \div (2 * k) \in 0..100
  <2> DEFINE q == (200 * n + d) \div (2 * d)
  <2>1. d > 0 /\ k = d
    BY <1>1
  <2>2. q \in Nat /\ (2 * d) * q <= 200 * n + d
    BY <2>1
  <2>3. (2 * d) * q <= 201 * d
    BY <2>2
  <2> HIDE DEF q
  <2>4. q <= 100
    <3>1. SUFFICES ASSUME q >= 101 PROVE FALSE
      BY <2>2
    <3>2. d * q >= d * 101
      BY <2>1, <2>2, <3>1
    <3> QED BY <2>1, <2>2, <2>3, <3>2
  <2> QED BY <2>1, <2>2, <2>4 DEF q
<1> QED
  BY <1>1 DEF Rate

\* Of two records put together the first counts.
LEMMA TogetherHas ==
  ASSUME NEW f, NEW g
  PROVE  /\ DOMAIN Together(f, g) = DOMAIN f \cup DOMAIN g
         /\ \A x \in DOMAIN f : Together(f, g)[x] = f[x]
         /\ \A x \in DOMAIN g \ DOMAIN f : Together(f, g)[x] = g[x]
BY DEF Together

LEMMA CountedAsBefore ==
  ASSUME NEW f, NEW g,
         \A x \in {"draftsTotal", "draftsCreated", "createdWithoutCircleId"} : x \notin DOMAIN f
  PROVE  /\ DraftsCounted(g) => DraftsCounted(Together(f, g))
         /\ "placesAccepted" \notin DOMAIN f /\ PlacesCounted(g) => PlacesCounted(Together(f, g))
         /\ "unrecordedChainCircles" \notin DOMAIN f /\ DraftsCounted(g) /\ CirclesCounted(g)
              => CirclesCounted(Together(f, g))
<1> DEFINE t == Together(f, g)
<1>1. /\ DOMAIN t = DOMAIN f \cup DOMAIN g
      /\ \A x \in DOMAIN g \ DOMAIN f : t[x] = g[x]
  BY TogetherHas
<1> HIDE DEF t
<1>2. DraftsCounted(g) => DraftsCounted(t)
  BY <1>1 DEF DraftsCounted
<1>3. "placesAccepted" \notin DOMAIN f /\ PlacesCounted(g) => PlacesCounted(t)
  BY <1>1 DEF PlacesCounted
<1>4. "unrecordedChainCircles" \notin DOMAIN f /\ DraftsCounted(g) /\ CirclesCounted(g) => CirclesCounted(t)
  BY <1>1 DEF DraftsCounted, CirclesCounted
<1> QED
  BY <1>2, <1>3, <1>4 DEF t

\* The organizer's draft is the only one.
LEMMA OnlyDraftSets ==
  ASSUME OnlyDraft, DraftsInv
  PROVE  /\ IsFiniteSet({d \in Drafts : Exists(d)}) /\ Cardinality({d \in Drafts : Exists(d)}) \in 0..1
         /\ WithStatus("created") \subseteq {d \in Drafts : Exists(d)}
         /\ IsFiniteSet(WithStatus("created"))
         /\ Cardinality(WithStatus("created")) <= Cardinality({d \in Drafts : Exists(d)})
         /\ Cardinality(WithStatus("created")) \in 0..1
         /\ IsFiniteSet(AcceptedPlaces) /\ Cardinality(AcceptedPlaces) \in Nat
<1> DEFINE there == {d \in Drafts : Exists(d)}
<1>1. there \subseteq {Draft}
  BY DEF OnlyDraft
<1>2. WithStatus("created") \subseteq there
  BY DEF WithStatus, Exists
<1>3. /\ IsFiniteSet({Draft}) /\ Cardinality({Draft}) = 1
  BY FS_Singleton
<1> HIDE DEF there
<1>4. IsFiniteSet(there) /\ Cardinality(there) <= 1 /\ Cardinality(there) \in Nat
  BY <1>1, <1>3, FS_Subset, FS_CardinalityType
<1>5. /\ IsFiniteSet(WithStatus("created")) /\ Cardinality(WithStatus("created")) <= Cardinality(there)
      /\ Cardinality(WithStatus("created")) \in Nat
  BY <1>2, <1>4, FS_Subset, FS_CardinalityType
<1>6. IsFiniteSet(Slots)
  BY DraftsAssumption, FS_Interval DEF Slots
<1>7. IsFiniteSet({Draft} \X Slots)
  BY <1>3, <1>6, FS_Product
<1>8. AcceptedPlaces \subseteq {Draft} \X Slots
  BY DEF AcceptedPlaces, OnlyDraft
<1>9. IsFiniteSet(AcceptedPlaces) /\ Cardinality(AcceptedPlaces) \in Nat
  BY <1>7, <1>8, FS_Subset, FS_CardinalityType
<1>10. Cardinality(there) \in 0..1 /\ Cardinality(WithStatus("created")) \in 0..1
  BY <1>4, <1>5
<1> QED
  BY <1>2, <1>4, <1>5, <1>9, <1>10 DEF there

\* Which rows a request that commits changes, and to what.
LEMMA RowsChanged ==
  ASSUME DraftsInv, NEW h \in Handlers, acceptInvite(h) \/ ReportCreated(h) \/ Reconcile(h)
  PROVE  /\ requests[h].draft \in Drafts /\ Exists(requests[h].draft)
         /\ \A d \in Drafts \ {requests[h].draft} : circle_drafts'[d] = circle_drafts[d]
         /\ circle_drafts[requests[h].draft].status = "created"
              => circle_drafts'[requests[h].draft].status = "created"
<1>1. TypeOK /\ circle_drafts \in [Drafts -> DraftRow]
  BY DEF DraftsInv, TypeOK
<1>2. requests[h].draft \in Drafts /\ Exists(requests[h].draft)
  BY <1>1, RequestTypes DEF acceptInvite, ReportCreated, Reconcile, DraftsInv, PlacesHeld, ListsOfAll
<1>3. PICK d \in Drafts : d = requests[h].draft
  BY <1>2
<1>4. CASE acceptInvite(h)
  <2>1. PICK t : circle_drafts' = [circle_drafts EXCEPT ![d].status = t]
    BY <1>3, <1>4 DEF acceptInvite
  <2>2. \A e \in Drafts \ {d} : circle_drafts'[e] = circle_drafts[e]
    BY <1>1, <2>1
  <2>3. circle_drafts[d].status # "created"
    BY <1>3, <1>4 DEF acceptInvite
  <2> QED BY <1>2, <1>3, <2>2, <2>3
<1>5. CASE ReportCreated(h) \/ Reconcile(h)
  <2>1. PICK c : circle_drafts' = [circle_drafts EXCEPT ![d].circle_id = c, ![d].status = "created"]
    BY <1>3, <1>5 DEF ReportCreated, Reconcile, markCreated
  <2>2. \A e \in Drafts \ {d} : circle_drafts'[e] = circle_drafts[e]
    BY <1>1, <2>1
  <2>3. circle_drafts[d] \in [status : {"draft", "ready", "created"}, contribution_amount : Amounts, circle_id : Nat]
    BY <1>1, <1>2, <1>3 DEF DraftRow, Exists
  <2>4. circle_drafts'[d].status = "created"
    BY <1>1, <2>1, <2>3
  <2> QED BY <1>2, <1>3, <2>2, <2>4
<1> QED
  BY <1>4, <1>5

\* A draft that has its circle keeps it.
LEMMA CreatedKept ==
  ASSUME DraftsInv, [Next]_vars, NEW d \in Drafts, circle_drafts[d].status = "created"
  PROVE  circle_drafts'[d].status = "created"
<1>1. UNCHANGED circle_drafts => circle_drafts'[d].status = "created"
  OBVIOUS
<1>2. ASSUME NEW e \in Drafts, NEW amount, createDraft(e, amount)
      PROVE  circle_drafts'[d].status = "created"
  <2>1. e # d /\ circle_drafts \in [Drafts -> DraftRow]
    BY <1>2 DEF createDraft, Exists, DraftsInv, TypeOK
  <2> QED BY <1>2, <2>1 DEF createDraft
<1>3. ASSUME NEW h \in Handlers, acceptInvite(h) \/ ReportCreated(h) \/ Reconcile(h)
      PROVE  circle_drafts'[d].status = "created"
  BY <1>3, RowsChanged
<1> QED
  BY <1>1, <1>2, <1>3 DEF Next, vars, tables, create_circle, reorderSlots, ReadPlaces, EndWithoutEffect, BeginAccept,
         BeginOrder, BeginCreated, BeginReconcile, Begin

LEMMA OnlyDraftKept ==
  ASSUME OrgInv, OnlyDraft, [OrgNext]_orgvars
  PROVE  OnlyDraft'
<1>1. DraftsInv /\ Organizer \in Handlers /\ Draft \in Drafts
  BY OrganizerAssumption DEF OrgInv
<1>2. UNCHANGED circle_drafts => OnlyDraft'
  BY DEF OnlyDraft, Exists
<1>3. ASSUME NEW amount, createDraft(Draft, amount) PROVE OnlyDraft'
  <2>1. \A d \in Drafts \ {Draft} : circle_drafts'[d] = circle_drafts[d]
    BY <1>1, <1>3 DEF createDraft, DraftsInv, TypeOK
  <2> QED BY <2>1 DEF OnlyDraft, Exists
<1>4. ASSUME NEW h \in Handlers, acceptInvite(h) \/ ReportCreated(h) PROVE OnlyDraft'
  <2>1. /\ requests[h].draft \in Drafts /\ Exists(requests[h].draft)
        /\ \A d \in Drafts \ {requests[h].draft} : circle_drafts'[d] = circle_drafts[d]
    BY <1>1, <1>4, RowsChanged
  <2> QED BY <2>1 DEF OnlyDraft, Exists
<1>5. ASSUME NEW b \in Buttons, Press(b) PROVE OnlyDraft'
  BY <1>2, <1>3, <1>5 DEF Press, onConnect, onCreateDraft, move, discardOrder, saveOrder, BeginOrder, Begin,
                  onCreateCircle, create_circle, vars, tables
<1>6. Reload \/ RequestFails \/ StartPoll \/ EndPoll \/ markCreatedRequest \/ UNCHANGED orgvars => UNCHANGED circle_drafts
  BY DEF Reload, RequestFails, StartPoll, EndPoll, markCreatedRequest, BeginCreated, Begin, orgvars, vars, tables
<1>7. OrderSaved \/ ReadPlaces(Organizer) => UNCHANGED circle_drafts
  BY DEF OrderSaved, reorderSlots, ReadPlaces, tables
<1>8. ASSUME CreationRecorded PROVE OnlyDraft'
  BY <1>1, <1>4, <1>8 DEF CreationRecorded
<1>9. ASSUME Members_accept PROVE OnlyDraft'
  BY <1>2, <1>4, <1>9 DEF Members_accept, BeginAccept, Begin, EndWithoutEffect, tables
<1>10. CASE OrgNext
  <2> DEFINE pressed == \E b \in Buttons : Press(b)
             read == ReadPlaces(Organizer) /\ UNCHANGED <<page, poll>>
  <2>1. pressed => OnlyDraft'
    BY <1>5
  <2>2. read => OnlyDraft'
    BY <1>2, <1>7
  <2>3. \/ pressed \/ Reload \/ StartPoll \/ EndPoll \/ OrderSaved \/ markCreatedRequest
        \/ read \/ CreationRecorded \/ RequestFails \/ Members_accept
    BY <1>10 DEF OrgNext
  <2> HIDE DEF pressed, read
  <2> QED BY <2>1, <2>2, <2>3, <1>2, <1>6, <1>7, <1>8, <1>9
<1> QED
  BY <1>2, <1>6, <1>10

\* What was counted is there after any step.
LEMMA CountsKept ==
  ASSUME OrgInv, OnlyDraft, [Next]_vars, OrgInv', OnlyDraft'
  PROVE  \A f : /\ DraftsCounted(f) => DraftsCounted(f)'
                /\ PlacesCounted(f) => PlacesCounted(f)'
                /\ DraftsCounted(f) /\ CirclesCounted(f) => CirclesCounted(f)'
<1>1. DraftsInv /\ DraftsInv'
  BY DEF OrgInv
<1>2. /\ KeepsPlaces /\ \A d \in Drafts : Exists(d) => Exists(d)'
      /\ \A c \in DOMAIN circles : c \in DOMAIN circles'
  BY <1>1, ServiceSteps
<1>3. PICK there, later : there = {d \in Drafts : Exists(d)} /\ later = {d \in Drafts : Exists(d)}'
  OBVIOUS
<1>4. PICK made, madeLater : made = WithStatus("created") /\ madeLater = WithStatus("created")'
  OBVIOUS
<1>5. PICK taken, takenLater : taken = AcceptedPlaces /\ takenLater = AcceptedPlaces'
  OBVIOUS
<1>6. there \subseteq later
  BY <1>2, <1>3
<1>7. made \subseteq madeLater
  BY <1>1, <1>4, CreatedKept DEF WithStatus
<1>8. taken \subseteq takenLater
  BY <1>2, <1>5 DEF AcceptedPlaces, KeepsPlaces
<1>9. /\ IsFiniteSet({d \in Drafts : Exists(d)}) /\ IsFiniteSet(WithStatus("created")) /\ IsFiniteSet(AcceptedPlaces)
      /\ Cardinality({d \in Drafts : Exists(d)}) \in 0..1
      /\ Cardinality(WithStatus("created")) \in 0..1 /\ Cardinality(AcceptedPlaces) \in Nat
  BY <1>1, OnlyDraftSets
<1>10. (/\ IsFiniteSet({d \in Drafts : Exists(d)}) /\ IsFiniteSet(WithStatus("created")) /\ IsFiniteSet(AcceptedPlaces)
        /\ Cardinality({d \in Drafts : Exists(d)}) \in 0..1
        /\ Cardinality(WithStatus("created")) \in 0..1 /\ Cardinality(AcceptedPlaces) \in Nat)'
  BY <1>1, OnlyDraftSets, PTL
<1>11. /\ IsFiniteSet(there) /\ IsFiniteSet(later) /\ IsFiniteSet(made) /\ IsFiniteSet(madeLater)
       /\ IsFiniteSet(taken) /\ IsFiniteSet(takenLater)
  BY <1>3, <1>4, <1>5, <1>9, <1>10
<1>12. Cardinality(there) <= Cardinality(later)
  BY <1>6, <1>11, FS_Subset
<1>13. Cardinality(made) <= Cardinality(madeLater)
  BY <1>7, <1>11, FS_Subset
<1>14. Cardinality(taken) <= Cardinality(takenLater)
  BY <1>8, <1>11, FS_Subset
<1>15. /\ Cardinality(there) \in Nat /\ Cardinality(later) \in Nat /\ Cardinality(made) \in Nat
       /\ Cardinality(madeLater) \in Nat /\ Cardinality(taken) \in Nat /\ Cardinality(takenLater) \in Nat
  BY <1>11, FS_CardinalityType
<1>16. Len(circles) \in Nat /\ Len(circles') \in Nat /\ Len(circles) <= Len(circles')
  <2>1. /\ circles \in Seq([payout_order : PayoutOrders, contribution_amount : Amounts])
        /\ circles' \in Seq([payout_order : PayoutOrders, contribution_amount : Amounts])
    BY <1>1 DEF DraftsInv, TypeOK
  <2>2. Len(circles) > 0 => Len(circles) \in DOMAIN circles'
    BY <1>2, <2>1
  <2> QED BY <2>1, <2>2
<1>17. ASSUME NEW f, DraftsCounted(f) PROVE DraftsCounted(f)'
  <2>1. /\ f.draftsTotal \in Nat /\ f.draftsTotal <= Cardinality(there)
        /\ f.draftsCreated \in Nat /\ f.draftsCreated <= Cardinality(made)
    BY <1>3, <1>4, <1>17 DEF DraftsCounted
  <2>2. f.draftsTotal <= Cardinality(later) /\ f.draftsCreated <= Cardinality(madeLater)
    BY <2>1, <1>12, <1>13, <1>15
  <2> QED BY <1>3, <1>4, <1>17, <2>2 DEF DraftsCounted
<1>18. ASSUME NEW f, PlacesCounted(f) PROVE PlacesCounted(f)'
  <2>1. f.placesAccepted \in Nat /\ f.placesAccepted <= Cardinality(taken)
    BY <1>5, <1>18 DEF PlacesCounted
  <2>2. f.placesAccepted <= Cardinality(takenLater)
    BY <2>1, <1>14, <1>15
  <2> QED BY <1>5, <1>18, <2>2 DEF PlacesCounted
<1>19. ASSUME NEW f, DraftsCounted(f), CirclesCounted(f) PROVE CirclesCounted(f)'
  <2>1. /\ f.draftsCreated \in Nat /\ f.unrecordedChainCircles \in Nat
        /\ f.draftsCreated + f.unrecordedChainCircles <= Len(circles)
    BY <1>19 DEF DraftsCounted, CirclesCounted
  <2>2. f.draftsCreated + f.unrecordedChainCircles <= Len(circles')
    BY <2>1, <1>16
  <2> QED BY <1>19, <2>1, <2>2 DEF CirclesCounted
<1> QED
  BY <1>17, <1>18, <1>19

-----------------------------------------------------------------------------
(* The answers of the database *)

LEMMA DraftsAnswer ==
  ASSUME DashInv
  PROVE  DraftsCounted(CountDrafts) /\ DOMAIN CountDrafts \cap {"placesAccepted", "unrecordedChainCircles"} = {}
<1>1. DraftsInv /\ OnlyDraft
  BY DEF DashInv, OrgInv
<1>2. PICK f : f = CountDrafts
  OBVIOUS
<1>3. /\ DOMAIN f = {"draftsTotal", "draftsCollecting", "draftsReady", "draftsCreated", "placesTotal",
                     "createdWithoutCircleId"}
      /\ f.draftsTotal = Cardinality({d \in Drafts : Exists(d)})
      /\ f.draftsCreated = Cardinality(WithStatus("created"))
      /\ f.createdWithoutCircleId =
           Cardinality({d \in WithStatus("created") : circle_drafts[d].circle_id = NoCircle})
  BY <1>2 DEF CountDrafts
<1>4. {d \in WithStatus("created") : circle_drafts[d].circle_id = NoCircle} = {}
  BY <1>1 DEF DraftsInv, ReadyWhenFull, WithStatus
<1>5. f.createdWithoutCircleId = 0
  BY <1>3, <1>4, FS_EmptySet, Zenon
<1>6. /\ Cardinality({d \in Drafts : Exists(d)}) \in 0..1 /\ Cardinality(WithStatus("created")) \in 0..1
      /\ Cardinality(WithStatus("created")) <= Cardinality({d \in Drafts : Exists(d)})
  BY <1>1, OnlyDraftSets
<1>7. DraftsCounted(f)
  BY <1>3, <1>5, <1>6 DEF DraftsCounted
<1> QED
  BY <1>2, <1>3, <1>7

LEMMA PlacesAnswer ==
  ASSUME DashInv
  PROVE  PlacesCounted(CountPlaces) /\ DOMAIN CountPlaces = {"placesAccepted"}
<1>1. Cardinality(AcceptedPlaces) \in Nat
  BY OnlyDraftSets DEF DashInv, OrgInv
<1>2. PICK f : f = CountPlaces
  OBVIOUS
<1>3. DOMAIN f = {"placesAccepted"} /\ f.placesAccepted = Cardinality(AcceptedPlaces)
  BY <1>2 DEF CountPlaces
<1>4. PlacesCounted(f)
  BY <1>1, <1>3 DEF PlacesCounted
<1> QED
  BY <1>2, <1>3, <1>4

\* A circle a draft is recorded with is not counted as missing.
LEMMA CirclesAnswer ==
  ASSUME DashInv, NEW n \in Nat, n <= Cardinality(WithStatus("created"))
  PROVE  /\ DOMAIN CountCircles = {"indexedCircles", "unrecordedChainCircles"}
         /\ CountCircles.unrecordedChainCircles \in Nat
         /\ n + CountCircles.unrecordedChainCircles <= Len(circles)
<1>1. DraftsInv /\ OnlyDraft /\ indexed_circles \subseteq DOMAIN circles
  BY DEF DashInv, OrgInv
<1>2. /\ Len(circles) \in Nat /\ DOMAIN circles = 1..Len(circles)
  BY <1>1 DEF DraftsInv, TypeOK
<1> DEFINE missing == indexed_circles \ Recorded
           chain == 1..Len(circles)
<1>3. missing \subseteq chain
  BY <1>1, <1>2
<1>4. CountCircles.unrecordedChainCircles = Cardinality(missing)
  BY DEF CountCircles
<1>5. DOMAIN CountCircles = {"indexedCircles", "unrecordedChainCircles"}
  BY DEF CountCircles
<1>6. IsFiniteSet(chain) /\ Cardinality(chain) = Len(circles)
  <2>1. PICK len \in Nat : len = Len(circles)
    BY <1>2
  <2>2. IsFiniteSet(1..len) /\ Cardinality(1..len) = len
    <3>1. IsFiniteSet(1..len) /\ Cardinality(1..len) = (IF 1 > len THEN 0 ELSE len - 1 + 1)
      BY <2>1, FS_Interval, 1 \in Int, len \in Int
    <3> QED BY <2>1, <3>1
  <2> QED BY <2>1, <2>2
<1>7. Cardinality(WithStatus("created")) \in 0..1 /\ IsFiniteSet(WithStatus("created"))
  BY <1>1, OnlyDraftSets
<1>8. CASE WithStatus("created") = {}
  <2>1. Cardinality(WithStatus("created")) = 0
    BY <1>8, FS_EmptySet, Zenon
  <2>2. n = 0
    BY <1>7, <2>1
  <2> HIDE DEF missing, chain
  <2>3. IsFiniteSet(missing) /\ Cardinality(missing) <= Cardinality(chain) /\ Cardinality(missing) \in Nat
    BY <1>3, <1>6, FS_Subset, FS_CardinalityType
  <2> QED BY <1>4, <1>5, <1>6, <2>2, <2>3
<1>9. CASE WithStatus("created") # {}
  <2>1. PICK d \in Drafts : circle_drafts[d].status = "created"
    BY <1>9 DEF WithStatus
  <2>2. PICK c : c = circle_drafts[d].circle_id
    OBVIOUS
  <2>3. c \in chain /\ c # NoCircle
    BY <1>1, <1>2, <2>1, <2>2 DEF DraftsInv, CreatedHoldsItsMembers, ReadyWhenFull
  <2>4. c \in Recorded
    BY <2>1, <2>2, <2>3 DEF Recorded
  <2>5. missing \subseteq chain \ {c}
    BY <1>3, <2>4
  <2> HIDE DEF missing, chain
  <2>6. IsFiniteSet(chain \ {c}) /\ Cardinality(chain \ {c}) = Cardinality(chain) - 1
    BY <1>6, <2>3, FS_RemoveElement
  <2>7. IsFiniteSet(missing) /\ Cardinality(missing) <= Cardinality(chain \ {c}) /\ Cardinality(missing) \in Nat
    BY <2>5, <2>6, FS_Subset, FS_CardinalityType
  <2> QED BY <1>2, <1>4, <1>5, <1>6, <1>7, <2>6, <2>7
<1> QED
  BY <1>8, <1>9

-----------------------------------------------------------------------------
(* The steps of the dashboard *)

\* Each answer is added to those before it.
LEMMA AnswerKeeps ==
  ASSUME DashInv, NEW r \in Reads, NEW query \in Range(Queries), coordinationCounts(r, query)
  PROVE  \E o : CountsOK(o) /\ overview' = [overview EXCEPT ![r] = o]
<1>1. PICK o : o = overview[r]
  OBVIOUS
<1>2. o.stage = "counting" /\ query \in Due(o) /\ CountsOK(o)
  BY <1>1 DEF coordinationCounts, DashInv, ReadsOK
<1>3. PICK answer : answer = CASE query = "drafts"  -> CountDrafts
                                [] query = "places"  -> CountPlaces
                                [] query = "circles" -> CountCircles
  OBVIOUS
<1>4. PICK counts, answered : counts = Together(answer, o.counts) /\ answered = o.answered \cup {query}
  OBVIOUS
<1>5. PICK q : q = [[o EXCEPT !.answered = answered] EXCEPT !.counts = counts]
  OBVIOUS
<1>6. overview' = [overview EXCEPT ![r] = q]
  <2>1. overview' = [overview EXCEPT ![r].answered = @ \cup {query}, ![r].counts = Together(answer, @)]
    BY <1>3 DEF coordinationCounts
  <2>2. overview' = [overview EXCEPT ![r] =
          [[overview[r] EXCEPT !.answered = overview[r].answered \cup {query}]
             EXCEPT !.counts = Together(answer, overview[r].counts)]]
    BY <2>1 DEF DashInv, ReadsOK
  <2> QED BY <2>2, <1>1, <1>4, <1>5
<1>7. /\ DOMAIN q = {"stage", "by", "answered", "counts"} /\ q.by = o.by
      /\ q.answered = answered /\ q.counts = counts
  BY <1>2, <1>5 DEF CountsOK
<1>8. \/ o.answered = {} /\ query = "drafts"
      \/ o.answered = {"drafts"} /\ query = "places"
      \/ o.answered = {"drafts", "places"} /\ query = "circles"
  <2>1. Cardinality({}) = 0
    BY FS_EmptySet, Zenon
  <2>2. IsFiniteSet({"drafts"}) /\ Cardinality({"drafts"}) = 1
    BY FS_Singleton
  <2>3. IsFiniteSet({"drafts", "places"}) /\ Cardinality({"drafts", "places"}) = 2
    <3>1. {"drafts", "places"} = {"drafts"} \cup {"places"} /\ "places" \notin {"drafts"}
      OBVIOUS
    <3> QED BY <2>2, <3>1, FS_AddElement
  <2>4. Cardinality({"drafts", "places", "circles"}) = 3
    <3>1. {"drafts", "places", "circles"} = {"drafts", "places"} \cup {"circles"} /\ "circles" \notin {"drafts", "places"}
      OBVIOUS
    <3> QED BY <2>3, <3>1, FS_AddElement
  <2>5. Queries[1] = "drafts" /\ Queries[2] = "places" /\ Queries[3] = "circles"
    BY DEF Queries
  <2>6. PICK i \in 1..3 : query = Queries[i] /\ Cardinality(o.answered) = i - 1
    BY <1>2 DEF Due
  <2>7. o.answered \in {{}, {"drafts"}, {"drafts", "places"}, {"drafts", "places", "circles"}}
    BY <1>2 DEF CountsOK
  <2> DEFINE a0 == {} a1 == {"drafts"} a2 == {"drafts", "places"} a3 == {"drafts", "places", "circles"}
  <2>8. Cardinality(a0) = 0 /\ Cardinality(a1) = 1 /\ Cardinality(a2) = 2 /\ Cardinality(a3) = 3
    BY <2>1, <2>2, <2>3, <2>4
  <2>9. o.answered \in {a0, a1, a2, a3}
    BY <2>7
  <2> HIDE DEF a0, a1, a2, a3
  <2>10. \/ o.answered = a0 /\ query = "drafts"
         \/ o.answered = a1 /\ query = "places"
         \/ o.answered = a2 /\ query = "circles"
    BY <2>5, <2>6, <2>8, <2>9
  <2> QED BY <2>10 DEF a0, a1, a2
<1>9. CASE o.answered = {} /\ query = "drafts"
  <2>1. DraftsCounted(answer)
    BY <1>3, <1>9, DraftsAnswer
  <2>2. DraftsCounted(counts)
    <3>1. /\ DOMAIN counts = DOMAIN answer \cup DOMAIN o.counts
          /\ \A x \in DOMAIN answer : counts[x] = answer[x]
      BY <1>4, TogetherHas
    <3> QED BY <2>1, <3>1 DEF DraftsCounted
  <2>3. answered = {"drafts"}
    BY <1>4, <1>9
  <2> QED BY <1>2, <1>6, <1>7, <2>2, <2>3 DEF CountsOK
<1>10. CASE o.answered = {"drafts"} /\ query = "places"
  <2>1. PlacesCounted(answer) /\ DOMAIN answer = {"placesAccepted"} /\ DraftsCounted(o.counts)
    BY <1>2, <1>3, <1>10, PlacesAnswer DEF CountsOK
  <2>2. PlacesCounted(counts)
    <3>1. /\ DOMAIN counts = DOMAIN answer \cup DOMAIN o.counts
          /\ \A x \in DOMAIN answer : counts[x] = answer[x]
      BY <1>4, TogetherHas
    <3> QED BY <2>1, <3>1 DEF PlacesCounted
  <2>3. DraftsCounted(counts)
    BY <2>1, <1>4, CountedAsBefore
  <2>4. answered = {"drafts", "places"}
    BY <1>4, <1>10
  <2> QED BY <1>2, <1>6, <1>7, <2>2, <2>3, <2>4 DEF CountsOK
<1>11. CASE o.answered = {"drafts", "places"} /\ query = "circles"
  <2>1. DraftsCounted(o.counts) /\ PlacesCounted(o.counts)
    BY <1>2, <1>11 DEF CountsOK
  <2>2. PICK n : n = o.counts.draftsCreated
    OBVIOUS
  <2>3. n \in Nat /\ n <= Cardinality(WithStatus("created"))
    BY <2>1, <2>2 DEF DraftsCounted
  <2>4. answer = CountCircles
    BY <1>3, <1>11
  <2>5. /\ DOMAIN answer = {"indexedCircles", "unrecordedChainCircles"}
        /\ answer.unrecordedChainCircles \in Nat
        /\ n + answer.unrecordedChainCircles <= Len(circles)
    BY <2>3, <2>4, CirclesAnswer
  <2>6. DraftsCounted(counts) /\ PlacesCounted(counts)
    BY <2>1, <2>5, <1>4, CountedAsBefore
  <2>7. /\ DOMAIN counts = DOMAIN answer \cup DOMAIN o.counts
        /\ \A x \in DOMAIN answer : counts[x] = answer[x]
        /\ \A x \in DOMAIN o.counts \ DOMAIN answer : counts[x] = o.counts[x]
    <3>1. PICK c : c = o.counts
      OBVIOUS
    <3>2. counts = Together(answer, c)
      BY <1>4, <3>1
    <3>3. /\ DOMAIN counts = DOMAIN answer \cup DOMAIN c
          /\ \A x \in DOMAIN answer : counts[x] = answer[x]
          /\ \A x \in DOMAIN c \ DOMAIN answer : counts[x] = c[x]
      BY <3>2 DEF Together
    <3> QED BY <3>1, <3>3
  <2>8. counts.draftsCreated = n
    BY <2>1, <2>2, <2>5, <2>7 DEF DraftsCounted
  <2>9. "unrecordedChainCircles" \in DOMAIN counts /\ counts.unrecordedChainCircles = answer.unrecordedChainCircles
    BY <2>5, <2>7
  <2>10. CirclesCounted(counts)
    BY <2>5, <2>8, <2>9 DEF CirclesCounted
  <2>11. answered = {"drafts", "places", "circles"}
    BY <1>4, <1>11
  <2> QED BY <1>2, <1>6, <1>7, <2>6, <2>10, <2>11 DEF CountsOK
<1> QED
  BY <1>8, <1>9, <1>10, <1>11

\* A read that changes, or is new.
LEMMA ReadChanges ==
  ASSUME ReadsOK, NEW r \in Reads, NEW o, overview' = [overview EXCEPT ![r] = o],
         \A q : CountsOK(q) => CountsOK(q)', o.stage = "counting" => CountsOK(o)
  PROVE  ReadsOK'
<1>1. overview' = [q \in Reads |-> IF q = r THEN o ELSE overview[q]]
  BY DEF ReadsOK
<1>2. overview' = [q \in Reads |-> overview'[q]]
  BY <1>1
<1>3. ASSUME NEW q \in Reads, overview'[q].stage = "counting" PROVE CountsOK(overview[q])'
  <2>1. PICK p : p = overview'[q]
    OBVIOUS
  <2>2. CountsOK(p)
    BY <1>1, <1>3, <2>1 DEF ReadsOK
  <2>3. CountsOK(p)'
    BY <2>2
  <2> QED BY <2>1, <2>3
<1> QED
  BY <1>2, <1>3 DEF ReadsOK

\* Any step of the dashboard is a step of the page, or leaves it alone.
LEMMA DashIsOrg == [DashNext]_dashvars => [OrgNext]_orgvars
<1> SUFFICES ASSUME [DashNext]_dashvars PROVE [OrgNext]_orgvars
  OBVIOUS
<1>1. UNCHANGED others => UNCHANGED orgvars
  BY DEF others
<1>2. ASSUME NEW r \in Reads,
             \/ load(r) \/ Authenticate(r) \/ ShowOverview(r) \/ ShowForbidden(r) \/ ReadFails(r)
             \/ \E query \in Range(Queries) : coordinationCounts(r, query)
      PROVE  UNCHANGED others
  BY <1>2 DEF load, Authenticate, ShowOverview, ShowForbidden, ReadFails, coordinationCounts
<1>3. IndexCircle \/ UNCHANGED dashvars => UNCHANGED orgvars
  BY DEF IndexCircle, dashvars
<1>4. ASSUME NEW w, WalletChanges(w) PROVE UNCHANGED others
  BY <1>4 DEF WalletChanges
<1>5. CASE OrgNext
  BY <1>5
<1>6. CASE \E w \in Wallets \cup {NoWallet} : WalletChanges(w)
  BY <1>6, <1>1, <1>4
<1>7. CASE \E r \in Reads :
             \/ load(r) \/ Authenticate(r) \/ ShowOverview(r) \/ ShowForbidden(r) \/ ReadFails(r)
             \/ \E query \in Range(Queries) : coordinationCounts(r, query)
  BY <1>7, <1>1, <1>2
<1> QED
  BY <1>3, <1>5, <1>6, <1>7 DEF DashNext

\* What is counted and what is shown after any step.
LEMMA DashStep == DashInv /\ [DashNext]_dashvars => DashInv'
<1> SUFFICES ASSUME DashInv, [DashNext]_dashvars PROVE DashInv'
  OBVIOUS
<1>1. OrgInv /\ OnlyDraft /\ [OrgNext]_orgvars
  BY DashIsOrg DEF DashInv
<1>2. OrgInv' /\ OnlyDraft' /\ [Next]_vars
  BY <1>1, OrgStep, OnlyDraftKept, OrgIsService
<1>3. \A f : /\ DraftsCounted(f) => DraftsCounted(f)'
             /\ PlacesCounted(f) => PlacesCounted(f)'
             /\ DraftsCounted(f) /\ CirclesCounted(f) => CirclesCounted(f)'
  BY <1>1, <1>2, CountsKept
<1>4. ASSUME NEW o, CountsOK(o) PROVE CountsOK(o)'
  <2>1. PICK f : f = o.counts
    OBVIOUS
  <2>2. /\ "drafts" \in o.answered => DraftsCounted(f)
        /\ "places" \in o.answered => PlacesCounted(f)
        /\ "circles" \in o.answered => DraftsCounted(f) /\ CirclesCounted(f)
    BY <1>4, <2>1 DEF CountsOK
  <2>3. /\ "drafts" \in o.answered => DraftsCounted(f)'
        /\ "places" \in o.answered => PlacesCounted(f)'
        /\ "circles" \in o.answered => CirclesCounted(f)'
    BY <1>3, <2>2
  <2> QED BY <1>4, <2>1, <2>3 DEF CountsOK
<1>5. (\A c \in DOMAIN circles : c \in DOMAIN circles') /\ circles \in Seq([payout_order : PayoutOrders, contribution_amount : Amounts])
  BY <1>1, <1>2, ServiceSteps DEF OrgInv, DraftsInv, TypeOK
<1>6. UNCHANGED indexed_circles => indexed_circles' \subseteq DOMAIN circles'
  BY <1>5 DEF DashInv
<1>7. ASSUME UNCHANGED overview PROVE ReadsOK'
  <2>1. overview' = [r \in Reads |-> overview'[r]]
    BY <1>7 DEF DashInv, ReadsOK
  <2>2. ASSUME NEW q \in Reads, overview'[q].stage = "counting" PROVE CountsOK(overview[q])'
    <3>1. PICK p : p = overview'[q]
      OBVIOUS
    <3>2. CountsOK(p)
      BY <1>7, <2>2, <3>1 DEF DashInv, ReadsOK
    <3>3. CountsOK(p)'
      BY <3>2, <1>4
    <3> QED BY <3>1, <3>3
  <2> QED BY <2>1, <2>2 DEF ReadsOK
<1>8. ASSUME UNCHANGED state PROVE ShownOK'
  <2>1. PICK f : f = state'.facts
    OBVIOUS
  <2>2. state'.kind = "ready" => state'.by \in Operators /\ DraftsCounted(f) /\ PlacesCounted(f) /\ CirclesCounted(f)
    BY <1>8, <2>1 DEF DashInv, ShownOK
  <2>3. state'.kind = "ready" => DraftsCounted(f)' /\ PlacesCounted(f)' /\ CirclesCounted(f)'
    BY <2>2, <1>3
  <2> QED BY <2>1, <2>2, <2>3 DEF ShownOK
<1>9. state'.kind # "ready" => ShownOK'
  BY DEF ShownOK
<1>10. ASSUME NEW r \in Reads, NEW o, overview' = [overview EXCEPT ![r] = o],
              o.stage = "counting" => CountsOK(o)
       PROVE  ReadsOK'
  BY <1>4, <1>10, ReadChanges DEF DashInv
<1>11. NotAsked.stage # "counting"
  BY DEF NotAsked
<1>12. ASSUME IndexCircle
       PROVE  indexed_circles' \subseteq DOMAIN circles' /\ ReadsOK' /\ ShownOK'
  <2>1. PICK n : n = Cardinality(indexed_circles)
    OBVIOUS
  <2>2. PICK len \in Nat : len = Len(circles) /\ DOMAIN circles = 1..len
    BY <1>5
  <2>3. n \in Nat
    <3>1. IsFiniteSet(1..len)
      BY <2>2, FS_Interval
    <3>2. indexed_circles \subseteq 1..len
      BY <2>2 DEF DashInv
    <3> QED BY <2>1, <3>1, <3>2, FS_Subset, FS_CardinalityType
  <2>4. n < len /\ indexed_circles' = 1..(n + 1) /\ UNCHANGED <<orgvars, state, overview>>
    BY <1>12, <2>1, <2>2 DEF IndexCircle
  <2>5. indexed_circles' \subseteq 1..len
    BY <2>2, <2>3, <2>4
  <2> QED BY <2>2, <2>4, <2>5, <1>5, <1>7, <1>8
<1>13. ASSUME UNCHANGED <<indexed_circles, address, state, overview>>
       PROVE  indexed_circles' \subseteq DOMAIN circles' /\ ReadsOK' /\ ShownOK'
  BY <1>6, <1>7, <1>8, <1>13
<1>14. ASSUME NEW w, WalletChanges(w)
       PROVE  indexed_circles' \subseteq DOMAIN circles' /\ ReadsOK' /\ ShownOK'
  BY <1>6, <1>7, <1>9, <1>14 DEF WalletChanges, others
<1>15. ASSUME NEW r \in Reads, load(r)
       PROVE  indexed_circles' \subseteq DOMAIN circles' /\ ReadsOK' /\ ShownOK'
  <2>1. PICK o : o = [stage |-> "signing", by |-> address]
    OBVIOUS
  <2>2. o.stage # "counting" /\ overview' = [overview EXCEPT ![r] = o]
    BY <1>15, <2>1 DEF load
  <2>3. ReadsOK'
    BY <1>10, <2>2
  <2> QED BY <1>6, <1>9, <1>15, <2>3 DEF load, others
<1>16. ASSUME NEW r \in Reads, Authenticate(r)
       PROVE  indexed_circles' \subseteq DOMAIN circles' /\ ReadsOK' /\ ShownOK'
  <2>1. PICK o : o = [stage |-> "counting", by |-> address, answered |-> {}, counts |-> << >>]
    OBVIOUS
  <2>2. PICK p : p = [stage |-> "not_admin"]
    OBVIOUS
  <2>3. p.stage # "counting"
    BY <2>2
  <2>4. address \in Operators => CountsOK(o)
    BY <2>1 DEF CountsOK
  <2>5. \/ address \in Operators /\ overview' = [overview EXCEPT ![r] = o]
        \/ overview' = [overview EXCEPT ![r] = p]
    BY <1>16, <2>1, <2>2 DEF Authenticate, allows
  <2>6. ReadsOK'
    BY <1>10, <2>3, <2>4, <2>5
  <2> QED BY <1>6, <1>8, <1>16, <2>6 DEF Authenticate, others
<1>17. ASSUME NEW r \in Reads, NEW query \in Range(Queries), coordinationCounts(r, query)
       PROVE  indexed_circles' \subseteq DOMAIN circles' /\ ReadsOK' /\ ShownOK'
  <2>1. PICK o : CountsOK(o) /\ overview' = [overview EXCEPT ![r] = o]
    BY <1>17, AnswerKeeps
  <2>2. ReadsOK'
    BY <1>10, <2>1
  <2> QED BY <1>6, <1>8, <1>17, <2>2 DEF coordinationCounts, others
<1>18. ASSUME NEW r \in Reads, ShowForbidden(r) \/ ReadFails(r)
       PROVE  indexed_circles' \subseteq DOMAIN circles' /\ ReadsOK' /\ ShownOK'
  <2>1. overview' = [overview EXCEPT ![r] = NotAsked] /\ state'.kind # "ready" /\ UNCHANGED others
    BY <1>18 DEF ShowForbidden, ReadFails
  <2>2. ReadsOK'
    BY <1>10, <1>11, <2>1
  <2> QED BY <1>6, <1>9, <2>1, <2>2 DEF others
<1>19. ASSUME NEW r \in Reads, ShowOverview(r)
       PROVE  indexed_circles' \subseteq DOMAIN circles' /\ ReadsOK' /\ ShownOK'
  <2>1. overview' = [overview EXCEPT ![r] = NotAsked] /\ UNCHANGED others
    BY <1>19 DEF ShowOverview
  <2>2. ReadsOK'
    BY <1>10, <1>11, <2>1
  <2>3. PICK o, g : o = overview[r] /\ g = o.counts
    OBVIOUS
  <2>4. PICK h \in Health : state' = [kind |-> "ready", by |-> o.by, facts |-> Together(h, g)]
    BY <1>19, <2>3 DEF ShowOverview
  <2>5. o.stage = "counting" /\ o.answered = Range(Queries)
    BY <1>19, <2>3 DEF ShowOverview
  <2>6. "drafts" \in o.answered /\ "places" \in o.answered /\ "circles" \in o.answered
    <3>1. /\ DOMAIN Queries = 1..3 /\ Queries[1] = "drafts" /\ Queries[2] = "places" /\ Queries[3] = "circles"
      BY DEF Queries
    <3>2. \A i \in 1..3 : Queries[i] \in Range(Queries)
      BY <3>1 DEF Range
    <3> QED BY <2>5, <3>1, <3>2
  <2>7. o.by \in Operators /\ DraftsCounted(g) /\ PlacesCounted(g) /\ CirclesCounted(g)
    BY <2>3, <2>5, <2>6 DEF DashInv, ReadsOK, CountsOK
  <2>8. DOMAIN h = {"rpcReachable", "circleReadOk"}
    BY DEF Health
  <2>9. PICK f : f = Together(h, g)
    OBVIOUS
  <2>10. DraftsCounted(f) /\ PlacesCounted(f) /\ CirclesCounted(f)
    BY <2>7, <2>8, <2>9, CountedAsBefore
  <2>11. DraftsCounted(f)' /\ PlacesCounted(f)' /\ CirclesCounted(f)'
    BY <2>10, <1>3
  <2>12. state'.by = o.by /\ state'.facts = f
    BY <2>4, <2>9
  <2>13. ShownOK'
    BY <2>7, <2>11, <2>12 DEF ShownOK
  <2> QED BY <1>6, <2>1, <2>2, <2>13 DEF others
<1> DEFINE goal == indexed_circles' \subseteq DOMAIN circles' /\ ReadsOK' /\ ShownOK'
<1>20. goal
  <2>1. ASSUME NEW r \in Reads,
               \/ load(r) \/ Authenticate(r) \/ ShowOverview(r) \/ ShowForbidden(r) \/ ReadFails(r)
               \/ \E query \in Range(Queries) : coordinationCounts(r, query)
        PROVE  goal
    <3>1. ASSUME NEW query \in Range(Queries), coordinationCounts(r, query) PROVE goal
      BY <3>1, <1>17
    <3>2. load(r) \/ Authenticate(r) => goal
      BY <1>15, <1>16
    <3>3. ShowOverview(r) \/ ShowForbidden(r) \/ ReadFails(r) => goal
      BY <1>18, <1>19
    <3> HIDE DEF goal
    <3> QED BY <2>1, <3>1, <3>2, <3>3
  <2>2. IndexCircle => goal
    BY <1>12
  <2>3. UNCHANGED <<indexed_circles, address, state, overview>> => goal
    BY <1>13
  <2>4. ASSUME NEW w, WalletChanges(w) PROVE goal
    BY <2>4, <1>14
  <2>5. UNCHANGED dashvars => UNCHANGED <<indexed_circles, address, state, overview>>
    BY DEF dashvars
  <2> HIDE DEF goal
  <2> QED BY <2>1, <2>2, <2>3, <2>4, <2>5 DEF DashNext
<1> QED
  BY <1>2, <1>20 DEF DashInv

LEMMA DashInitInv == DashInit => DashInv
<1> SUFFICES ASSUME DashInit PROVE DashInv
  OBVIOUS
<1>1. OrgInv
  BY OrgInitInv DEF DashInit
<1>2. OnlyDraft
  BY DEF DashInit, OrgInit, Init, OnlyDraft, Exists
<1>3. ReadsOK
  BY DEF DashInit, ReadsOK, NotAsked
<1>4. ShownOK
  BY DEF DashInit, ShownOK
<1> QED
  BY <1>1, <1>2, <1>3, <1>4 DEF DashInv, DashInit

THEOREM DashInvariant == DashSpec => []DashInv
<1> QED
  BY DashInitInv, DashStep, PTL DEF DashSpec

\* The page under the dashboard is the page of module IwaOrganizer.
THEOREM DashImplementsOrg == DashSpec => OrgSpec
<1>1. DashInit => OrgInit
  BY DEF DashInit
<1> QED
  BY <1>1, DashIsOrg, PTL DEF DashSpec, OrgSpec

\* The completion rate, and what an operator is told to look into.
LEMMA ReportOf ==
  ASSUME NEW f, NEW there \in Nat, f.draftsTotal \in Nat, f.draftsCreated \in Nat,
         f.draftsCreated <= f.draftsTotal, f.draftsTotal <= there, f.createdWithoutCircleId = 0
  PROVE  /\ adminReport(f).overview.drafts <= there
         /\ adminReport(f).business.completion \subseteq 0..100
         /\ "created-without-id" \notin adminReport(f).operations
<1>1. adminReport(f).overview.drafts = f.draftsTotal
  BY DEF adminReport, overviewSection
<1>2. adminReport(f).business.completion = Rate(f.draftsCreated, f.draftsTotal)
  BY DEF adminReport, businessSection
<1>3. Rate(f.draftsCreated, f.draftsTotal) \subseteq 0..100
  BY RateBounded
<1>4. adminReport(f).operations = operationsOf(f)
  BY DEF adminReport
<1>5. "created-without-id" \notin operationsOf(f)
  BY DEF operationsOf
<1> QED
  BY <1>1, <1>2, <1>3, <1>4, <1>5

\* A report put together from queries that see different moments, and shown
\* later: an operator signed for it, what it counts is there, no circle is in it
\* both as created and as missing its record, and it says of no draft that it is
\* created without a circle.
THEOREM ReportIsEarnedHolds == DashSpec => []ReportIsEarned
<1>1. ASSUME DashInv, state.kind = "ready"
      PROVE  ReportIsEarned
  <2>1. PICK f : f = state.facts
    OBVIOUS
  <2>2. state.by \in Operators /\ DraftsCounted(f) /\ PlacesCounted(f) /\ CirclesCounted(f)
    BY <1>1, <2>1 DEF DashInv, ShownOK
  <2>3. PICK there : there = Cardinality({d \in Drafts : Exists(d)})
    OBVIOUS
  <2>4. there \in Nat
    BY <1>1, <2>3, OnlyDraftSets DEF DashInv, OrgInv
  <2>5. /\ adminReport(f).overview.drafts <= there
        /\ adminReport(f).business.completion \subseteq 0..100
        /\ "created-without-id" \notin adminReport(f).operations
    BY <2>2, <2>3, <2>4, ReportOf DEF DraftsCounted
  <2> QED BY <2>1, <2>2, <2>3, <2>5 DEF ReportIsEarned, PlacesCounted, CirclesCounted
<1>2. DashInv => ReportIsEarned
  BY <1>1 DEF ReportIsEarned
<1> QED
  BY <1>2, DashInvariant, PTL
=============================================================================
