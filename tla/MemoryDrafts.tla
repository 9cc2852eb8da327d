----------------------------- MODULE MemoryDrafts -----------------------------
(***************************************************************************)
(* The drafts of class MemoryStore of backend/src/store.ts, which is what  *)
(* the service's tests run on: a map of drafts in one thread, every        *)
(* operation complete before the next begins.                              *)
(*                                                                         *)
(* It says what the interface Store promises of drafts, invitations and    *)
(* creation records; module IwaDrafts, requests and row locks and all, is  *)
(* shown to implement it.                                                  *)
(***************************************************************************)
EXTENDS Naturals

CONSTANTS
  Ids,          \* draft ids
  memberCount,
  MemberRefs,
  Amounts,
  CircleIds,
  NotTaken,     \* memberRef null
  NoCircle      \* circleId null

VARIABLE drafts \* the map, from the ids of the drafts there are

Places == 1..memberCount

Init == drafts = [id \in {} |-> NoCircle]

\* A place is named for the position it was created with.
createDraft(id, amount) ==
  LET draft == [contributionAmount |-> amount, status |-> "draft", circleId |-> NoCircle,
                slots |-> [i \in Places |-> [slotId |-> i, memberRef |-> NotTaken]]]
  IN  /\ id \notin DOMAIN drafts
      /\ drafts' = [x \in DOMAIN drafts \cup {id} |-> IF x = id THEN draft ELSE drafts[x]]

\* The draft as it is stored again.
Changed(id, draft) ==
  drafts' = [x \in DOMAIN drafts |-> IF x = id THEN draft ELSE drafts[x]]

\* Of a draft that is neither created nor abandoned.
deriveStatus(slots) ==
  IF \A i \in Places : slots[i].memberRef # NotTaken THEN "ready" ELSE "draft"

\* The invite names its place for good.
acceptInvite(id, invite, m) ==
  LET draft == drafts[id]
      slots == [i \in Places |->
                  IF draft.slots[i].slotId = invite
                  THEN [slotId |-> invite, memberRef |-> m]
                  ELSE draft.slots[i]]
  IN  /\ draft.status \notin {"created", "abandoned"}
      /\ \E i \in Places : draft.slots[i].slotId = invite /\ draft.slots[i].memberRef = NotTaken
      /\ \A i \in Places : draft.slots[i].memberRef # m
      /\ Changed(id, [contributionAmount |-> draft.contributionAmount,
                      status |-> deriveStatus(slots), circleId |-> draft.circleId,
                      slots |-> slots])

\* Every place exactly once, each with whoever holds it.
reorderSlots(id, slots) ==
  LET draft == drafts[id]
  IN  /\ slots \in [Places -> {draft.slots[i] : i \in Places}]
      /\ \A i \in Places : \E j \in Places : slots[j] = draft.slots[i]
      /\ Changed(id, [contributionAmount |-> draft.contributionAmount, status |-> draft.status,
                      circleId |-> draft.circleId, slots |-> slots])

markCreated(id, circle) ==
  Changed(id, [contributionAmount |-> drafts[id].contributionAmount, status |-> "created",
               circleId |-> circle, slots |-> drafts[id].slots])

\* No route calls it.
abandonDraft(id) == Changed(id, [drafts[id] EXCEPT !.status = "abandoned"])

Next ==
  \/ \E id \in Ids, amount \in Amounts : createDraft(id, amount)
  \/ \E id \in DOMAIN drafts :
       \/ \E invite \in Places, m \in MemberRefs : acceptInvite(id, invite, m)
       \/ \E slots \in [Places -> [slotId : Places, memberRef : MemberRefs \cup {NotTaken}]] :
            reorderSlots(id, slots)
       \/ \E circle \in CircleIds : markCreated(id, circle)
       \/ abandonDraft(id)

Spec == Init /\ [][Next]_drafts
=============================================================================
