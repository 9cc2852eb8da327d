----------------------------- MODULE IwaOrganizer -----------------------------
(***************************************************************************)
(* The organizer's page, iwa-web/src/screens/OrganizerCircleView.tsx with  *)
(* lib/draftOrder.ts and create_circle_from_order of lib/iwaStarknet.ts,   *)
(* over the service of module IwaDrafts.                                   *)
(*                                                                         *)
(* The page holds a copy of the draft.  It is told of acceptances by a     *)
(* poll of the public view, which names nobody; it arranges the payout     *)
(* order locally and saves it once; it creates the circle on chain, and    *)
(* then reports it.  Every answer of the service may be lost, a poll may   *)
(* be answered late, and the page may be reloaded at any time: it stores   *)
(* nothing.                                                                *)
(***************************************************************************)
EXTENDS IwaDrafts

CONSTANTS
  Organizer,         \* the handler of the page's own requests
  NoDraft,           \* the page shows no draft
  Draft              \* the draft the organizer sets up

ASSUME OrganizerAssumption == Organizer \in Handlers /\ Draft \in Drafts

VARIABLES
  page,              \* what the screen holds
  poll               \* the answer to a poll under way, or NoDraft

orgvars == <<vars, page, poll>>

\* What the page holds when it is opened, and after a reload.  A circle the
\* page created and the service did not record is "unrecorded".
Opened ==
  [connected |-> FALSE, draft |-> NoDraft, pendingOrder |-> NotRead, busy |-> FALSE,
   createdCircleId |-> NoCircle, unrecorded |-> NoCircle]

-----------------------------------------------------------------------------
(* Views of a draft: its places in payout order.  The public one names      *)
(* nobody; NotTaken is a member_ref the page does not know.                 *)

ViewOf(order, status, circle, ref, d) ==
  [status |-> status, circleId |-> circle,
   slots |-> [i \in Slots |->
     [slotId |-> order[i], accepted |-> member_ref[d][order[i]] # NotTaken,
      memberRef |-> ref[order[i]]]]]

PublicView(d) ==
  ViewOf(slot_order[d], circle_drafts[d].status, circle_drafts[d].circle_id,
         [s \in Slots |-> NotTaken], d)

OrganizerView(d, order, status, circle) ==
  ViewOf(order, status, circle, member_ref[d], d)

orderOf(view) == [i \in Slots |-> view.slots[i].slotId]

mergePrivate_bug_position(fresh, current) ==
  IF current = NoDraft THEN fresh
  ELSE [fresh EXCEPT !.slots = [i \in Slots |->
          [fresh.slots[i] EXCEPT !.memberRef =
             IF fresh.slots[i].memberRef # NotTaken THEN fresh.slots[i].memberRef
             ELSE current.slots[i].memberRef]]]

\* What the fresh view leaves out is carried over, by place.
mergePrivate(fresh, current) ==
  IF current = NoDraft THEN fresh
  ELSE LET held(s) == (CHOOSE x \in Range(current.slots) : x.slotId = s).memberRef
       IN  [fresh EXCEPT !.slots = [i \in Slots |->
              [fresh.slots[i] EXCEPT !.memberRef =
                 IF fresh.slots[i].memberRef # NotTaken THEN fresh.slots[i].memberRef
                 ELSE held(fresh.slots[i].slotId)]]]

moveInOrder(order, from, to) == [order EXCEPT ![from] = order[to], ![to] = order[from]]

-----------------------------------------------------------------------------
(* The screen *)

\* The buttons of the sections the page shows, that may be pressed.  A page with
\* createdCircleId shows only that circle.
ConnectSection == {<<"Connect wallet">>}

DraftSection == {<<"Create invitations">>}

shownOrder == IF page.pendingOrder # NotRead THEN page.pendingOrder ELSE orderOf(page.draft)

\* The row at a position of the shown order: a place that is taken can be moved
\* by one, the invitation to a free one copied or shared.
InviteRow(position) ==
  LET slot == CHOOSE x \in Range(page.draft.slots) : x.slotId = shownOrder[position]
  IN  IF slot.accepted
      THEN {<<"Move", position, to>> : to \in Slots \cap {position - 1, position + 1}}
      ELSE {<<"Copy", slot.slotId>>, <<"Share", slot.slotId>>}

OrderSection ==
  IF page.pendingOrder # NotRead THEN {<<"Save turn order">>, <<"Undo changes">>} ELSE {}

FinishSection == IF page.unrecorded # NoCircle THEN {<<"Finish setting up">>} ELSE {}

StartSection == IF page.draft.status = "ready" THEN {<<"Create circle">>} ELSE {}

\* While a request is under way only copying and sharing remain.
Buttons ==
  LET shown == IF page.createdCircleId # NoCircle THEN {<<"Go to the circle">>}
               ELSE IF ~page.connected THEN ConnectSection
               ELSE IF page.draft = NoDraft THEN DraftSection
               ELSE (UNION {InviteRow(i) : i \in Slots})
                      \cup OrderSection \cup FinishSection \cup StartSection
      alwaysOn == {"Go to the circle", "Copy", "Share"}
  IN  {b \in shown : page.busy => b[1] \in alwaysOn}

Page(fields) == page' = [f \in DOMAIN page |-> IF f \in DOMAIN fields THEN fields[f] ELSE page[f]]

\* The draft is read as the organizer, or cannot be.
onConnect ==
  /\ \/ Exists(Draft) /\ Page([connected |-> TRUE, draft |->
          OrganizerView(Draft, slot_order[Draft], circle_drafts[Draft].status,
                        circle_drafts[Draft].circle_id)])
     \/ Page([connected |-> TRUE])
  /\ UNCHANGED <<vars, poll>>

\* The page is opened again, or left.
Reload ==
  /\ page' = Opened
  /\ poll' = NoDraft
  /\ UNCHANGED <<tables, circles>>
  /\ requests' = [requests EXCEPT ![Organizer] = Idle]

onCreateDraft ==
  /\ \E amount \in Amounts : createDraft(Draft, amount)
  /\ Page([draft |-> OrganizerView(Draft, slot_order[Draft], "draft", NoCircle)])
  /\ UNCHANGED poll

\* Every six seconds, while the draft on the page is not created.
StartPoll ==
  /\ poll = NoDraft
  /\ page.draft # NoDraft /\ page.draft.status # "created"
  /\ poll' = PublicView(Draft)
  /\ UNCHANGED <<vars, page>>

\* Whatever the page has learned since the poll was sent.
EndPoll ==
  /\ poll # NoDraft
  /\ page.draft # NoDraft
  /\ \/ Page([draft |-> mergePrivate(poll, page.draft)])
     \/ UNCHANGED page
  /\ poll' = NoDraft
  /\ UNCHANGED vars

move(from, to) ==
  /\ Page([pendingOrder |-> moveInOrder(shownOrder, from, to)])
  /\ UNCHANGED <<vars, poll>>

discardOrder ==
  /\ Page([pendingOrder |-> NotRead])
  /\ UNCHANGED <<vars, poll>>

saveOrder ==
  /\ BeginOrder(Organizer, Draft, page.pendingOrder)
  /\ Page([busy |-> TRUE])
  /\ UNCHANGED poll

\* The answer shows the saved order; if it is lost, the arrangement stays.
OrderSaved ==
  /\ page.busy
  /\ reorderSlots(Organizer)
  /\ LET updated == OrganizerView(Draft, slot_order'[Draft], circle_drafts[Draft].status,
                                  circle_drafts[Draft].circle_id)
     IN  \/ Page([draft |-> mergePrivate(updated, page.draft), pendingOrder |-> NotRead,
                  busy |-> FALSE])
         \/ Page([busy |-> FALSE])
  /\ UNCHANGED poll

\* Of a full draft, with every member known to the page and no unsaved order.
MayCreate ==
  /\ page.pendingOrder = NotRead
  /\ \A i \in Slots : page.draft.slots[i].memberRef # NotTaken

\* The order and the members the page holds; the terms are those of the draft.
\* The id of the new circle is read back from the receipt, or it is not.
onCreateCircle ==
  /\ MayCreate
  /\ LET payoutOrder == [i \in Slots |-> page.draft.slots[i].memberRef]
         id == Len(circles) + 1
     IN  /\ IsInjective(payoutOrder)
         /\ create_circle(payoutOrder, circle_drafts[Draft].contribution_amount)
         /\ \/ Page([createdCircleId |-> id, unrecorded |-> id, busy |-> TRUE])
            \/ UNCHANGED page
  /\ UNCHANGED poll

\* The same press of the button, with the next signature.
markCreatedRequest ==
  /\ page.busy /\ page.unrecorded # NoCircle
  /\ BeginCreated(Organizer, Draft, page.unrecorded)
  /\ UNCHANGED <<page, poll>>

CreationRecorded ==
  /\ ReportCreated(Organizer)
  /\ LET updated == OrganizerView(Draft, slot_order[Draft], "created", requests[Organizer].circle)
     IN  \/ Page([draft |-> mergePrivate(updated, page.draft), unrecorded |-> NoCircle,
                  busy |-> FALSE])
         \/ Page([busy |-> FALSE])
  /\ UNCHANGED poll

\* A request of the page is refused, or the wallet's owner declines to sign it.
RequestFails ==
  /\ page.busy
  /\ Page([busy |-> FALSE])
  /\ requests' = [requests EXCEPT ![Organizer] = Idle]
  /\ UNCHANGED <<tables, circles, poll>>

\* Copying and sharing an invitation leave the page as it is.
Press(button) ==
  \/ button = <<"Connect wallet">> /\ onConnect
  \/ button = <<"Create invitations">> /\ onCreateDraft
  \/ button[1] = "Move" /\ move(button[2], button[3])
  \/ button = <<"Undo changes">> /\ discardOrder
  \/ button = <<"Save turn order">> /\ saveOrder
  \/ button = <<"Create circle">> /\ onCreateCircle

\* onFinishSetup, which asks the service to find the circle, is offered while
\* unrecorded is set on a page that shows the draft.  No page is both: the step
\* that sets unrecorded sets createdCircleId as well, and a reload forgets both.

-----------------------------------------------------------------------------
(* The members, and the specification *)

Members_accept ==
  /\ \E h \in Handlers \ {Organizer} :
       \/ \E s \in Slots, m \in Members : BeginAccept(h, Draft, s, m)
       \/ acceptInvite(h)
       \/ EndWithoutEffect(h)
  /\ UNCHANGED <<page, poll>>

OrgInit == Init /\ page = Opened /\ poll = NoDraft

OrgNext ==
  \/ \E button \in Buttons : Press(button)
  \/ Reload
  \/ StartPoll
  \/ EndPoll
  \/ OrderSaved
  \/ markCreatedRequest
  \/ ReadPlaces(Organizer) /\ UNCHANGED <<page, poll>>
  \/ CreationRecorded
  \/ RequestFails
  \/ Members_accept

OrgSpec == OrgInit /\ [][OrgNext]_orgvars

-----------------------------------------------------------------------------
(* Properties *)

\* draftOrder.ts:6, "A PLACE IS NOT A POSITION": through polls answered before
\* and after reorderings, acceptances and reports, the page never shows a place
\* as somebody else's, so no invite link goes to the wrong person; and a circle
\* it creates is of exactly the people who hold the places of the draft.
PlacesStayTheirs ==
  /\ page.draft # NoDraft => \A i \in Slots :
       LET s == page.draft.slots[i]
       IN  s.memberRef # NotTaken => s.memberRef = member_ref[Draft][s.slotId]
  /\ \A c \in DOMAIN circles : Range(circles[c].payout_order) = Range(member_ref[Draft])

\* "starting the circle again is neither needed nor possible"
\* (OrganizerCircleView.tsx:563).
NoSecondCircle == Len(circles) <= 1

\* "above the order people collect the pot": the order the organizer saved is
\* the order of the circle.
SavedOrderIsCreated ==
  [][circles' # circles =>
       circles'[Len(circles')].payout_order = expectedPayoutOrder(Draft)]_orgvars

\* "leave them unable to create the circle they just filled" (draftOrder.ts:33).
FilledCanBeCreated == page.draft # NoDraft /\ StartSection # {} /\ page.pendingOrder = NotRead => MayCreate
=============================================================================
