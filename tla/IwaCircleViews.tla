---------------------------- MODULE IwaCircleViews ----------------------------
(***************************************************************************)
(* What the web client tells people about a circle, as functions of what   *)
(* it reads from the contract: iwa-web/src/lib/iwaStarknet.ts (the reads), *)
(* roundState.ts, lifecycle.ts, standing.ts, organizerView.ts,             *)
(* actionCenter.ts and chains/strk20/circleState.ts (what is made of       *)
(* them).  Nothing here is stored; the properties say that what is offered *)
(* is what the entry points of module IwaCircle accept.                    *)
(*                                                                         *)
(* A read that fails is left out, as is the wording: an answer is named by *)
(* the identifier the source gives it.  Time is the block timestamp; the   *)
(* client compares with its own clock.                                     *)
(***************************************************************************)
EXTENDS IwaCirclePots

-----------------------------------------------------------------------------
(* Reads *)

\* "complete" is every status after Active, whatever is still unpaid.
mapStatus(rec) ==
  CASE rec.status = "Active" -> "active"
    [] rec.status = "SettlementPending" -> "complete"
    [] OTHER -> IF rec.joined_count >= rec.member_limit THEN "active" ELSE "forming"

\* The circle as a wallet with commitment m sees it.
get_circle(c, m) ==
  LET rec == circles[c]
  IN  [size |-> rec.member_limit, current_round |-> rec.current_round,
       status |-> mapStatus(rec), joinedCount |-> rec.joined_count,
       reserved |-> m \in Participants(c), youJoined |-> m \in joined[c],
       yourSlot |-> {s \in DOMAIN rec.payout_order : rec.payout_order[s] = m}]

\* NoObligation stands for null: the round has not begun.
get_round_obligation(c, r, m) == obligations[<<c, r, m>>]

has_contributed(c, r, m) ==
  get_round_obligation(c, r, m).status \in {"OnTime", "LateWithinGrace"}

\* "Absent" is a round whose accounting is not prepared.
readPayoutAccounting(c, r) == payout_states[<<c, r>>].status

\* Places are positions: the organizer sees no member.
get_organizer_facts(c) ==
  LET rec   == circles[c]
      round == rec.current_round
      place(m) == [joined |-> m \in joined[c], obligation |-> obligations[<<c, round, m>>]]
  IN  [memberLimit |-> rec.member_limit, joinedCount |-> rec.joined_count, round |-> round,
       circleStatus |-> mapStatus(rec),
       places |-> [s \in 1..rec.member_limit |-> place(rec.payout_order[s])],
       payout |-> readPayoutAccounting(c, round),
       priorPayout |-> IF round > 1 THEN readPayoutAccounting(c, round - 1) ELSE "Absent"]

-----------------------------------------------------------------------------
(* A member's view *)

canJoin(v) ==
  v.reserved /\ ~v.youJoined /\ v.status = "forming" /\ v.joinedCount < v.size

\* Where a created circle has got to, in the list of circles.
lifecycleOf(v) ==
  CASE v.youJoined -> IF v.status = "complete" THEN "complete" ELSE "joined"
    [] ~v.youJoined /\ canJoin(v) -> "readyToJoin"
    [] OTHER -> IF v.status = "complete" THEN "complete" ELSE "running"

obligationState_bug_open(o, t) ==
  CASE o.status = "Absent" -> "none"
    [] o.status \in {"OnTime", "LateWithinGrace"} -> "paid"
    [] o.status = "MissedDefault" -> "missed"
    [] OTHER -> IF t < o.due_at THEN "due" ELSE "grace"

\* Which of the three windows a pending obligation is in.
obligationState(o, t) ==
  CASE o.status = "Absent" -> "none"
    [] o.status \in {"OnTime", "LateWithinGrace"} -> "paid"
    [] o.status = "MissedDefault" -> "missed"
    [] OTHER -> IF t < o.due_at THEN "due" ELSE IF t < o.grace_ends_at THEN "grace" ELSE "overdue"

paymentOf(v, o, t) == IF v.youJoined THEN obligationState(o, t) ELSE "notJoined"

nextActionFor(payment, v) ==
  CASE payment = "notJoined" -> IF v.reserved THEN "takeYourPlace" ELSE "nothing"
    [] payment \in {"due", "grace", "overdue"} -> "contribute"
    [] payment = "missed" -> "payShortfall"
    [] OTHER -> "nothing"

\* The slot a round pays is the round itself, slots counted from 1.
roundSummary(v, o, t) ==
  LET payment == paymentOf(v, o, t)
  IN  [payment |-> payment, paidLate |-> o.status = "LateWithinGrace",
       yourTurn |-> v.current_round \in v.yourSlot, nextAction |-> nextActionFor(payment, v)]

\* The tone of each round; the last entry, "Everyone has collected", is done
\* when the circle is complete.
circleTimeline(v) ==
  [r \in 1..(v.size + 1) |->
     CASE v.status = "complete" -> "done"
       [] v.status # "complete" /\ r <= v.size /\ r < v.current_round -> "done"
       [] v.status # "complete" /\ r <= v.size /\ r = v.current_round -> "current"
       [] OTHER -> "upcoming"]

\* What the front page asks of a member.
contributorTask(v, o, t) ==
  LET summary == roundSummary(v, o, t)
  IN  CASE lifecycleOf(v) = "readyToJoin" -> "join"
        [] ~v.youJoined /\ lifecycleOf(v) # "readyToJoin" -> "none"
        [] OTHER -> IF summary.payment = "paid"
                    THEN IF summary.yourTurn THEN "turn" ELSE "none"
                    ELSE summary.payment

\* A member's record, counted over the rounds begun so far.
standingFrom(outcomes) ==
  LET count(o) == Cardinality({r \in DOMAIN outcomes : outcomes[r] = o})
  IN  [onTimeCount |-> count("OnTime"), lateCount |-> count("LateWithinGrace"),
       defaultCount |-> count("MissedDefault")]

get_reputation_bug_round(c, m) ==
  standingFrom([r \in {circles[c].current_round} |-> obligations[<<c, r, m>>].status])

get_reputation(c, m) ==
  standingFrom([r \in 1..circles[c].current_round |-> obligations[<<c, r, m>>].status])

-----------------------------------------------------------------------------
(* The organizer's view *)

\* Places by the state of their obligation of the round.
countsOf(f, t) ==
  [s \in {"paid", "due", "grace", "overdue", "missed"} |->
     Cardinality({p \in DOMAIN f.places :
       f.places[p].joined /\ obligationState(f.places[p].obligation, t) = s})]

stateForPayout(status) ==
  CASE status = "Scheduled" -> "waitingForRecipient"
    [] status = "DeferredLocked" -> "payoutHeld"
    [] status = "SettlementAuthorized" -> "settling"
    [] status = "Paid" -> "roundPaid"
    [] OTHER -> "finalSettlement"

stateOf_bug_paid(f, t) ==
  LET n == countsOf(f, t)
  IN  CASE f.circleStatus = "complete" -> "complete"
        [] f.circleStatus # "complete" /\ f.joinedCount < f.memberLimit -> "waitingToJoin"
        [] OTHER -> IF n["overdue"] > 0 THEN "pastGrace"
                    ELSE IF n["grace"] > 0 THEN "gracePeriod"
                    ELSE IF n["due"] > 0 THEN "waitingForContributions"
                    ELSE IF n["paid"] < f.memberLimit THEN "unavailable"
                    ELSE IF f.payout = "Absent" THEN "accountingReady"
                    ELSE stateForPayout(f.payout)

\* The one thing the circle is waiting on, what blocks most first.
stateOf(f, t) ==
  LET n == countsOf(f, t)
  IN  CASE f.circleStatus = "complete" -> "complete"
        [] f.circleStatus # "complete" /\ f.joinedCount < f.memberLimit -> "waitingToJoin"
        [] OTHER -> IF n["overdue"] > 0 THEN "pastGrace"
                    ELSE IF n["grace"] > 0 THEN "gracePeriod"
                    ELSE IF n["due"] > 0 THEN "waitingForContributions"
                    ELSE IF n["paid"] + n["missed"] < f.memberLimit THEN "unavailable"
                    ELSE IF f.payout = "Absent" THEN "accountingReady"
                    ELSE stateForPayout(f.payout)

\* The lines under it.
attentionOf(f, t) ==
  LET n == countsOf(f, t)
  IN  {s \in {"due", "grace", "overdue", "missed"} : n[s] > 0}
      \cup (IF f.joinedCount < f.memberLimit THEN {"notJoined"} ELSE {})
      \cup ({stateOf(f, t)} \cap {"accountingReady", "waitingForRecipient"})
      \cup (IF f.priorPayout \in {"Scheduled", "DeferredLocked"} THEN {f.priorPayout} ELSE {})

\* The place that collects, and the places that need a nudge.
placeRows(f, t) ==
  [p \in DOMAIN f.places |->
     [payoutTurn |-> p = f.round,
      needsAttention |-> \/ ~f.places[p].joined
                         \/ obligationState(f.places[p].obligation, t)
                              \in {"due", "grace", "overdue", "missed"}]]

-----------------------------------------------------------------------------
(* Properties *)

Existing == {c \in CircleIds : circles[c].status # "Absent"}

\* The entry points' own conditions, for a rightful caller.
JoinAccepted(c, m) ==
  circles[c].status = "OpenForMembers" /\ m \in Participants(c) /\ m \notin joined[c]

ContributionAccepted(c, m) ==
  LET o == obligations[<<c, circles[c].current_round, m>>]
  IN  circles[c].status = "Active" /\ m \in joined[c] /\ o.status = "Pending" /\ now <= o.grace_ends_at

\* circleState.ts:62, "Offering the action to anyone else would only produce a
\* reverted transaction", and roundState.ts on the windows: a person is asked
\* to join exactly when join_circle accepts them, and told their contribution
\* is due or in its grace period only while the contract takes it; it is
\* refused to nobody who was not told so, but for the last second of the grace
\* period, and "due" always means it will count as on time.
OfferedIsAccepted ==
  \A c \in Existing, m \in MemberRefs :
    LET v    == get_circle(c, m)
        o    == get_round_obligation(c, v.current_round, m)
        task == contributorTask(v, o, now)
    IN  /\ task = "join" <=> JoinAccepted(c, m)
        /\ task \in {"due", "grace"} => ContributionAccepted(c, m)
        /\ ContributionAccepted(c, m) =>
             \/ task \in {"due", "grace"}
             \/ task = "overdue" /\ now = o.grace_ends_at
        /\ task = "due" => now <= o.due_at
        /\ task = "grace" => now >= o.due_at
        /\ task = "turn" =>
             /\ has_contributed(c, v.current_round, m)
             /\ ScheduledMember(c, v.current_round) = m

\* organizerView.ts:311, "The one thing this circle is waiting on": every
\* existing circle is described, what it waits for is what the contract would
\* do next, and the rounds its timeline shows as done have their claim, on
\* final contributions.
OrganizerTold ==
  \A c \in Existing :
    LET f     == get_organizer_facts(c)
        state == stateOf(f, now)
        tones == circleTimeline(get_circle(c, NoMember))
        last  == circles[c].current_round
        claim == payout_states[<<c, last>>].status
    IN  /\ state # "unavailable"
        /\ state = "waitingToJoin" <=> circles[c].status = "OpenForMembers"
        /\ state = "accountingReady" <=> ReadyToFinalize(c)
        /\ state = "pastGrace" => \E m \in Participants(c) :
             LET o == obligations[<<c, last, m>>]
             IN  o.status = "Pending" /\ now >= o.grace_ends_at
        /\ state = "waitingForRecipient" => Authorizable(c, last) /\ last = circles[c].member_limit
        /\ state = "settling" => ledger[<<c, last>>].outstanding = payout_states[<<c, last>>].amount
        /\ state = "roundPaid" => ledger[<<c, last>>].outstanding = 0
        /\ attentionOf(f, now) = {} =>
             circles[c].status = "SettlementPending" \/ claim \in {"SettlementAuthorized", "Paid"}
        /\ (\E p \in DOMAIN f.places : placeRows(f, now)[p].needsAttention)
             <=> attentionOf(f, now) \cap {"notJoined", "due", "grace", "overdue", "missed"} # {}
        /\ \A r \in 1..circles[c].member_limit :
             /\ tones[r] = "done" =>
                  payout_states[<<c, r>>].status # "Absent" /\ AllDecided(c, r)
             /\ tones[r] = "upcoming" => payout_states[<<c, r>>].status = "Absent"

\* What the client tells the members and the organizer of a circle holds of
\* the contract, at every moment of the circle's life.
ClientTold == OfferedIsAccepted /\ OrganizerTold

\* standing.ts:1, "counted from what the contract holds": whatever happens in
\* the circle, no outcome a member was shown disappears or turns into another,
\* a cure does not erase a default, and a step adds at most one outcome.
StandingGrows ==
  \A c \in Existing, m \in MemberRefs :
    LET s == get_reputation(c, m)
        n == get_reputation(c, m)'
        Total(x) == x.onTimeCount + x.lateCount + x.defaultCount
    IN  /\ n.onTimeCount >= s.onTimeCount
        /\ n.lateCount >= s.lateCount
        /\ n.defaultCount >= s.defaultCount
        /\ Total(n) <= Total(s) + 1

StandingOnlyGrows == [][StandingGrows]_vars

=============================================================================
