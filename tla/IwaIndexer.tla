----------------------------- MODULE IwaIndexer -----------------------------
(***************************************************************************)
(* The public event indexer of the service: indexer/events.ts, driven by   *)
(* the timer of index.ts, writing through the store.                       *)
(*                                                                         *)
(* A pass (runOnce) first copies the view of every circle it can count up  *)
(* to, then reads the events of the blocks after its cursor and records    *)
(* them.  It awaits the node and the database between any two steps, and   *)
(* the timer starts a pass whether or not the last one has ended, so       *)
(* several passes may be under way: Passes names those that may.           *)
(*                                                                         *)
(* The chain is external.  A block holds at most one transaction, a        *)
(* circle's view is the number of times it changed, and every event is     *)
(* one entry of chain_log, which only grows.                               *)
(***************************************************************************)
EXTENDS Naturals, Sequences, FiniteSets

CONSTANTS
  Passes,         \* the executions of runOnce that may overlap
  batchSize,      \* blocks a pass reads at most
  chunk_size,     \* events the node returns on a page, 100 in the code
  maxCircleScan,  \* how far the sweep over circles counts
  startBlock,     \* where a service without a cursor starts
  NoCursor,       \* getCursor's null
  MaxHead,        \* bound: blocks of the chain
  MaxCircles,     \* bound: circles on the chain
  MaxFaults       \* bound: failed calls and restarts

ASSUME IndexerAssumption ==
  /\ {batchSize, maxCircleScan} \subseteq Nat \ {0}
  /\ chunk_size \in Nat /\ chunk_size > 1
  /\ {startBlock, MaxHead, MaxCircles, MaxFaults} \subseteq Nat
  /\ NoCursor \notin Nat

VARIABLES
  head,             \* the number of the latest block
  chain_log,        \* every event the circle contract emitted, in order
  get_circle,       \* the view of each circle, counted by its changes
  indexed_circles,  \* table: the cached view of each circle, 0 for none
  circle_events,    \* table: one row for each event recorded
  last_block,       \* table sync_cursor: the block the cursor is at
  pass,             \* what each running pass holds between two awaits
  faults,           \* failed calls and restarts so far
  overlapped        \* history: two passes have run at the same time

chain == <<head, chain_log, get_circle>>
database == <<indexed_circles, circle_events, last_block>>
vars == <<chain, database, pass, faults, overlapped>>

\* The events worth a row; the contract emits others, which share the pages.
INDEXED_EVENTS == {"CircleCreated", "MemberJoined", "CircleActivated"}
EventNames == INDEXED_EVENTS \cup {"SettlementHelperInitialized"}

Stopped == [at |-> "stopped", id |-> 0, view |-> 0, from |-> 0, to |-> 0, events |-> {}]

Running(p) == pass[p].at # "stopped"

-----------------------------------------------------------------------------
(* What one pass computes from a reply of the node.                        *)

\* The events of the blocks before a block.
Before(from) == Cardinality({i \in DOMAIN chain_log : chain_log[i].block < from})

\* decodeEvent: the row of an event in a reply that starts at block from.  It is
\* numbered by its place on its page.
decodeEvent(e, from) ==
  [tx |-> e.block, event_index |-> (e.place - 1 - Before(from)) % chunk_size,
   place |-> e.place]

\* getEvents read page after page: the rows of the blocks from..to.  An event of
\* another name gives no row.
EventsOf(from, to) ==
  {decodeEvent(chain_log[i], from) : i \in
     {j \in DOMAIN chain_log : /\ from <= chain_log[j].block /\ chain_log[j].block <= to
                               /\ chain_log[j].name \in INDEXED_EVENTS}}

\* Bug: the block the cursor is at is read again.
FirstBlock_bug_again == IF last_block = NoCursor THEN startBlock ELSE last_block

\* The first block of a pass, from the cursor it read.
FirstBlock == IF last_block = NoCursor THEN startBlock ELSE last_block + 1

-----------------------------------------------------------------------------
Init ==
  /\ head = 0 /\ chain_log = <<>> /\ get_circle = <<>>
  /\ indexed_circles = [c \in 1..maxCircleScan |-> 0]
  /\ circle_events = {}
  /\ last_block = NoCursor
  /\ pass = [p \in Passes |-> Stopped]
  /\ faults = 0
  /\ overlapped = FALSE

\* The chain grows by a block whose transaction emits the events of names.
Mined(names) ==
  /\ head < MaxHead
  /\ head' = head + 1
  /\ chain_log' = chain_log \o
       [i \in DOMAIN names |->
          [block |-> head + 1, name |-> names[i], place |-> Len(chain_log) + i]]
  /\ UNCHANGED <<database, pass, faults, overlapped>>

create_circle ==
  /\ Len(get_circle) < MaxCircles
  /\ get_circle' = Append(get_circle, 1)
  /\ Mined(<<"CircleCreated">>)

\* A member joins; the last one to join activates the circle as well.
join_circle(c) ==
  /\ get_circle' = [get_circle EXCEPT ![c] = @ + 1]
  /\ \/ Mined(<<"MemberJoined">>)
     \/ Mined(<<"MemberJoined", "CircleActivated">>)

\* A transaction with an event the indexer does not keep.
other_transaction ==
  /\ Mined(<<"SettlementHelperInitialized">>)
  /\ UNCHANGED get_circle

empty_block == Mined(<<>>) /\ UNCHANGED get_circle

Chain ==
  \/ create_circle
  \/ \E c \in DOMAIN get_circle : join_circle(c)
  \/ other_transaction
  \/ empty_block

-----------------------------------------------------------------------------
(* One pass.  Each action ends at the next await.                          *)

Goto(p, step) == pass' = [pass EXCEPT ![p] = step]

\* The timer starts a pass; nothing looks whether another one still runs.
tick(p) ==
  /\ ~Running(p)
  /\ Goto(p, [Stopped EXCEPT !.at = "sweep", !.id = 1])
  /\ overlapped' = (overlapped \/ \E q \in Passes \ {p} : Running(q))
  /\ UNCHANGED <<chain, database, faults>>

\* syncCircles, the read: the sweep ends at its cap or at a circle that does
\* not answer, and goes on to the events.
ReadCircle(p) ==
  /\ pass[p].at = "sweep"
  /\ LET id == pass[p].id IN
       IF id <= maxCircleScan /\ id <= Len(get_circle)
       THEN Goto(p, [pass[p] EXCEPT !.at = "upsert", !.view = get_circle[id]])
       ELSE Goto(p, [pass[p] EXCEPT !.at = "cursor"])
  /\ UNCHANGED <<chain, database, faults, overlapped>>

\* Bug: ON CONFLICT DO NOTHING.
upsertIndexedCircle_bug_insert(p) ==
  /\ pass[p].at = "upsert"
  /\ indexed_circles' = [indexed_circles EXCEPT ![pass[p].id] =
                           IF @ = 0 THEN pass[p].view ELSE @]
  /\ Goto(p, [pass[p] EXCEPT !.at = "sweep", !.id = @ + 1])
  /\ UNCHANGED <<chain, circle_events, last_block, faults, overlapped>>

\* syncCircles, the write: the row takes the figures that were read.
upsertIndexedCircle(p) ==
  /\ pass[p].at = "upsert"
  /\ indexed_circles' = [indexed_circles EXCEPT ![pass[p].id] = pass[p].view]
  /\ Goto(p, [pass[p] EXCEPT !.at = "sweep", !.id = @ + 1])
  /\ UNCHANGED <<chain, circle_events, last_block, faults, overlapped>>

getCursor(p) ==
  /\ pass[p].at = "cursor"
  /\ Goto(p, [pass[p] EXCEPT !.at = "events", !.from = FirstBlock])
  /\ UNCHANGED <<chain, database, faults, overlapped>>

\* The range a pass that starts at block from ends with.
LastBlock(from) ==
  IF head < from + batchSize - 1 THEN head ELSE from + batchSize - 1

\* getBlockNumber, where a pass past the head ends, and getEvents page by page:
\* the blocks up to the head are final, so the reads may as well be one step.
ReadEvents(p) ==
  /\ pass[p].at = "events"
  /\ LET from == pass[p].from
         to == LastBlock(from)
     IN IF from > head
        THEN Goto(p, Stopped)
        ELSE Goto(p, [pass[p] EXCEPT !.at = "record", !.to = to,
                                     !.events = EventsOf(from, to)])
  /\ UNCHANGED <<chain, database, faults, overlapped>>

\* The reply is recorded in its order.
FirstEvents(p) == {e \in pass[p].events : \A f \in pass[p].events : e.place <= f.place}

\* Bug: ON CONFLICT (tx_hash).
InsertEvent_bug_key(p) ==
  /\ pass[p].at = "record"
  /\ \E e \in FirstEvents(p) :
       /\ circle_events' = IF \E row \in circle_events : row.tx = e.tx
                           THEN circle_events ELSE circle_events \cup {e}
       /\ Goto(p, [pass[p] EXCEPT !.events = @ \ {e}])
  /\ UNCHANGED <<chain, indexed_circles, last_block, faults, overlapped>>

\* recordEvents, one statement: a row whose (tx_hash, event_index) is in the
\* table already is not inserted.
InsertEvent(p) ==
  /\ pass[p].at = "record"
  /\ \E e \in FirstEvents(p) :
       /\ circle_events' =
            IF \E row \in circle_events : row.tx = e.tx /\ row.event_index = e.event_index
            THEN circle_events ELSE circle_events \cup {e}
       /\ Goto(p, [pass[p] EXCEPT !.events = @ \ {e}])
  /\ UNCHANGED <<chain, indexed_circles, last_block, faults, overlapped>>

\* setCursor, after the last row: whatever the cursor is by now, it is set.
setCursor(p) ==
  /\ pass[p].at = "record" /\ pass[p].events = {}
  /\ last_block' = pass[p].to
  /\ Goto(p, Stopped)
  /\ UNCHANGED <<chain, indexed_circles, circle_events, faults, overlapped>>

Pass(p) ==
  \/ ReadCircle(p) \/ upsertIndexedCircle(p)
  \/ getCursor(p) \/ ReadEvents(p)
  \/ InsertEvent(p) \/ setCursor(p)

\* A call that rejects: a failed get_circle ends the sweep, any other ends the
\* pass with what it has written so far.
CallFails(p) ==
  /\ faults < MaxFaults /\ Running(p)
  /\ faults' = faults + 1
  /\ Goto(p, IF pass[p].at = "sweep" THEN [pass[p] EXCEPT !.at = "cursor"] ELSE Stopped)
  /\ UNCHANGED <<chain, database, overlapped>>

\* The process stops and starts again: the passes under way are gone.
Restart ==
  /\ faults < MaxFaults
  /\ faults' = faults + 1
  /\ pass' = [p \in Passes |-> Stopped]
  /\ UNCHANGED <<chain, database, overlapped>>

Next ==
  \/ Chain
  \/ \E p \in Passes : tick(p) \/ Pass(p) \/ CallFails(p)
  \/ Restart

Spec == Init /\ [][Next]_vars

\* The timer goes on and every call is answered or fails.
LiveSpec == Spec /\ \A p \in Passes : WF_vars(tick(p)) /\ WF_vars(Pass(p))

-----------------------------------------------------------------------------
TypeOK ==
  /\ head \in 0..MaxHead
  /\ \A i \in DOMAIN chain_log : chain_log[i] \in
       [block : 1..head, name : EventNames, place : {i}]
  /\ get_circle \in Seq(Nat \ {0})
  /\ indexed_circles \in [1..maxCircleScan -> Nat]
  /\ circle_events \subseteq [tx : 1..head, event_index : 0..chunk_size - 1,
                              place : DOMAIN chain_log]
  /\ last_block \in Nat \cup {NoCursor}
  /\ faults \in 0..MaxFaults
  /\ overlapped \in BOOLEAN
  /\ \A p \in Passes :
       /\ pass[p].at \in {"stopped", "sweep", "upsert", "cursor", "events", "record"}
       /\ pass[p].id \in 0..maxCircleScan + 1

Rows(e) == {row \in circle_events : row.place = e.place}

\* "The cursor advances only after a range is persisted, so a crash re-reads a
\* range rather than skipping it" (events.ts:7): every indexed event of a block
\* the cursor has passed has its row.
NothingSkipped ==
  last_block # NoCursor =>
    \A i \in DOMAIN chain_log :
      LET e == chain_log[i] IN
        /\ e.name \in INDEXED_EVENTS
        /\ startBlock <= e.block /\ e.block <= last_block
        => Rows(e) # {}

\* "A failed pass must not kill the service; the cursor did not advance, so the
\* same range is retried next tick" (index.ts:84): between two passes, no event
\* is behind the cursor without its row.
NothingLost == (\A p \in Passes : ~Running(p)) => NothingSkipped

\* An event never has two rows: the index a row is keyed by is the event's place
\* in the reply, and a range that is read again is read from the same block.
OneRowEach ==
  \A i \in DOMAIN chain_log : Cardinality(Rows(chain_log[i])) <= 1

\* As long as no two passes have overlapped, every failed call, restart and
\* repeated range leaves each event the cursor has passed with exactly one row.
ExactlyOnceAlone == ~overlapped => NothingSkipped /\ OneRowEach

\* Every indexed event reaches the table in the end, across failed calls and
\* restarts, unless two passes overlap.
EveryEventIndexed ==
  \A n \in 1..2 * MaxHead :
    (/\ n \in DOMAIN chain_log
     /\ chain_log[n].name \in INDEXED_EVENTS /\ chain_log[n].block >= startBlock)
      ~> (overlapped \/ (n \in DOMAIN chain_log /\ Rows(chain_log[n]) # {}))

\* The cache heals itself (events.ts:194): once the chain is quiet, the row of
\* every circle within the scan comes to hold the circle's latest view, also
\* after a slow pass wrote an older view over a newer one.
CacheHeals ==
  <>[](\A c \in DOMAIN get_circle :
         c <= maxCircleScan => indexed_circles[c] = get_circle[c])

\* The table and the cache both catch up with the chain.
IndexerCatchesUp == EveryEventIndexed /\ CacheHeals

=============================================================================
