--------------------------- MODULE IwaRecordsProofs ---------------------------
(***************************************************************************)
(* What is recorded of the chain outside it.                               *)
(*                                                                         *)
(* The event indexer, for any chain, any batch and page of more than one   *)
(* event, and any failures: as long as no two passes overlap, every event  *)
(* the cursor has passed has exactly one row (ExactlyOnceAlone).           *)
(*                                                                         *)
(* The STRK20 console, for any members and any number of transactions: one *)
(* it shows as a confirmed contribution is the one that settled its member *)
(* (ConfirmedIsSettled), and nothing is sent for a contribution that had   *)
(* settled when its button was pressed (NothingSentAgain).                 *)
(***************************************************************************)
EXTENDS IwaIndexer, IwaConsole, FiniteSetTheorems, SequenceTheorems, TLAPS

-----------------------------------------------------------------------------
(* The numbers of a page *)

LEMMA Division ==
  ASSUME NEW n \in Int, NEW c \in Nat, c > 1
  PROVE  /\ (n \div c) \in Int
         /\ (n % c) \in 0..c - 1
         /\ n = (c * (n \div c)) + (n % c)
  BY SMTT(30)

LEMMA NoUnitMultiple ==
  ASSUME NEW q \in Int, NEW r \in Int, NEW c \in Nat, c > 1
  PROVE  c * r # (c * q) + 1
<1> SUFFICES ASSUME c * r = (c * q) + 1 PROVE FALSE  OBVIOUS
<1>1. c * (r - q) = 1  BY SMTT(30)
<1>2. CASE r - q <= 0  BY <1>1, <1>2, SMTT(30)
<1>3. CASE r - q >= 1  BY <1>1, <1>3, SMTT(30)
<1> QED BY <1>2, <1>3

\* Two consecutive events have different places on a page.
LEMMA NextPlaceDiffers ==
  ASSUME NEW n \in Int, NEW c \in Nat, c > 1
  PROVE  (n % c) # ((n + 1) % c)
<1> SUFFICES ASSUME (n % c) = ((n + 1) % c) PROVE FALSE  OBVIOUS
<1>0. n + 1 \in Int  OBVIOUS
<1>1. PICK q \in Int : n = (c * q) + (n % c)  BY Division
<1>2. PICK r \in Int : n + 1 = (c * r) + ((n + 1) % c)  BY <1>0, Division
<1>3. PICK m \in Int : m = n % c  BY Division
<1>4. c * r = (c * q) + 1  BY <1>1, <1>2, <1>3, SMTT(30)
<1> QED BY <1>4, NoUnitMultiple

-----------------------------------------------------------------------------
(* The invariant *)

Block(i) == chain_log[i].block

RowType == [tx : Nat, event_index : Nat, place : Nat]
PassType ==
  [at : {"stopped", "sweep", "upsert", "cursor", "events", "record"}, id : Nat, view : Nat,
   from : Nat, to : Nat, events : SUBSET RowType]

LogEntry == [block : Nat, name : EventNames, place : Nat]

Types ==
  /\ head \in Nat
  /\ chain_log \in Seq(LogEntry)
  /\ get_circle \in Seq(Nat)
  /\ circle_events \subseteq RowType
  /\ last_block \in Nat \cup {NoCursor}
  /\ pass \in [Passes -> PassType]
  /\ \A p \in Passes : pass[p].at \in {"sweep", "upsert"} => pass[p].id > 0
  /\ overlapped \in BOOLEAN

\* The chain: its events are counted, a block comes after those before it, and
\* its one transaction emitted at most two events.
LogOK ==
  /\ \A i \in DOMAIN chain_log : Block(i) \in 1..head /\ chain_log[i].place = i
  /\ \A i, j \in DOMAIN chain_log : i <= j => Block(i) <= Block(j)
  /\ \A i, j \in DOMAIN chain_log : i < j /\ Block(i) = Block(j) => j = i + 1

CursorOK == last_block # NoCursor => startBlock <= last_block /\ last_block <= head

\* An event the indexer keeps, of a block from from to to.
Due(i, from, to) ==
  /\ i \in DOMAIN chain_log
  /\ chain_log[i].name \in INDEXED_EVENTS
  /\ from <= Block(i) /\ Block(i) <= to

Recorded(i) == \E row \in circle_events : row.place = i

\* A row is of one event.  Those past the cursor were left by a pass that
\* started where the next one will, so they are numbered as it numbers them.
RowOK(row) ==
  /\ Due(row.place, startBlock, head)
  /\ row.tx = Block(row.place)
  /\ row.tx <= LastBlock(FirstBlock)
  /\ row.tx >= FirstBlock => row = decodeEvent(chain_log[row.place], FirstBlock)

RowsOK ==
  /\ \A row \in circle_events : RowOK(row)
  /\ \A row, other \in circle_events : row.place = other.place => row = other
  /\ \A i : Due(i, startBlock, FirstBlock - 1) => Recorded(i)

\* What a pass holds: where it started is where a pass would start now, and an
\* event of its range is still to be recorded or has its row.
StepOK(step) ==
  /\ step.at = "events" => step.from = FirstBlock
  /\ step.at = "record" =>
       /\ step.from = FirstBlock
       /\ step.from <= step.to /\ step.to <= LastBlock(step.from)
       /\ step.events \subseteq EventsOf(step.from, step.to)
       /\ \A row \in circle_events : row.tx <= step.to
       /\ \A i : Due(i, step.from, step.to) =>
            Recorded(i) \/ decodeEvent(chain_log[i], step.from) \in step.events

PassOK(p) == StepOK(pass[p])

Alone == \A p, q \in Passes : Running(p) /\ Running(q) => p = q

IndexerInv ==
  /\ Types
  /\ LogOK
  /\ ~overlapped => CursorOK /\ RowsOK /\ Alone /\ \A p \in Passes : PassOK(p)

-----------------------------------------------------------------------------
(* The operators *)

LEMMA Places ==
  ASSUME Types
  PROVE  /\ DOMAIN chain_log = 1..Len(chain_log)
         /\ Len(chain_log) \in Nat
         /\ \A i \in DOMAIN chain_log :
              /\ i \in Nat /\ Block(i) \in Nat
              /\ chain_log[i].name \in EventNames
              /\ chain_log[i].place \in Nat
<1>1. chain_log \in Seq(LogEntry)  BY DEF Types
<1>2. /\ Len(chain_log) \in Nat
      /\ chain_log \in [1..Len(chain_log) -> LogEntry]
  BY <1>1, LenProperties, Zenon
<1>3. \A i \in 1..Len(chain_log) : chain_log[i] \in LogEntry  BY <1>2
<1> QED BY <1>2, <1>3 DEF LogEntry, Block

LEMMA BeforeType ==
  ASSUME Types, NEW b
  PROVE  Before(b) \in Nat
<1>1. 1 \in Int /\ Len(chain_log) \in Int  BY Places
<1>2. IsFiniteSet(DOMAIN chain_log)  BY <1>1, Places, FS_Interval
<1>3. {i \in DOMAIN chain_log : chain_log[i].block < b} \in SUBSET DOMAIN chain_log
  OBVIOUS
<1>4. IsFiniteSet({i \in DOMAIN chain_log : chain_log[i].block < b})
  BY <1>2, <1>3, FS_Subset
<1> QED BY <1>4, FS_CardinalityType DEF Before

LEMMA RowOfEvent ==
  ASSUME Types, LogOK, NEW i \in DOMAIN chain_log, NEW b
  PROVE  /\ decodeEvent(chain_log[i], b) \in RowType
         /\ decodeEvent(chain_log[i], b).tx = Block(i)
         /\ decodeEvent(chain_log[i], b).place = i
         /\ decodeEvent(chain_log[i], b).event_index = (i - 1 - Before(b)) % chunk_size
<1>1. PICK n \in Nat : n = Before(b)  BY BeforeType
<1>2. i \in Nat /\ Block(i) \in Nat /\ chain_log[i].place = i  BY Places DEF LogOK
<1>3. i - 1 - n \in Int  BY <1>2
<1>4. ((i - 1 - n) % chunk_size) \in 0..chunk_size - 1
  BY <1>3, Division, IndexerAssumption
<1>5. ((i - 1 - n) % chunk_size) \in Nat  BY <1>4, IndexerAssumption
<1> QED BY <1>1, <1>2, <1>5 DEF decodeEvent, RowType, Block

\* Two events of a block that are numbered from the same one differ in number.
LEMMA KeyOfEvent ==
  ASSUME Types, LogOK, NEW b,
         NEW i \in DOMAIN chain_log, NEW j \in DOMAIN chain_log,
         decodeEvent(chain_log[i], b).tx = decodeEvent(chain_log[j], b).tx,
         decodeEvent(chain_log[i], b).event_index = decodeEvent(chain_log[j], b).event_index
  PROVE  i = j
<1>1. PICK n \in Nat : n = Before(b)  BY BeforeType
<1>2. i \in Nat /\ j \in Nat  BY Places
<1>3. Block(i) = Block(j)  BY RowOfEvent
<1>4. (i - 1 - n) % chunk_size = (j - 1 - n) % chunk_size  BY <1>1, RowOfEvent
<1>5. (i - 1 - n) \in Int /\ (j - 1 - n) \in Int  BY <1>2
<1>6. chunk_size \in Nat /\ chunk_size > 1  BY IndexerAssumption
<1>7. CASE i < j
  <2>1. j = i + 1  BY <1>3, <1>7 DEF LogOK
  <2>2. j - 1 - n = (i - 1 - n) + 1  BY <2>1, <1>2
  <2> QED BY <2>2, <1>4, <1>5, <1>6, NextPlaceDiffers
<1>8. CASE j < i
  <2>1. i = j + 1  BY <1>3, <1>8 DEF LogOK
  <2>2. i - 1 - n = (j - 1 - n) + 1  BY <2>1, <1>2
  <2> QED BY <2>2, <1>4, <1>5, <1>6, NextPlaceDiffers
<1> QED BY <1>2, <1>7, <1>8

LEMMA FirstBlockType ==
  ASSUME Types
  PROVE  /\ FirstBlock \in Nat
         /\ last_block = NoCursor => FirstBlock = startBlock
         /\ last_block # NoCursor => last_block \in Nat /\ FirstBlock = last_block + 1
BY IndexerAssumption DEF Types, FirstBlock

LEMMA LastBlockType ==
  ASSUME Types, NEW b \in Nat
  PROVE  /\ LastBlock(b) \in Int /\ LastBlock(b) <= head
         /\ LastBlock(b) <= b + batchSize - 1
         /\ b <= head => b <= LastBlock(b)
         /\ LastBlock(b) = head \/ LastBlock(b) = b + batchSize - 1
BY IndexerAssumption DEF Types, LastBlock

-----------------------------------------------------------------------------
(* The chain grows *)

\* What Mined leaves: the log goes on, and what it adds is of the new block.
LogGrows ==
  /\ head' = head + 1
  /\ DOMAIN chain_log \subseteq DOMAIN chain_log'
  /\ \A i \in DOMAIN chain_log : chain_log'[i] = chain_log[i]
  /\ \A i \in DOMAIN chain_log' : i \notin DOMAIN chain_log => chain_log'[i].block = head + 1

LEMMA FunctionIsSeq ==
  ASSUME NEW S, NEW n \in Nat, NEW f \in [1..n -> S]
  PROVE  f \in Seq(S) /\ Len(f) = n
<1>1. f \in Seq(S)  BY SMT
<1>2. Len(f) \in Nat /\ DOMAIN f = 1..Len(f)  BY <1>1, LenProperties
<1>3. DOMAIN f = 1..n  OBVIOUS
<1> QED BY <1>1, <1>2, <1>3

LEMMA LongerSeq ==
  ASSUME NEW S, NEW s \in Seq(S), NEW t \in Seq(S)
  PROVE  /\ s \o t \in Seq(S)
         /\ Len(s \o t) = Len(s) + Len(t)
         /\ DOMAIN (s \o t) = 1..(Len(s) + Len(t))
         /\ \A i \in 1..Len(s) : (s \o t)[i] = s[i]
         /\ \A i \in 1..(Len(s) + Len(t)) : i > Len(s) => (s \o t)[i] = t[i - Len(s)]
<1>1. Len(s) \in Nat /\ Len(t) \in Nat  BY LenProperties
<1>2. /\ s \o t \in Seq(S)
      /\ Len(s \o t) = Len(s) + Len(t)
      /\ \A i \in 1..(Len(s) + Len(t)) :
           (s \o t)[i] = IF i <= Len(s) THEN s[i] ELSE t[i - Len(s)]
  BY ConcatProperties, Zenon
<1>3. DOMAIN (s \o t) = 1..Len(s \o t)  BY <1>2, LenProperties
<1> QED BY <1>1, <1>2, <1>3

LEMMA MinedGrows ==
  ASSUME Types, LogOK, NEW names \in Seq(EventNames), Len(names) <= 2, Mined(names),
         get_circle' \in Seq(Nat)
  PROVE  /\ Types' /\ LogOK' /\ LogGrows
         /\ UNCHANGED <<database, pass, overlapped>>
<1> DEFINE len == Len(chain_log)
           add == [i \in DOMAIN names |->
                     [block |-> head + 1, name |-> names[i], place |-> len + i]]
<1>1. len \in Nat /\ DOMAIN chain_log = 1..len  BY Places
<1>2. Len(names) \in Nat /\ DOMAIN names = 1..Len(names)  OBVIOUS
<1>3. head \in Nat  BY DEF Types
<1>4. \A i \in DOMAIN names :
         add[i] \in LogEntry
  BY <1>1, <1>2, <1>3 DEF LogEntry
<1>5. add \in Seq(LogEntry) /\ Len(add) = Len(names)
  <2>1. add \in [1..Len(names) -> LogEntry]
    BY <1>2, <1>4
  <2>2. DOMAIN add = 1..Len(names)  BY <2>1
  <2> HIDE DEF add
  <2> QED BY <2>1, <1>2, FunctionIsSeq
<1>6. \A i \in 1..Len(names) : add[i].block = head + 1 /\ add[i].place = len + i
  BY <1>2
<1>7. chain_log' = chain_log \o add /\ head' = head + 1  BY DEF Mined
<1> HIDE DEF add
<1>8. /\ chain_log' \in Seq(LogEntry)
      /\ Len(chain_log') = len + Len(names)
      /\ DOMAIN chain_log' = 1..(len + Len(names))
      /\ \A i \in 1..len : chain_log'[i] = chain_log[i]
      /\ \A i \in 1..(len + Len(names)) : i > len => chain_log'[i] = add[i - len]
  <2>1. chain_log \in Seq(LogEntry)  BY DEF Types
  <2> QED BY <2>1, <1>5, <1>7, LongerSeq
<1> HIDE DEF len
<1>9. UNCHANGED <<database, pass, overlapped>>  BY DEF Mined
<1>10. Types'
  BY <1>3, <1>7, <1>8, <1>9 DEF Types, database
<1>11. \A i \in 1..(len + Len(names)) : i > len =>
         chain_log'[i].block = head + 1 /\ chain_log'[i].place = i
  <2> TAKE i \in 1..(len + Len(names))
  <2> HAVE i > len
  <2>1. i - len \in 1..Len(names) /\ len + (i - len) = i  BY <1>1, <1>2
  <2> QED BY <2>1, <1>6, <1>8
<1>12. LogGrows
  <2>1. \A i \in 1..(len + Len(names)) : i \notin 1..len => i > len  BY <1>1, <1>2
  <2>2. 1..len \subseteq 1..(len + Len(names))  BY <1>1, <1>2
  <2> QED BY <2>1, <2>2, <1>1, <1>7, <1>8, <1>11 DEF LogGrows
<1>13. \A i \in 1..len : chain_log'[i].block \in 1..head /\ chain_log'[i].place = i
  BY <1>1, <1>8 DEF LogOK, Block
<1>14. \A i \in 1..(len + Len(names)) :
         chain_log'[i].block \in 1..(head + 1) /\ chain_log'[i].place = i
  BY <1>1, <1>2, <1>3, <1>11, <1>13
<1>15. \A i, j \in 1..(len + Len(names)) : i <= j => chain_log'[i].block <= chain_log'[j].block
  <2> TAKE i, j \in 1..(len + Len(names))
  <2> HAVE i <= j
  <2>1. CASE j <= len
    <3>1. i \in 1..len /\ j \in 1..len  BY <2>1, <1>1, <1>2
    <3> QED BY <3>1, <1>1, <1>8 DEF LogOK, Block
  <2>2. CASE j > len
    BY <2>2, <1>3, <1>11, <1>14
  <2> QED BY <2>1, <2>2, <1>1
<1>16. \A i, j \in 1..(len + Len(names)) :
         i < j /\ chain_log'[i].block = chain_log'[j].block => j = i + 1
  <2> TAKE i, j \in 1..(len + Len(names))
  <2> HAVE i < j /\ chain_log'[i].block = chain_log'[j].block
  <2>1. CASE j <= len
    <3>1. i \in 1..len /\ j \in 1..len  BY <2>1, <1>1, <1>2
    <3> QED BY <3>1, <1>1, <1>8 DEF LogOK, Block
  <2>2. CASE j > len
    <3>1. chain_log'[j].block = head + 1  BY <2>2, <1>11
    <3>2. i > len  BY <3>1, <1>1, <1>2, <1>3, <1>13
    <3> QED BY <2>2, <3>2, <1>1, <1>2
  <2> QED BY <2>1, <2>2, <1>1
<1>17. LogOK'  BY <1>7, <1>8, <1>14, <1>15, <1>16 DEF LogOK, Block
<1> QED BY <1>9, <1>10, <1>12, <1>17

\* What was read of blocks up to the head stays as it was read.
LEMMA RowsStay ==
  ASSUME Types, Types', LogOK, LogGrows, NEW b \in Nat, b <= head + 1
  PROVE  /\ Before(b)' = Before(b)
         /\ \A i \in DOMAIN chain_log :
              decodeEvent(chain_log[i], b)' = decodeEvent(chain_log[i], b)
<1>1. {i \in DOMAIN chain_log' : chain_log'[i].block < b} =
        {i \in DOMAIN chain_log : chain_log[i].block < b}
  <2>1. \A i \in DOMAIN chain_log' : i \notin DOMAIN chain_log => ~(chain_log'[i].block < b)
    BY DEF LogGrows, Types
  <2> QED BY <2>1 DEF LogGrows
<1>2. Before(b)' = Before(b)  BY <1>1 DEF Before
<1> QED BY <1>2 DEF decodeEvent, LogGrows
-----------------------------------------------------------------------------
(* Every step keeps the invariant *)

LEMMA InitKeeps == ASSUME Init PROVE IndexerInv
<1>1. Stopped \in PassType /\ Stopped.at = "stopped"  BY DEF Stopped, PassType
<1>2. << >> \in Seq(LogEntry) /\ << >> \in Seq(Nat) /\ DOMAIN << >> = {}
  BY EmptySeq
<1>3. Types  BY <1>1, <1>2, IndexerAssumption DEF Init, Types
<1>4. LogOK  BY <1>2 DEF Init, LogOK
<1>5. CursorOK  BY DEF Init, CursorOK
<1>6. RowsOK  BY <1>2 DEF Init, RowsOK, Due
<1>7. Alone  BY <1>1 DEF Init, Alone, Running
<1>8. \A p \in Passes : PassOK(p)  BY <1>1 DEF Init, PassOK, StepOK
<1> QED BY <1>3, <1>4, <1>5, <1>6, <1>7, <1>8 DEF IndexerInv

\* The chain grows past the range of every pass, and behind no cursor.
LEMMA ChainStepKeeps ==
  ASSUME Types, Types', LogOK, LogOK', LogGrows, UNCHANGED <<database, pass>>,
         CursorOK, RowsOK, Alone, \A p \in Passes : PassOK(p)
  PROVE  CursorOK' /\ RowsOK' /\ Alone' /\ \A p \in Passes : PassOK(p)'
<1>1. head \in Nat /\ head' = head + 1 /\ startBlock \in Nat
  BY IndexerAssumption DEF LogGrows, Types
<1>2. UNCHANGED <<circle_events, last_block, pass>>  BY DEF database
<1>3. FirstBlock' = FirstBlock /\ FirstBlock \in Nat
  BY <1>2, FirstBlockType DEF FirstBlock
<1>4. CursorOK'  BY <1>1, <1>2, FirstBlockType DEF CursorOK
<1>5. LastBlock(FirstBlock)' >= LastBlock(FirstBlock)
  BY <1>1, <1>3, IndexerAssumption DEF LastBlock
<1>6. \A i \in DOMAIN chain_log :
         i \in DOMAIN chain_log' /\ Block(i)' = Block(i) /\ chain_log'[i] = chain_log[i]
  BY DEF LogGrows, Block
<1>7. \A i \in DOMAIN chain_log' : i \in DOMAIN chain_log \/ Block(i)' = head + 1
  BY DEF LogGrows, Block
<1>8. \A i : \A from, to \in Int : to <= head => (Due(i, from, to)' <=> Due(i, from, to))
  BY <1>1, <1>6, <1>7 DEF Due
<1>9. FirstBlock <= head + 1 \/ last_block = NoCursor
  BY <1>1, FirstBlockType DEF CursorOK
<1>10. ASSUME FirstBlock <= head + 1
       PROVE  /\ \A i \in DOMAIN chain_log :
                   decodeEvent(chain_log[i], FirstBlock)' = decodeEvent(chain_log[i], FirstBlock)
              /\ Before(FirstBlock)' = Before(FirstBlock)
  <2>1. PICK b \in Nat : b = FirstBlock  BY <1>3
  <2>2. /\ Before(b)' = Before(b)
        /\ \A i \in DOMAIN chain_log :
             decodeEvent(chain_log[i], b)' = decodeEvent(chain_log[i], b)
    BY <2>1, <1>10, RowsStay
  <2> QED BY <1>3, <2>1, <2>2 DEF decodeEvent, Before
<1>11. \A row \in circle_events' : RowOK(row)'
  <2> SUFFICES ASSUME NEW row \in circle_events PROVE RowOK(row)'  BY <1>2
  <2>1. RowOK(row)  BY DEF RowsOK
  <2>2. row.place \in DOMAIN chain_log /\ row.tx = Block(row.place) /\ row.tx <= head
        /\ startBlock <= row.tx /\ row.tx \in Nat
    BY <2>1, Places DEF RowOK, Due
  <2>3. Due(row.place, startBlock, head)'
    BY <2>1, <2>2, <1>1, <1>6 DEF RowOK, Due
  <2>4. row.tx = Block(row.place)'  BY <2>2, <1>6
  <2>5. row.tx <= LastBlock(FirstBlock)'
    <3>1. row.tx <= LastBlock(FirstBlock)  BY <2>1 DEF RowOK
    <3>2. LastBlock(FirstBlock) \in Int  BY <1>3, LastBlockType
    <3>3. LastBlock(FirstBlock)' \in Int  BY <1>1, <1>3, IndexerAssumption DEF LastBlock
    <3> QED BY <3>1, <3>2, <3>3, <2>2, <1>5
  <2>6. ASSUME row.tx >= FirstBlock'
        PROVE  row = decodeEvent(chain_log[row.place], FirstBlock)'
    <3>1. FirstBlock <= head + 1  BY <2>6, <2>2, <1>1, <1>3
    <3>2. row = decodeEvent(chain_log[row.place], FirstBlock)
      BY <2>6, <1>3, <2>1 DEF RowOK
    <3> QED BY <3>1, <3>2, <1>10, <2>2
  <2> QED BY <2>3, <2>4, <2>5, <2>6 DEF RowOK
<1>12. RowsOK'
  <2>1. \A row, other \in circle_events' : row.place = other.place => row = other
    BY <1>2 DEF RowsOK
  <2>2. \A i : Due(i, startBlock, FirstBlock - 1)' => Recorded(i)'
    <3> SUFFICES ASSUME NEW i, Due(i, startBlock, FirstBlock - 1)' PROVE Recorded(i)
      BY <1>2 DEF Recorded
    <3>1. PICK b \in Nat : b = FirstBlock  BY <1>3
    <3>2. CASE FirstBlock <= head + 1
      <4>1. Due(i, startBlock, b - 1)'  BY <3>1, <1>3 DEF Due, Block
      <4>2. b - 1 \in Int /\ startBlock \in Int /\ b - 1 <= head  BY <3>1, <3>2, <1>1
      <4>3. Due(i, startBlock, b - 1)  BY <4>1, <4>2, <1>8
      <4> QED BY <4>3, <3>1 DEF RowsOK, Due
    <3>3. CASE last_block = NoCursor
      <4>1. FirstBlock = startBlock  BY <3>3, FirstBlockType
      <4>2. i \in DOMAIN chain_log' /\ startBlock <= Block(i)' /\ Block(i)' <= FirstBlock - 1
        BY <1>3 DEF Due
      <4>3. Block(i)' \in Nat  BY <4>2 DEF LogOK, Types
      <4> QED BY <4>1, <4>2, <4>3, <1>1
    <3> QED BY <3>2, <3>3, <1>9
  <2> QED BY <1>11, <2>1, <2>2 DEF RowsOK
<1>13. Alone'  BY <1>2 DEF Alone, Running
<1>14. ASSUME NEW p \in Passes PROVE PassOK(p)'
  <2>1. PassOK(p)  OBVIOUS
  <2>2. CASE pass[p].at = "record"
    <3>1. pass[p].from \in Nat /\ pass[p].to \in Nat  BY DEF Types, PassType
    <3>2. /\ pass[p].from = FirstBlock
          /\ pass[p].from <= pass[p].to /\ pass[p].to <= LastBlock(FirstBlock)
          /\ pass[p].events \subseteq EventsOf(pass[p].from, pass[p].to)
          /\ \A row \in circle_events : row.tx <= pass[p].to
          /\ \A i : Due(i, pass[p].from, pass[p].to) =>
               Recorded(i) \/ decodeEvent(chain_log[i], pass[p].from) \in pass[p].events
      BY <2>1, <2>2 DEF PassOK, StepOK
    <3>8. pass[p].to <= head /\ pass[p].to <= LastBlock(FirstBlock)'
      <4>1. LastBlock(FirstBlock) \in Int /\ LastBlock(FirstBlock) <= head
        BY <1>3, LastBlockType
      <4>2. LastBlock(FirstBlock)' \in Int
        BY <1>1, <1>3, IndexerAssumption DEF LastBlock
      <4> QED BY <4>1, <4>2, <3>1, <3>2, <1>1, <1>5
    <3>9. LastBlock(pass[p].from)' = LastBlock(FirstBlock)'
      BY <3>2, <1>2, <1>3 DEF LastBlock
    <3>3. FirstBlock <= head + 1  BY <3>1, <3>2, <3>8, <1>1
    <3>4. \A i \in DOMAIN chain_log :
            decodeEvent(chain_log[i], pass[p].from)' = decodeEvent(chain_log[i], pass[p].from)
      <4>1. Before(pass[p].from)' = Before(pass[p].from)
        BY <3>2, <3>3, <1>2, <1>3, <1>10 DEF Before
      <4> QED BY <4>1, <1>2, <1>6 DEF decodeEvent
    <3>5. EventsOf(pass[p].from, pass[p].to) \subseteq EventsOf(pass[p].from, pass[p].to)'
      BY <3>4, <1>2, <1>6 DEF EventsOf
    <3>6. pass'[p].events \subseteq EventsOf(pass[p].from, pass[p].to)'
      BY <3>2, <3>5, <1>2
    <3>7. ASSUME NEW i, Due(i, pass[p].from, pass[p].to)'
          PROVE  Recorded(i)' \/ decodeEvent(chain_log[i], pass[p].from)' \in pass'[p].events
      <4>1. Due(i, pass[p].from, pass[p].to)
        <5>1. /\ i \in DOMAIN chain_log' /\ chain_log'[i].name \in INDEXED_EVENTS
              /\ pass[p].from <= Block(i)' /\ Block(i)' <= pass[p].to
          BY <3>7, <1>2 DEF Due, Block
        <5>2. i \in DOMAIN chain_log  BY <5>1, <3>1, <3>8, <1>1, <1>7
        <5> QED BY <5>1, <5>2, <1>6 DEF Due
      <4>2. i \in DOMAIN chain_log  BY <4>1 DEF Due
      <4> QED BY <4>1, <4>2, <3>2, <3>4, <1>2 DEF Recorded
    <3> QED BY <2>2, <3>2, <3>6, <3>7, <3>8, <3>9, <1>2, <1>3 DEF PassOK, StepOK
  <2>3. CASE pass[p].at # "record"
    BY <2>1, <2>3, <1>2, <1>3 DEF PassOK, StepOK
  <2> QED BY <2>2, <2>3
<1> QED BY <1>4, <1>12, <1>13, <1>14

LEMMA ChainKeeps == ASSUME IndexerInv, Chain PROVE IndexerInv'
<1>1. ASSUME NEW names \in Seq(EventNames), Len(names) <= 2, Mined(names),
             get_circle' \in Seq(Nat)
      PROVE  IndexerInv'
  <2>1. Types' /\ LogOK' /\ LogGrows /\ UNCHANGED <<database, pass, overlapped>>
    BY <1>1, MinedGrows DEF IndexerInv
  <2>2. ~overlapped => CursorOK' /\ RowsOK' /\ Alone' /\ \A p \in Passes : PassOK(p)'
    BY <2>1, ChainStepKeeps DEF IndexerInv
  <2> QED BY <2>1, <2>2 DEF IndexerInv
<1>2. get_circle \in Seq(Nat)  BY DEF IndexerInv, Types
<1>3. /\ "CircleCreated" \in EventNames /\ "MemberJoined" \in EventNames
      /\ "CircleActivated" \in EventNames /\ "SettlementHelperInitialized" \in EventNames
  BY DEF EventNames, INDEXED_EVENTS
<1>4. CASE create_circle
  <2>1. 1 \in Nat  OBVIOUS
  <2>2. get_circle' \in Seq(Nat)  BY <1>2, <1>4, <2>1, AppendProperties DEF create_circle
  <2>3. <<"CircleCreated">> \in Seq(EventNames) /\ Len(<<"CircleCreated">>) <= 2  BY <1>3
  <2>4. Mined(<<"CircleCreated">>)  BY <1>4 DEF create_circle
  <2> QED BY <2>2, <2>3, <2>4, <1>1
<1>5. ASSUME NEW c \in DOMAIN get_circle, join_circle(c) PROVE IndexerInv'
  <2>1. get_circle[c] + 1 \in Nat /\ c \in 1..Len(get_circle)
    BY <1>2, LenProperties, ElementOfSeq
  <2>2. get_circle' = [get_circle EXCEPT ![c] = get_circle[c] + 1]  BY <1>5 DEF join_circle
  <2>3. get_circle' \in Seq(Nat)  BY <1>2, <2>1, <2>2, ExceptSeq
  <2>4. <<"MemberJoined">> \in Seq(EventNames) /\ Len(<<"MemberJoined">>) <= 2  BY <1>3
  <2>5. /\ <<"MemberJoined", "CircleActivated">> \in Seq(EventNames)
        /\ Len(<<"MemberJoined", "CircleActivated">>) <= 2
    BY <1>3
  <2> QED BY <2>3, <2>4, <2>5, <1>1, <1>5 DEF join_circle
<1>6. CASE other_transaction
  <2>1. /\ <<"SettlementHelperInitialized">> \in Seq(EventNames)
        /\ Len(<<"SettlementHelperInitialized">>) <= 2
    BY <1>3
  <2> QED BY <2>1, <1>1, <1>2, <1>6 DEF other_transaction
<1>7. CASE empty_block
  <2>1. << >> \in Seq(EventNames) /\ Len(<< >>) <= 2  BY EmptySeq
  <2> QED BY <2>1, <1>1, <1>2, <1>7 DEF empty_block
<1> QED BY <1>4, <1>5, <1>6, <1>7 DEF Chain

\* What a pass may hold depends on the chain, the table and the cursor only.
LEMMA StepStaysOK ==
  ASSUME UNCHANGED <<head, chain_log, circle_events, last_block>>, NEW step, StepOK(step)
  PROVE  StepOK(step)'
<1>1. FirstBlock' = FirstBlock  BY DEF FirstBlock
<1>2. ASSUME NEW b PROVE Before(b)' = Before(b)  BY DEF Before
<1>3. ASSUME NEW i, NEW b
      PROVE  decodeEvent(chain_log[i], b)' = decodeEvent(chain_log[i], b)
  BY <1>2 DEF decodeEvent
<1>4. ASSUME NEW a, NEW b PROVE EventsOf(a, b)' = EventsOf(a, b)
  BY <1>3 DEF EventsOf
<1>5. ASSUME NEW i, NEW a, NEW b PROVE Due(i, a, b)' <=> Due(i, a, b)
  BY DEF Due, Block
<1>6. ASSUME NEW i PROVE Recorded(i)' <=> Recorded(i)  BY DEF Recorded
<1>7. ASSUME NEW a PROVE LastBlock(a)' = LastBlock(a)  BY DEF LastBlock
<1> QED BY <1>7, <1>1, <1>3, <1>4, <1>5, <1>6 DEF StepOK

LEMMA RowsStayOK ==
  ASSUME UNCHANGED <<head, chain_log, circle_events, last_block>>, RowsOK
  PROVE  RowsOK'
<1>1. FirstBlock' = FirstBlock /\ LastBlock(FirstBlock)' = LastBlock(FirstBlock)
  BY DEF FirstBlock, LastBlock
<1>2. Before(FirstBlock)' = Before(FirstBlock)  BY <1>1 DEF Before
<1>3. ASSUME NEW i
      PROVE  decodeEvent(chain_log[i], FirstBlock)' = decodeEvent(chain_log[i], FirstBlock)
  BY <1>1, <1>2 DEF decodeEvent
<1>4. ASSUME NEW i, NEW a, NEW b PROVE Due(i, a, b)' <=> Due(i, a, b)
  BY DEF Due, Block
<1>5. ASSUME NEW row \in circle_events' PROVE RowOK(row)'
  BY <1>1, <1>3, <1>4 DEF RowsOK, RowOK, Block
<1>6. ASSUME NEW i, Due(i, startBlock, FirstBlock - 1)' PROVE Recorded(i)'
  <2>1. Due(i, startBlock, FirstBlock - 1)  BY <1>6, <1>1 DEF Due, Block
  <2> QED BY <2>1 DEF RowsOK, Recorded
<1> QED BY <1>5, <1>6 DEF RowsOK

\* A pass that starts, or goes on without writing.
LEMMA ReadingStepKeeps ==
  ASSUME IndexerInv, NEW p \in Passes, NEW step \in PassType, Goto(p, step),
         UNCHANGED <<chain, circle_events, last_block>>,
         overlapped' \in BOOLEAN, overlapped => overlapped',
         step.at \in {"sweep", "upsert"} => step.id > 0,
         step.at # "stopped" => Running(p) \/ overlapped'
           \/ \A q \in Passes \ {p} : ~Running(q),
         overlapped \/ StepOK(step)
  PROVE  IndexerInv'
<1>1. UNCHANGED <<head, chain_log, get_circle, circle_events, last_block>>
  BY DEF chain
<1>2. pass' \in [Passes -> PassType] /\ pass'[p] = step
      /\ \A q \in Passes \ {p} : pass'[q] = pass[q]
  BY DEF Goto, IndexerInv, Types
<1>4. Types'  BY <1>1, <1>2 DEF IndexerInv, Types
<1>5. LogOK'  BY <1>1 DEF IndexerInv, LogOK, Block
<1>6. ASSUME ~overlapped'
      PROVE  CursorOK' /\ RowsOK' /\ Alone' /\ \A q \in Passes : PassOK(q)'
  <2>1. CursorOK /\ RowsOK /\ Alone /\ (\A q \in Passes : PassOK(q)) /\ ~overlapped
    BY <1>6 DEF IndexerInv, Types
  <2>2. CursorOK'  BY <2>1, <1>1 DEF CursorOK
  <2>3. RowsOK'  BY <2>1, <1>1, RowsStayOK
  <2>4. Alone'  BY <2>1, <1>2, <1>6 DEF Alone, Running
  <2>5. ASSUME NEW q \in Passes PROVE PassOK(q)'
    <3>1. PICK s : s = pass'[q]  OBVIOUS
    <3>2. StepOK(s)
      <4>1. CASE q = p  BY <4>1, <3>1, <2>1, <1>2
      <4>2. CASE q # p  BY <4>2, <3>1, <2>1, <1>2 DEF PassOK
      <4> QED BY <4>1, <4>2
    <3>3. StepOK(s)'  BY <3>2, <1>1, StepStaysOK
    <3> QED BY <3>1, <3>3 DEF PassOK, StepOK
  <2> QED BY <2>2, <2>3, <2>4, <2>5
<1> QED BY <1>4, <1>5, <1>6 DEF IndexerInv

LEMMA PassFields ==
  ASSUME IndexerInv, NEW p \in Passes
  PROVE  /\ pass[p] \in PassType
         /\ pass[p].id \in Nat /\ pass[p].from \in Nat /\ pass[p].to \in Nat
         /\ pass[p].events \subseteq RowType
BY DEF IndexerInv, Types, PassType

LEMMA StoppedOK == Stopped \in PassType /\ Stopped.at = "stopped" /\ StepOK(Stopped)
BY DEF Stopped, PassType, StepOK

LEMMA TickKeeps ==
  ASSUME IndexerInv, NEW p \in Passes, tick(p) PROVE IndexerInv'
<1> DEFINE step == [Stopped EXCEPT !.at = "sweep", !.id = 1]
<1>1. step \in PassType /\ step.at = "sweep" /\ step.id = 1  BY DEF Stopped, PassType
<1>2. Goto(p, step) /\ UNCHANGED <<chain, circle_events, last_block>> /\ ~Running(p)
      /\ overlapped' = (overlapped \/ \E q \in Passes \ {p} : Running(q))
  BY DEF tick, database
<1>3. overlapped' \in BOOLEAN /\ (overlapped => overlapped')
  BY <1>2 DEF IndexerInv, Types
<1>4. StepOK(step)  BY <1>1 DEF StepOK
<1>5. overlapped' \/ \A q \in Passes \ {p} : ~Running(q)  BY <1>2
<1> HIDE DEF step
<1> QED BY <1>1, <1>2, <1>3, <1>4, <1>5, ReadingStepKeeps

LEMMA ReadCircleKeeps ==
  ASSUME IndexerInv, NEW p \in Passes, ReadCircle(p) PROVE IndexerInv'
<1> DEFINE id == pass[p].id
           read == [pass[p] EXCEPT !.at = "upsert", !.view = get_circle[id]]
           end == [pass[p] EXCEPT !.at = "cursor"]
<1>1. UNCHANGED <<chain, circle_events, last_block, overlapped>> /\ Running(p)
      /\ overlapped \in BOOLEAN
  BY DEF ReadCircle, Running, IndexerInv, Types, database
<1>2. CASE id <= maxCircleScan /\ id <= Len(get_circle)
  <2>1. Goto(p, read)  BY <1>2 DEF ReadCircle
  <2>2. get_circle \in Seq(Nat) /\ id \in Nat /\ id > 0
    BY PassFields DEF ReadCircle, IndexerInv, Types
  <2>3. get_circle[id] \in Nat
    <3>1. Len(get_circle) \in Nat  BY <2>2, LenProperties
    <3>2. id \in 1..Len(get_circle)  BY <1>2, <2>2, <3>1
    <3> QED BY <2>2, <3>2, ElementOfSeq
  <2>4. read \in PassType /\ read.at = "upsert" /\ read.id = id
    BY <2>3, PassFields DEF PassType
  <2>5. StepOK(read)  BY <2>4 DEF StepOK
  <2> HIDE DEF read, id
  <2> QED BY <1>1, <2>1, <2>2, <2>4, <2>5, ReadingStepKeeps
<1>3. CASE ~(id <= maxCircleScan /\ id <= Len(get_circle))
  <2>1. Goto(p, end)  BY <1>3 DEF ReadCircle
  <2>2. end \in PassType /\ end.at = "cursor"  BY PassFields DEF PassType
  <2>3. StepOK(end)  BY <2>2 DEF StepOK
  <2> HIDE DEF end
  <2> QED BY <1>1, <2>1, <2>2, <2>3, ReadingStepKeeps
<1> QED BY <1>2, <1>3

LEMMA GetCursorKeeps ==
  ASSUME IndexerInv, NEW p \in Passes, getCursor(p) PROVE IndexerInv'
<1> DEFINE step == [pass[p] EXCEPT !.at = "events", !.from = FirstBlock]
<1>1. UNCHANGED <<chain, circle_events, last_block, overlapped>> /\ Running(p)
      /\ overlapped \in BOOLEAN
  BY DEF getCursor, Running, IndexerInv, Types, database
<1>2. Goto(p, step)  BY DEF getCursor
<1>3. FirstBlock \in Nat  BY FirstBlockType DEF IndexerInv
<1>4. step \in PassType /\ step.at = "events" /\ step.from = FirstBlock
  BY <1>3, PassFields DEF PassType
<1>5. StepOK(step)  BY <1>4 DEF StepOK
<1> HIDE DEF step
<1> QED BY <1>1, <1>2, <1>4, <1>5, ReadingStepKeeps

LEMMA ReadEventsKeeps ==
  ASSUME IndexerInv, NEW p \in Passes, ReadEvents(p) PROVE IndexerInv'
<1> DEFINE from == pass[p].from
           to == LastBlock(from)
           events == EventsOf(from, to)
           step == [pass[p] EXCEPT !.at = "record", !.to = to, !.events = events]
<1>1. UNCHANGED <<chain, circle_events, last_block, overlapped>> /\ Running(p)
      /\ overlapped \in BOOLEAN
  BY DEF ReadEvents, Running, IndexerInv, Types, database
<1>2. from \in Nat /\ head \in Nat /\ Types /\ LogOK
  BY PassFields DEF IndexerInv, Types
<1>3. CASE from > head
  <2>1. Goto(p, Stopped)  BY <1>3 DEF ReadEvents
  <2> QED BY <1>1, <2>1, StoppedOK, ReadingStepKeeps
<1>4. CASE ~(from > head)
  <2>1. to \in Int /\ from <= to /\ to <= head  BY <1>2, <1>4, LastBlockType
  <2>2. to \in Nat  BY <2>1, <1>2
  <2>3. Goto(p, step)  BY <1>4 DEF ReadEvents
  <2>4. events \subseteq RowType  BY <1>2, RowOfEvent DEF EventsOf
  <2> HIDE DEF to, events
  <2>5. /\ step \in PassType /\ step.at = "record" /\ step.from = from /\ step.to = to
        /\ step.events = events
    BY <2>2, <2>4, PassFields DEF PassType
  <2>6. ~overlapped => from = FirstBlock  BY DEF ReadEvents, IndexerInv, PassOK, StepOK
  <2>7. ~overlapped => \A row \in circle_events : row.tx <= to
    BY <2>6 DEF IndexerInv, RowsOK, RowOK, to
  <2>8. \A i : Due(i, from, to) => decodeEvent(chain_log[i], from) \in events
    BY DEF Due, EventsOf, Block, events
  <2>9. overlapped \/ StepOK(step)
    BY <2>1, <2>5, <2>6, <2>7, <2>8 DEF StepOK, events, to
  <2> HIDE DEF from, step
  <2> QED BY <1>1, <2>3, <2>5, <2>9, ReadingStepKeeps
<1> QED BY <1>3, <1>4

LEMMA CallFailsKeeps ==
  ASSUME IndexerInv, NEW p \in Passes, CallFails(p) PROVE IndexerInv'
<1> DEFINE step == [pass[p] EXCEPT !.at = "cursor"]
<1>1. UNCHANGED <<chain, circle_events, last_block, overlapped>> /\ Running(p)
      /\ overlapped \in BOOLEAN
  BY DEF CallFails, Running, IndexerInv, Types, database
<1>2. step \in PassType /\ step.at = "cursor"  BY PassFields DEF PassType
<1>3. Goto(p, step) \/ Goto(p, Stopped)
  <2>1. CASE pass[p].at = "sweep"  BY <2>1 DEF CallFails
  <2>2. CASE pass[p].at # "sweep"  BY <2>2 DEF CallFails
  <2> QED BY <2>1, <2>2
<1>4. StepOK(step)  BY <1>2 DEF StepOK
<1> HIDE DEF step
<1> QED BY <1>1, <1>2, <1>3, <1>4, StoppedOK, ReadingStepKeeps

LEMMA UpsertKeeps ==
  ASSUME IndexerInv, NEW p \in Passes, upsertIndexedCircle(p) PROVE IndexerInv'
<1> DEFINE step == [pass[p] EXCEPT !.at = "sweep", !.id = @ + 1]
<1>1. UNCHANGED <<chain, circle_events, last_block, overlapped>> /\ Running(p)
      /\ overlapped \in BOOLEAN /\ Goto(p, step)
  BY DEF upsertIndexedCircle, Running, IndexerInv, Types
<1>2. /\ step \in PassType /\ step.at = "sweep" /\ step.id = pass[p].id + 1
      /\ pass[p].id \in Nat
  <2>1. PICK n \in Nat : n = pass[p].id  BY PassFields
  <2>2. n + 1 \in Nat  OBVIOUS
  <2> QED BY <2>1, <2>2, PassFields DEF PassType
<1>3. StepOK(step)  BY <1>2 DEF StepOK
<1> HIDE DEF step
<1> QED BY <1>1, <1>2, <1>3, ReadingStepKeeps

\* What a pass that records holds, as long as it is alone.
LEMMA RecordingStep ==
  ASSUME IndexerInv, ~overlapped, NEW p \in Passes, pass[p].at = "record"
  PROVE  /\ Types /\ LogOK /\ CursorOK /\ RowsOK
         /\ \A q \in Passes \ {p} : ~Running(q)
         /\ pass[p].from = FirstBlock /\ FirstBlock \in Nat /\ pass[p].to \in Nat
         /\ startBlock \in Nat /\ head \in Nat /\ startBlock <= FirstBlock
         /\ FirstBlock <= pass[p].to /\ pass[p].to <= head
         /\ pass[p].to <= LastBlock(FirstBlock)
         /\ pass[p].events \subseteq EventsOf(FirstBlock, pass[p].to)
         /\ \A row \in circle_events : row.tx <= pass[p].to
         /\ \A i : Due(i, FirstBlock, pass[p].to) =>
              Recorded(i) \/ decodeEvent(chain_log[i], FirstBlock) \in pass[p].events
<1>1. Types /\ LogOK /\ CursorOK /\ RowsOK /\ Alone /\ StepOK(pass[p])
  BY DEF IndexerInv, PassOK
<1>2. Running(p)  BY DEF Running
<1>3. FirstBlock \in Nat /\ startBlock \in Nat /\ startBlock <= FirstBlock
  BY <1>1, FirstBlockType, IndexerAssumption DEF CursorOK
<1>4. pass[p].from = FirstBlock /\ pass[p].to \in Nat /\ pass[p].to <= LastBlock(FirstBlock)
  BY <1>1, PassFields DEF StepOK
<1>5. pass[p].to <= head
  <2>1. LastBlock(FirstBlock) \in Int /\ LastBlock(FirstBlock) <= head /\ head \in Nat
    BY <1>1, <1>3, LastBlockType DEF Types
  <2> QED BY <2>1, <1>4
<1> QED BY <1>1, <1>2, <1>3, <1>4, <1>5 DEF StepOK, Alone, Types

\* The statement inserts the row of an event that has none, and nothing else:
\* a row in its way is its own.
LEMMA InsertKeeps ==
  ASSUME IndexerInv, NEW p \in Passes, InsertEvent(p) PROVE IndexerInv'
<1>0. PICK to \in Nat : to = pass[p].to  BY PassFields
<1>1. PICK e \in FirstEvents(p) :
         /\ circle_events' =
              IF \E row \in circle_events : row.tx = e.tx /\ row.event_index = e.event_index
              THEN circle_events ELSE circle_events \cup {e}
         /\ Goto(p, [pass[p] EXCEPT !.events = @ \ {e}])
  BY DEF InsertEvent
<1> DEFINE step == [pass[p] EXCEPT !.events = @ \ {e}]
<1>2. /\ UNCHANGED <<head, chain_log, get_circle, last_block, overlapped>>
      /\ pass[p].at = "record"
  BY DEF InsertEvent, chain
<1>3. e \in pass[p].events /\ e \in RowType  BY PassFields DEF FirstEvents
<1>4. /\ step \in PassType /\ step.at = "record" /\ step.from = pass[p].from
      /\ step.to = to /\ step.events = pass[p].events \ {e}
  BY <1>0, <1>2, PassFields DEF PassType
<1>5. pass' = [pass EXCEPT ![p] = step]  BY <1>1 DEF Goto
<1> HIDE DEF step
<1>6. /\ pass' \in [Passes -> PassType] /\ pass'[p] = step
      /\ \A q \in Passes \ {p} : pass'[q] = pass[q]
  BY <1>4, <1>5 DEF IndexerInv, Types
<1>7. circle_events' \subseteq circle_events \cup {e} /\ circle_events \subseteq circle_events'
  BY <1>1
<1>8. Types'
  <2>1. \A q \in Passes : pass'[q].at \in {"sweep", "upsert"} => pass'[q].id > 0
    BY <1>4, <1>6 DEF IndexerInv, Types
  <2>2. circle_events' \subseteq RowType  BY <1>3, <1>7 DEF IndexerInv, Types
  <2> QED BY <2>1, <2>2, <1>2, <1>6 DEF IndexerInv, Types
<1>9. LogOK'  BY <1>2 DEF IndexerInv, LogOK, Block
<1>10. ASSUME ~overlapped
       PROVE  CursorOK' /\ RowsOK' /\ Alone' /\ \A q \in Passes : PassOK(q)'
  <2>1. /\ Types /\ LogOK /\ CursorOK /\ RowsOK
        /\ \A q \in Passes \ {p} : ~Running(q)
        /\ pass[p].from = FirstBlock /\ FirstBlock \in Nat /\ to \in Nat
        /\ startBlock \in Nat /\ head \in Nat /\ startBlock <= FirstBlock
        /\ FirstBlock <= to /\ to <= head /\ to <= LastBlock(FirstBlock)
        /\ pass[p].events \subseteq EventsOf(FirstBlock, to)
        /\ \A row \in circle_events : row.tx <= to
        /\ \A i : Due(i, FirstBlock, to) =>
             Recorded(i) \/ decodeEvent(chain_log[i], FirstBlock) \in pass[p].events
    BY <1>0, <1>2, <1>10, RecordingStep
  <2>2. PICK b \in Nat : b = FirstBlock  BY <2>1
  <2>3. FirstBlock' = b /\ LastBlock(FirstBlock)' = LastBlock(b)
    BY <1>2, <2>2 DEF FirstBlock, LastBlock
  <2>4. ASSUME NEW i PROVE decodeEvent(chain_log[i], b)' = decodeEvent(chain_log[i], b)
    BY <1>2 DEF decodeEvent, Before
  <2>5. ASSUME NEW i, NEW f, NEW t PROVE Due(i, f, t)' <=> Due(i, f, t)
    BY <1>2 DEF Due, Block
  <2>6. PICK i \in DOMAIN chain_log : e = decodeEvent(chain_log[i], b) /\ Due(i, b, to)
    BY <1>3, <2>1, <2>2 DEF EventsOf, Due, Block
  <2>7. e.tx = Block(i) /\ e.place = i /\ b <= e.tx /\ e.tx <= to /\ e.tx \in Nat
    BY <2>1, <2>6, RowOfEvent, Places DEF Due
  <2>8. /\ LastBlock(b) \in Int
        /\ i \in Nat /\ i \in DOMAIN chain_log'
    BY <1>2, <2>2, <2>1, <2>6, LastBlockType, Places
  <2>9. RowOK(e)'
    <3>1. Due(i, startBlock, head)
      BY <2>1, <2>2, <2>6, <2>7 DEF Due
    <3>2. Due(e.place, startBlock, head)'  BY <3>1, <2>7, <1>2 DEF Due, Block
    <3>3. e.tx = Block(e.place)'  BY <2>7, <1>2 DEF Block
    <3>4. e.tx <= LastBlock(FirstBlock)'  BY <2>1, <2>2, <2>3, <2>7, <2>8
    <3>5. e = decodeEvent(chain_log[e.place], FirstBlock)'
      BY <2>3, <2>4, <2>6, <2>7 DEF decodeEvent, Before
    <3> QED BY <3>2, <3>3, <3>4, <3>5 DEF RowOK
  <2>10. ASSUME NEW row \in circle_events
         PROVE  /\ RowOK(row)'
                /\ row.tx = e.tx => /\ row.place \in DOMAIN chain_log
                                    /\ row = decodeEvent(chain_log[row.place], b)
    <3>1. RowOK(row)  BY <2>1 DEF RowsOK
    <3>2. Due(row.place, startBlock, head)'  BY <3>1, <1>2 DEF RowOK, Due, Block
    <3>3. row.tx = Block(row.place)'  BY <3>1, <1>2 DEF RowOK, Block
    <3>4. row.tx <= LastBlock(FirstBlock)'  BY <3>1, <2>2, <2>3 DEF RowOK
    <3>5. row.tx >= b => row = decodeEvent(chain_log[row.place], b)
      BY <3>1, <2>2 DEF RowOK
    <3>6. row.tx >= FirstBlock' => row = decodeEvent(chain_log[row.place], FirstBlock)'
      BY <3>5, <2>3, <1>2 DEF decodeEvent, Before
    <3>7. row.place \in DOMAIN chain_log  BY <3>1 DEF RowOK, Due
    <3>8. row.tx = e.tx => row.tx >= b  BY <2>2, <2>7
    <3> QED BY <3>2, <3>3, <3>4, <3>5, <3>6, <3>7, <3>8 DEF RowOK
  <2>11. ASSUME NEW row \in circle_events, row.tx = e.tx, row.event_index = e.event_index
         PROVE  row = e
    <3>1. /\ row.place \in DOMAIN chain_log
          /\ row = decodeEvent(chain_log[row.place], b)
      BY <2>10, <2>11
    <3>2. row.place = i  BY <3>1, <2>1, <2>6, <2>11, KeyOfEvent
    <3> QED BY <3>1, <3>2, <2>6
  <2>12. ASSUME NEW row \in circle_events, row.place = e.place PROVE row = e
    <3>1. RowOK(row)  BY <2>1 DEF RowsOK
    <3>2. row.tx = e.tx  BY <3>1, <2>7, <2>12 DEF RowOK
    <3> QED BY <3>2, <2>10, <2>12, <2>6, <2>7
  <2>13. circle_events' = circle_events \cup {e}  BY <1>1, <2>11
  <2>14. ASSUME NEW k, Recorded(k) PROVE Recorded(k)'  BY <2>13, <2>14 DEF Recorded
  <2>15. RowsOK'
    <3>1. \A row \in circle_events' : RowOK(row)'  BY <2>9, <2>10, <2>13
    <3>2. \A row, other \in circle_events' : row.place = other.place => row = other
      BY <2>1, <2>12, <2>13 DEF RowsOK
    <3>3. ASSUME NEW k, Due(k, startBlock, FirstBlock - 1)' PROVE Recorded(k)'
      <4>1. Due(k, startBlock, FirstBlock - 1)
        BY <3>3, <2>2, <2>3, <1>2 DEF Due, Block
      <4> QED BY <4>1, <2>1, <2>14 DEF RowsOK
    <3> QED BY <3>1, <3>2, <3>3 DEF RowsOK
  <2>16. CursorOK'  BY <2>1, <1>2 DEF CursorOK
  <2>17. Alone'  BY <2>1, <1>6 DEF Alone, Running
  <2>18. ASSUME NEW q \in Passes PROVE PassOK(q)'
    <3>1. CASE q # p
      <4>1. pass'[q].at = "stopped"  BY <3>1, <2>1, <1>6 DEF Running
      <4> QED BY <4>1 DEF PassOK, StepOK
    <3>2. CASE q = p
      <4>1. step.from = b /\ step.to = to /\ b <= to  BY <1>4, <2>1, <2>2
      <4>2. to <= LastBlock(b)'
        <5>1. LastBlock(b)' = LastBlock(b)  BY <1>2 DEF LastBlock
        <5> QED BY <5>1, <2>1, <2>2
      <4>3. step.events \subseteq EventsOf(b, to)'
        <5>1. EventsOf(b, to)' = EventsOf(b, to)
          BY <1>2, <2>4 DEF EventsOf
        <5> QED BY <5>1, <1>4, <2>1, <2>2
      <4>4. \A row \in circle_events' : row.tx <= to  BY <2>1, <2>7, <2>13
      <4>5. ASSUME NEW k, Due(k, b, to)'
            PROVE  Recorded(k)' \/ decodeEvent(chain_log[k], b)' \in step.events
        <5>1. Due(k, b, to)  BY <4>5, <2>5
        <5>2. Recorded(k) \/ decodeEvent(chain_log[k], b) \in pass[p].events
          BY <5>1, <2>1, <2>2
        <5>3. CASE Recorded(k)  BY <5>3, <2>14
        <5>4. CASE decodeEvent(chain_log[k], b) = e
          <6>1. k \in DOMAIN chain_log  BY <5>1 DEF Due
          <6>2. k = i  BY <5>4, <6>1, <2>1, <2>6, RowOfEvent
          <6> QED BY <6>2, <2>7, <2>13 DEF Recorded
        <5>5. CASE /\ decodeEvent(chain_log[k], b) \in pass[p].events
                   /\ decodeEvent(chain_log[k], b) # e
          BY <5>5, <1>4, <2>4
        <5> QED BY <5>2, <5>3, <5>4, <5>5
      <4>6. step.from = FirstBlock'  BY <4>1, <2>3
      <4>7. PICK s : s = step  OBVIOUS
      <4>8. StepOK(s)'
        BY <1>2, <1>4, <4>1, <4>2, <4>3, <4>4, <4>5, <4>6, <4>7 DEF StepOK
      <4> QED BY <3>2, <1>6, <4>7, <4>8 DEF PassOK, StepOK
    <3> QED BY <3>1, <3>2
  <2> QED BY <2>15, <2>16, <2>17, <2>18
<1> QED BY <1>2, <1>8, <1>9, <1>10 DEF IndexerInv

\* Every event of the range has its row, and no row is past it.
LEMMA SetCursorKeeps ==
  ASSUME IndexerInv, NEW p \in Passes, setCursor(p) PROVE IndexerInv'
<1> DEFINE to == pass[p].to
<1>1. /\ UNCHANGED <<head, chain_log, get_circle, circle_events, overlapped>>
      /\ pass[p].at = "record" /\ pass[p].events = {}
      /\ last_block' = to
      /\ pass' = [pass EXCEPT ![p] = Stopped]
  BY DEF setCursor, chain, Goto
<1>2. to \in Nat  BY PassFields
<1> HIDE DEF to
<1>3. /\ pass' \in [Passes -> PassType] /\ pass'[p] = Stopped /\ Stopped.at = "stopped"
      /\ \A q \in Passes \ {p} : pass'[q] = pass[q]
  BY <1>1, StoppedOK DEF IndexerInv, Types
<1>4. Types'
  <2>1. \A q \in Passes : pass'[q].at \in {"sweep", "upsert"} => pass'[q].id > 0
    BY <1>3 DEF IndexerInv, Types
  <2> QED BY <2>1, <1>1, <1>2, <1>3 DEF IndexerInv, Types
<1>5. LogOK'  BY <1>1 DEF IndexerInv, LogOK, Block
<1>6. ASSUME ~overlapped
      PROVE  CursorOK' /\ RowsOK' /\ Alone' /\ \A q \in Passes : PassOK(q)'
  <2>1. /\ Types /\ LogOK /\ CursorOK /\ RowsOK
        /\ \A q \in Passes \ {p} : ~Running(q)
        /\ FirstBlock \in Nat
        /\ startBlock \in Nat /\ head \in Nat /\ startBlock <= FirstBlock
        /\ FirstBlock <= to /\ to <= head
        /\ \A row \in circle_events : row.tx <= to
        /\ \A i : Due(i, FirstBlock, to) => Recorded(i)
    BY <1>1, <1>6, RecordingStep DEF to
  <2>2. FirstBlock' = to + 1
    <3>1. to # NoCursor  BY <1>2, IndexerAssumption
    <3> QED BY <3>1, <1>1 DEF FirstBlock
  <2>3. CursorOK'  BY <1>1, <1>2, <2>1 DEF CursorOK
  <2>4. LastBlock(FirstBlock)' \in Int /\ to <= LastBlock(FirstBlock)'
    BY <1>1, <1>2, <2>1, <2>2, IndexerAssumption DEF LastBlock
  <2>5. ASSUME NEW row \in circle_events' PROVE RowOK(row)'
    <3>1. RowOK(row) /\ row.tx <= to  BY <2>1, <1>1 DEF RowsOK
    <3>2. row.tx \in Nat  BY <2>1, <1>1 DEF Types, RowType
    <3>3. ~(row.tx >= FirstBlock')  BY <3>1, <3>2, <2>2, <1>2
    <3>4. row.tx <= LastBlock(FirstBlock)'  BY <3>1, <3>2, <2>4, <1>2
    <3>5. Due(row.place, startBlock, head)' /\ row.tx = Block(row.place)'
      BY <3>1, <1>1 DEF RowOK, Due, Block
    <3> QED BY <3>3, <3>4, <3>5 DEF RowOK
  <2>6. ASSUME NEW k, Due(k, startBlock, FirstBlock - 1)' PROVE Recorded(k)'
    <3>1. k \in DOMAIN chain_log /\ chain_log[k].name \in INDEXED_EVENTS
          /\ startBlock <= Block(k) /\ Block(k) <= to
      BY <2>6, <2>2, <1>1, <1>2 DEF Due, Block
    <3>2. Block(k) \in Nat  BY <3>1, <2>1, Places
    <3>3. Due(k, FirstBlock, to) \/ Due(k, startBlock, FirstBlock - 1)
      BY <3>1, <3>2, <2>1 DEF Due
    <3> QED BY <3>3, <2>1, <1>1 DEF RowsOK, Recorded
  <2>7. RowsOK'  BY <2>1, <2>5, <2>6, <1>1 DEF RowsOK
  <2>8. \A q \in Passes : pass'[q].at = "stopped"  BY <2>1, <1>3 DEF Running
  <2>9. Alone'  BY <2>8 DEF Alone, Running
  <2>10. \A q \in Passes : PassOK(q)'  BY <2>8 DEF PassOK, StepOK
  <2> QED BY <2>3, <2>7, <2>9, <2>10
<1> QED BY <1>1, <1>4, <1>5, <1>6 DEF IndexerInv

LEMMA RestartKeeps == ASSUME IndexerInv, Restart PROVE IndexerInv'
<1>1. /\ UNCHANGED <<head, chain_log, get_circle, circle_events, last_block, overlapped>>
      /\ pass' = [p \in Passes |-> Stopped]
  BY DEF Restart, chain, database
<1>2. /\ pass' \in [Passes -> PassType]
      /\ \A q \in Passes : pass'[q].at = "stopped"
  BY <1>1, StoppedOK
<1>3. Types'  BY <1>1, <1>2 DEF IndexerInv, Types
<1>4. LogOK'  BY <1>1 DEF IndexerInv, LogOK, Block
<1>5. ASSUME ~overlapped
      PROVE  CursorOK' /\ RowsOK' /\ Alone' /\ \A q \in Passes : PassOK(q)'
  <2>1. CursorOK /\ RowsOK  BY <1>5 DEF IndexerInv
  <2>2. RowsOK'  BY <2>1, <1>1, RowsStayOK
  <2> QED BY <2>1, <2>2, <1>1, <1>2 DEF CursorOK, Alone, Running, PassOK, StepOK
<1> QED BY <1>1, <1>3, <1>4, <1>5 DEF IndexerInv

LEMMA StutterKeeps == ASSUME IndexerInv, UNCHANGED vars PROVE IndexerInv'
<1>1. /\ UNCHANGED <<head, chain_log, get_circle, circle_events, last_block, overlapped>>
      /\ pass' = pass
  BY DEF vars, chain, database
<1>2. Types' /\ LogOK'  BY <1>1 DEF IndexerInv, Types, LogOK, Block
<1>3. ASSUME ~overlapped
      PROVE  CursorOK' /\ RowsOK' /\ Alone' /\ \A q \in Passes : PassOK(q)'
  <2>1. CursorOK /\ RowsOK /\ Alone /\ \A q \in Passes : PassOK(q)
    BY <1>3 DEF IndexerInv
  <2>2. RowsOK'  BY <2>1, <1>1, RowsStayOK
  <2>3. ASSUME NEW q \in Passes PROVE PassOK(q)'
    <3>1. PICK s : s = pass[q]  OBVIOUS
    <3>2. StepOK(s)'  BY <3>1, <2>1, <1>1, StepStaysOK DEF PassOK
    <3> QED BY <3>1, <3>2, <1>1 DEF PassOK, StepOK
  <2> QED BY <2>1, <2>2, <2>3, <1>1 DEF CursorOK, Alone, Running
<1> QED BY <1>1, <1>2, <1>3 DEF IndexerInv

THEOREM IndexerInvariant == Spec => []IndexerInv
<1>1. Init => IndexerInv  BY InitKeeps
<1>2. IndexerInv /\ [Next]_vars => IndexerInv'
  BY ChainKeeps, TickKeeps, ReadCircleKeeps, UpsertKeeps, GetCursorKeeps, ReadEventsKeeps,
     InsertKeeps, SetCursorKeeps, CallFailsKeeps, RestartKeeps, StutterKeeps
     DEF Next, Pass
<1> QED BY <1>1, <1>2, PTL DEF Spec

-----------------------------------------------------------------------------
(* The theorem *)

LEMMA ExactlyOnceFromInv == ASSUME IndexerInv PROVE ExactlyOnceAlone
<1> SUFFICES ASSUME ~overlapped PROVE NothingSkipped /\ OneRowEach
  BY DEF ExactlyOnceAlone
<1>1. Types /\ LogOK /\ RowsOK  BY DEF IndexerInv
<1>2. NothingSkipped
  <2> SUFFICES ASSUME last_block # NoCursor, NEW i \in DOMAIN chain_log,
                      chain_log[i].name \in INDEXED_EVENTS,
                      startBlock <= chain_log[i].block, chain_log[i].block <= last_block
               PROVE  Rows(chain_log[i]) # {}
    BY DEF NothingSkipped
  <2>1. last_block \in Nat /\ FirstBlock = last_block + 1  BY <1>1, FirstBlockType
  <2>2. Due(i, startBlock, FirstBlock - 1)  BY <2>1 DEF Due, Block
  <2>3. PICK row \in circle_events : row.place = i  BY <2>2, <1>1 DEF RowsOK, Recorded
  <2> QED BY <2>3, <1>1 DEF Rows, LogOK
<1>3. OneRowEach
  <2> SUFFICES ASSUME NEW i \in DOMAIN chain_log
               PROVE  Cardinality(Rows(chain_log[i])) <= 1
    BY DEF OneRowEach
  <2>1. CASE Rows(chain_log[i]) = {}
    <3>1. Cardinality({}) = 0  BY FS_EmptySet, Zenon
    <3> QED BY <2>1, <3>1
  <2>2. CASE Rows(chain_log[i]) # {}
    <3>1. PICK row : row \in Rows(chain_log[i])  BY <2>2
    <3>2. Rows(chain_log[i]) = {row}  BY <3>1, <1>1 DEF Rows, RowsOK
    <3>3. Cardinality({row}) = 1  BY FS_Singleton, Zenon
    <3> QED BY <3>2, <3>3
  <2> QED BY <2>1, <2>2
<1> QED BY <1>2, <1>3

\* As long as no two passes have overlapped, every indexed event of a block that
\* the cursor has passed has one row and no event has two: recordEvents and
\* setCursor of events.ts, however many calls fail and restarts interrupt them.
THEOREM ExactlyOnceHolds == Spec => []ExactlyOnceAlone
<1>1. IndexerInv => ExactlyOnceAlone  BY ExactlyOnceFromInv
<1> QED BY <1>1, IndexerInvariant, PTL

-----------------------------------------------------------------------------
(* The console: what holds of the chain, of the records and of the operation *)
(* under way                                                                 *)

Results  == {"pending", "SUCCEEDED", "REVERTED"}
Labels   == Members \cup {Unread}
PoolTx   == [of : Labels, result : Results]
Verdicts == Results \cup {"none", "not found"}

\* A member's obligation is settled once, by one transaction.
ChainOK ==
  /\ obligation \in [Members -> {Pending, Settled}]
  /\ sent \in Seq(PoolTx)
  /\ \A i \in DOMAIN sent :
       sent[i].result = "SUCCEEDED" /\ sent[i].of \in Members =>
         /\ obligation[sent[i].of] = Settled
         /\ \A j \in DOMAIN sent : sent[j] = sent[i] => j = i

\* A record that names a member is of a transaction that was sent for this member.
\* One that is labelled as the shield may be of a member's contribution.
RecordOK(t) ==
  /\ t.hash \in DOMAIN sent
  /\ t.label \in Members => sent[t.hash].of = t.label
  /\ t.verification = "SUCCEEDED" => sent[t.hash].result = "SUCCEEDED"

RecordsOK ==
  /\ txs \subseteq [hash : Nat, label : Labels, verification : Verdicts]
  /\ \A t \in txs : RecordOK(t)
  /\ \A t, u \in txs : u.hash = t.hash => u = t

Kinds == {"connect", "approve", "balance", "load", "verify", "shield", "contribution"}
Steps == {"refresh", "read", "obligations", "obligation", "nonce", "surplus", "send", "wallet"}
Operation == [kind : Kinds, step : Steps, m : Labels, hash : Nat, settled : BOOLEAN]

\* What was settled when the button was pressed still is, and the operation ends
\* where the obligation is read again.
OpOK ==
  op # Idle =>
    /\ op \in Operation
    /\ op.settled => op.m \in Members /\ obligation[op.m] = Settled
    /\ op.kind = "contribution" /\ op.step \in {"nonce", "surplus"} => ~op.settled
    /\ op.step = "send" => ~op.settled
    /\ op.step = "wallet" => op.hash \in DOMAIN sent /\ sent[op.hash].of = op.m

ConsoleInv == ChainOK /\ RecordsOK /\ OpOK

-----------------------------------------------------------------------------
(* The chain only adds *)

\* The chain goes on: what was sent stays sent for whom it was, what succeeded
\* stays so, and what is settled stays settled.
Onwards ==
  /\ \A i \in DOMAIN sent :
       /\ i \in DOMAIN sent'
       /\ sent'[i].of = sent[i].of
       /\ sent[i].result = "SUCCEEDED" => sent'[i].result = "SUCCEEDED"
  /\ \A m \in Members : obligation[m] = Settled => obligation'[m] = Settled

LEMMA SentPlaces ==
  ASSUME ChainOK
  PROVE  /\ Len(sent) \in Nat /\ DOMAIN sent = 1..Len(sent)
         /\ \A i \in DOMAIN sent : i \in Nat /\ sent[i] \in PoolTx
<1>0. sent \in Seq(PoolTx)  BY DEF ChainOK
<1>1. Len(sent) \in Nat /\ DOMAIN sent = 1..Len(sent)  BY <1>0, LenProperties, Zenon
<1>2. \A i \in 1..Len(sent) : sent[i] \in PoolTx  BY <1>0, ElementOfSeq, Zenon
<1> QED BY <1>1, <1>2

\* Records outlive what the chain does.
LEMMA RecordsGoOn ==
  ASSUME RecordsOK, Onwards, txs' = txs
  PROVE  RecordsOK'
<1>1. ASSUME NEW t \in txs PROVE RecordOK(t)'
  <2>1. RecordOK(t)  BY DEF RecordsOK
  <2> QED BY <2>1 DEF RecordOK, Onwards
<1> QED BY <1>1 DEF RecordsOK

LEMMA OpGoesOn ==
  ASSUME OpOK, Onwards, op' = op
  PROVE  OpOK'
<1> SUFFICES ASSUME op # Idle PROVE OpOK'  BY DEF OpOK, Idle
<1>1. op.settled => op.m \in Members /\ obligation'[op.m] = Settled  BY DEF OpOK, Onwards
<1>2. op.step = "wallet" => op.hash \in DOMAIN sent' /\ sent'[op.hash].of = op.m
  BY DEF OpOK, Onwards
<1> QED BY <1>1, <1>2 DEF OpOK, Operation

LEMMA OnwardsAtRest ==
  ASSUME UNCHANGED onchain PROVE Onwards
  BY DEF onchain, Onwards

LEMMA ChainAtRest ==
  ASSUME ChainOK, UNCHANGED onchain PROVE ChainOK'
  BY DEF onchain, ChainOK, PoolTx, Labels, Results, Pending, Settled

\* A transaction that the wallet took is pending, in a place of its own.
LEMMA SendEffect ==
  ASSUME ChainOK, NEW m \in Labels, Send(m), obligation' = obligation
  PROVE  /\ ChainOK' /\ Onwards
         /\ Len(sent') \in DOMAIN sent' /\ sent'[Len(sent')].of = m
<1> DEFINE new == [of |-> m, result |-> "pending"]
<1>0. sent \in Seq(PoolTx) /\ new \in PoolTx  BY DEF ChainOK, PoolTx, Results
<1>1. sent' = Append(sent, new)  BY DEF Send
<1>2. /\ sent' \in Seq(PoolTx)
      /\ Len(sent') = Len(sent) + 1
      /\ DOMAIN sent' = 1..Len(sent) + 1
      /\ \A i \in 1..Len(sent) : sent'[i] = sent[i]
      /\ sent'[Len(sent) + 1] = new
  <2> HIDE DEF new
  <2>1. sent' \in Seq(PoolTx) /\ Len(sent') = Len(sent) + 1  BY <1>0, <1>1, AppendProperties
  <2>2. DOMAIN sent' = 1..Len(sent')  BY <2>1, LenProperties, Zenon
  <2>3. /\ \A i \in 1..Len(sent) : sent'[i] = sent[i]
        /\ sent'[Len(sent) + 1] = new
    BY <1>0, <1>1, AppendProperties
  <2> QED BY <2>1, <2>2, <2>3
<1>3. Len(sent) \in Nat /\ DOMAIN sent = 1..Len(sent)  BY SentPlaces
<1>4. Onwards  BY <1>2, <1>3 DEF Onwards
<1>5. Len(sent') \in DOMAIN sent' /\ sent'[Len(sent')].of = m  BY <1>2, <1>3
<1>6. ASSUME NEW i \in DOMAIN sent', sent'[i].result = "SUCCEEDED", sent'[i].of \in Members
      PROVE  /\ obligation'[sent'[i].of] = Settled
             /\ \A j \in DOMAIN sent' : sent'[j] = sent'[i] => j = i
  <2>1. i \in DOMAIN sent /\ sent'[i] = sent[i]  BY <1>2, <1>3, <1>6
  <2>2. \A j \in DOMAIN sent' : sent'[j] = sent'[i] => j \in DOMAIN sent  BY <1>2, <1>3, <1>6
  <2> QED BY <1>2, <1>3, <1>6, <2>1, <2>2 DEF ChainOK
<1>7. ChainOK'  BY <1>2, <1>6 DEF ChainOK
<1> QED BY <1>4, <1>5, <1>7

LEMMA SentElsewhereKeeps ==
  ASSUME ConsoleInv, SentElsewhere PROVE ConsoleInv'
<1>1. PICK m \in Members : Send(m)  BY DEF SentElsewhere
<1>2. m \in Labels /\ obligation' = obligation /\ txs' = txs /\ op' = op  BY DEF SentElsewhere, Labels
<1>3. ChainOK' /\ Onwards  BY <1>1, <1>2, SendEffect DEF ConsoleInv
<1> QED BY <1>2, <1>3, RecordsGoOn, OpGoesOn DEF ConsoleInv

\* The circle takes one contribution of a member; the others revert.
LEMMA AcceptKeeps ==
  ASSUME ConsoleInv, NEW i \in DOMAIN sent, Accept(i) PROVE ConsoleInv'
<1>0. ChainOK /\ RecordsOK /\ OpOK  BY DEF ConsoleInv
<1>1. /\ sent \in Seq(PoolTx)
      /\ sent[i] \in PoolTx
      /\ sent[i].result = "pending"
      /\ txs' = txs /\ op' = op
  BY <1>0, SentPlaces DEF ChainOK, Accept
<1>2. PICK m : m = sent[i].of  OBVIOUS
<1>3. \A r \in Results : [sent EXCEPT ![i].result = r] = [sent EXCEPT ![i] = [of |-> m, result |-> r]]
  <2>1. \A e \in PoolTx, r \in Results : [e EXCEPT !.result = r] = [of |-> e.of, result |-> r]  BY DEF PoolTx
  <2>2. \A r \in Results : [sent[i] EXCEPT !.result = r] = [of |-> m, result |-> r]  BY <1>1, <1>2, <2>1
  <2> QED BY <2>2, Zenon
<1>4. m \in Labels  BY <1>1, <1>2 DEF PoolTx
<1>5. ASSUME NEW r \in Results, sent' = [sent EXCEPT ![i].result = r]
      PROVE  /\ sent' \in Seq(PoolTx) /\ DOMAIN sent' = DOMAIN sent
             /\ sent'[i] = [of |-> m, result |-> r]
             /\ \A j \in DOMAIN sent : j # i => sent'[j] = sent[j]
  <2>1. [of |-> m, result |-> r] \in PoolTx  BY <1>4 DEF PoolTx
  <2>2. PICK e \in PoolTx : e = [of |-> m, result |-> r]  BY <2>1
  <2>3. sent' = [sent EXCEPT ![i] = e]  BY <1>3, <1>5, <2>2
  <2>4. sent' \in Seq(PoolTx) /\ DOMAIN sent' = DOMAIN sent  BY <1>1, <2>2, <2>3, ExceptSeq
  <2> QED BY <2>2, <2>3, <2>4
<1>6. CASE /\ m \in Members => obligation[m] = Pending
           /\ sent' = [sent EXCEPT ![i].result = "SUCCEEDED"]
           /\ obligation' = [n \in Members |-> IF n = m THEN Settled ELSE obligation[n]]
  <2>1. /\ sent' \in Seq(PoolTx) /\ DOMAIN sent' = DOMAIN sent
        /\ sent'[i] = [of |-> m, result |-> "SUCCEEDED"]
        /\ \A j \in DOMAIN sent : j # i => sent'[j] = sent[j]
    BY <1>5, <1>6 DEF Results
  <2>2. Onwards  BY <1>0, <1>1, <1>2, <1>6, <2>1 DEF Onwards
  <2>3. obligation' \in [Members -> {Pending, Settled}]  BY <1>0, <1>6 DEF ChainOK
  <2>4. ASSUME NEW j \in DOMAIN sent', sent'[j].result = "SUCCEEDED", sent'[j].of \in Members
        PROVE  /\ obligation'[sent'[j].of] = Settled
               /\ \A k \in DOMAIN sent' : sent'[k] = sent'[j] => k = j
    <3>1. CASE j = i
      <4>1. sent'[j].of = m /\ m \in Members  BY <2>1, <2>4, <3>1
      <4>2. ASSUME NEW k \in DOMAIN sent', sent'[k] = sent'[j], k # j PROVE FALSE
        <5>1. sent[k].of = m /\ sent[k].result = "SUCCEEDED"  BY <2>1, <3>1, <4>2
        <5>2. obligation[m] = Settled  BY <1>0, <2>1, <4>1, <4>2, <5>1 DEF ChainOK
        <5> QED BY <1>6, <4>1, <5>2 DEF Pending, Settled
      <4> QED BY <1>6, <4>1, <4>2
    <3>2. CASE j # i
      <4>1. sent'[j] = sent[j] /\ j \in DOMAIN sent  BY <2>1, <3>2
      <4>2. sent[j].result = "SUCCEEDED" /\ sent[j].of \in Members /\ obligation[sent[j].of] = Settled
        BY <1>0, <2>4, <4>1 DEF ChainOK
      <4>3. sent[j].of # m  BY <1>6, <4>2 DEF Pending, Settled
      <4>4. sent'[i] # sent'[j]  BY <2>1, <4>1, <4>3
      <4>5. \A k \in DOMAIN sent' : k # i /\ sent'[k] = sent'[j] => k = j
        BY <1>0, <2>1, <4>1, <4>2 DEF ChainOK
      <4>6. obligation'[sent'[j].of] = Settled  BY <1>6, <4>1, <4>2
      <4> QED BY <4>4, <4>5, <4>6
    <3> QED BY <3>1, <3>2
  <2>5. ChainOK'  BY <2>1, <2>3, <2>4 DEF ChainOK
  <2> QED BY <1>0, <1>1, <2>2, <2>5, RecordsGoOn, OpGoesOn DEF ConsoleInv
<1>7. CASE sent' = [sent EXCEPT ![i].result = "REVERTED"] /\ UNCHANGED obligation
  <2>1. /\ sent' \in Seq(PoolTx) /\ DOMAIN sent' = DOMAIN sent
        /\ sent'[i] = [of |-> m, result |-> "REVERTED"]
        /\ \A j \in DOMAIN sent : j # i => sent'[j] = sent[j]
    BY <1>5, <1>7 DEF Results
  <2>2. Onwards  BY <1>1, <1>2, <1>7, <2>1 DEF Onwards
  <2>3. obligation' \in [Members -> {Pending, Settled}]  BY <1>0, <1>7 DEF ChainOK
  <2>4. ASSUME NEW j \in DOMAIN sent', sent'[j].result = "SUCCEEDED", sent'[j].of \in Members
        PROVE  /\ obligation'[sent'[j].of] = Settled
               /\ \A k \in DOMAIN sent' : sent'[k] = sent'[j] => k = j
    <3>1. j # i /\ sent'[j] = sent[j] /\ j \in DOMAIN sent  BY <2>1, <2>4
    <3>2. \A k \in DOMAIN sent' : sent'[k] = sent'[j] => k # i /\ sent[k] = sent[j]
      BY <2>1, <2>4, <3>1
    <3> QED BY <1>0, <1>7, <2>1, <2>4, <3>1, <3>2 DEF ChainOK
  <2>5. ChainOK'  BY <2>1, <2>3, <2>4 DEF ChainOK
  <2> QED BY <1>0, <1>1, <2>2, <2>5, RecordsGoOn, OpGoesOn DEF ConsoleInv
<1> QED BY <1>2, <1>6, <1>7 DEF Accept

-----------------------------------------------------------------------------
(* The screen and the operation under way *)

\* What touches neither the chain nor the records.
LEMMA QuietKeeps ==
  ASSUME ConsoleInv, UNCHANGED <<onchain, txs>>, OpOK' PROVE ConsoleInv'
<1>1. txs' = txs /\ UNCHANGED onchain  OBVIOUS
<1> QED BY <1>1, ChainAtRest, OnwardsAtRest, RecordsGoOn DEF ConsoleInv

\* An operation under way has its fields, and one that ends leaves nothing.
LEMMA IdleOp == op' = Idle => OpOK'  BY DEF OpOK

\* A button starts an operation that is not settled unless its member is.
LEMMA RunKeepsOp ==
  ASSUME ConsoleInv, UNCHANGED onchain, NEW kind \in Kinds, NEW step \in Steps \ {"nonce", "surplus", "wallet"},
         NEW m \in Labels, run(kind, step, m), step = "send" => m \notin Members
  PROVE  OpOK'
<1>1. PICK b : b = (m \in Members /\ obligation[m] = Settled)  OBVIOUS
<1>2. b \in BOOLEAN  BY <1>1
<1>3. op' = [kind |-> kind, step |-> step, m |-> m, hash |-> 0, settled |-> b]  BY <1>1 DEF run
<1>4. op' \in Operation  BY <1>2, <1>3 DEF Operation, Steps
<1>5. op'.settled => op'.m \in Members /\ obligation'[op'.m] = Settled  BY <1>1, <1>3 DEF onchain
<1>6. op'.step \notin {"nonce", "surplus", "wallet"} /\ (op'.step = "send" => ~op'.settled)  BY <1>1, <1>3
<1> QED BY <1>4, <1>5, <1>6 DEF OpOK

\* An operation that goes on is about the same member, whose obligation is as it was.
LEMMA GoKeepsOp ==
  ASSUME ConsoleInv, UNCHANGED onchain, op # Idle,
         NEW step \in Steps \ {"wallet"}, Go(step),
         (op.kind = "contribution" /\ step \in {"nonce", "surplus"}) \/ step = "send" => ~op.settled
  PROVE  OpOK'
<1>1. op \in Operation /\ (op.settled => op.m \in Members /\ obligation[op.m] = Settled)
  BY DEF ConsoleInv, OpOK
<1>2. op' = [kind |-> op.kind, step |-> step, m |-> op.m, hash |-> op.hash, settled |-> op.settled]
  BY <1>1 DEF Go, Operation
<1>3. op' \in Operation  BY <1>1, <1>2 DEF Operation
<1>4. op'.settled => op'.m \in Members /\ obligation'[op'.m] = Settled  BY <1>1, <1>2 DEF onchain
<1> QED BY <1>2, <1>3, <1>4 DEF OpOK

\* No member is the label of a shield.
LEMMA LabelFacts == Shield \in Labels /\ Shield \notin Members /\ Unread \in Labels
  BY ConsoleAssumption DEF Shield, Labels

LEMMA ReadsKeep ==
  ASSUME ConsoleInv,
         \/ Throws \/ refreshFunding \/ onConnect \/ onDisconnect
         \/ onApproveStrk \/ onReadShieldedBalance \/ onLoadCircle
         \/ onShield \/ onContribute
  PROVE  ConsoleInv'
<1>1. CASE Throws \/ refreshFunding
  BY <1>1, IdleOp, QuietKeeps DEF Throws, refreshFunding
<1>2. CASE onDisconnect
  <2>1. UNCHANGED <<onchain, txs>> /\ op' = op  BY <1>2 DEF onDisconnect
  <2>2. OpOK'  BY <2>1, OnwardsAtRest, OpGoesOn DEF ConsoleInv
  <2> QED BY <2>1, <2>2, QuietKeeps
<1>3. CASE onConnect
  <2>1. UNCHANGED <<onchain, txs>> /\ run("connect", "refresh", Unread)  BY <1>3 DEF onConnect
  <2>2. OpOK'  BY <2>1, LabelFacts, RunKeepsOp DEF Kinds, Steps
  <2> QED BY <2>1, <2>2, QuietKeeps
<1>4. CASE onApproveStrk
  <2>1. UNCHANGED <<onchain, txs>> /\ run("approve", "refresh", Unread)  BY <1>4 DEF onApproveStrk
  <2>2. OpOK'  BY <2>1, LabelFacts, RunKeepsOp DEF Kinds, Steps
  <2> QED BY <2>1, <2>2, QuietKeeps
<1>5. CASE onReadShieldedBalance
  <2>1. UNCHANGED <<onchain, txs>>  BY <1>5 DEF onReadShieldedBalance
  <2>2. op' = Idle \/ run("balance", "read", Unread)  BY <1>5 DEF onReadShieldedBalance
  <2>3. OpOK'  BY <2>1, <2>2, IdleOp, LabelFacts, RunKeepsOp DEF Kinds, Steps
  <2> QED BY <2>1, <2>3, QuietKeeps
<1>6. CASE onLoadCircle
  <2>1. UNCHANGED <<onchain, txs>>  BY <1>6 DEF onLoadCircle
  <2>2. \/ op' = Idle
        \/ run("load", "obligations", Unread)
        \/ At("load", "obligations") /\ Go("surplus")
    BY <1>6 DEF onLoadCircle
  <2>3. CASE At("load", "obligations") /\ Go("surplus")
    <3>2. op # Idle  BY <2>3 DEF At, Idle
    <3>3. op.kind # "contribution"  BY <2>3 DEF At
    <3> QED BY <2>1, <2>3, <3>2, <3>3, GoKeepsOp, QuietKeeps DEF Steps
  <2>4. CASE op' = Idle \/ run("load", "obligations", Unread)
    <3>1. OpOK'  BY <2>1, <2>4, IdleOp, LabelFacts, RunKeepsOp DEF Kinds, Steps
    <3> QED BY <2>1, <3>1, QuietKeeps
  <2> QED BY <2>2, <2>3, <2>4
<1>7. CASE onShield
  <2>1. UNCHANGED <<onchain, txs>> /\ run("shield", "send", Shield)  BY <1>7 DEF onShield
  <2>2. OpOK'  BY <2>1, LabelFacts, RunKeepsOp DEF Kinds, Steps
  <2> QED BY <2>1, <2>2, QuietKeeps
<1>8. CASE onContribute
  <2>1. PICK m \in Members : run("contribution", "obligation", m)  BY <1>8 DEF onContribute
  <2>2. UNCHANGED <<onchain, txs>> /\ m \in Labels  BY <1>8 DEF onContribute, Labels
  <2>3. OpOK'  BY <2>1, <2>2, RunKeepsOp DEF Kinds, Steps
  <2> QED BY <2>2, <2>3, QuietKeeps
<1> QED BY <1>1, <1>2, <1>3, <1>4, <1>5, <1>6, <1>7, <1>8

\* The obligation is read again: past this step it was not settled at the press,
\* since a settled obligation stays settled.
LEMMA ContributionForKeeps ==
  ASSUME ConsoleInv, contributionFor PROVE ConsoleInv'
<1>1. UNCHANGED <<onchain, txs>> /\ op.kind = "contribution"  BY DEF contributionFor
<1>2. op # Idle  BY <1>1 DEF Idle
<1>3. /\ op.settled => op.m \in Members /\ obligation[op.m] = Settled
      /\ op.step \in {"nonce", "surplus"} => ~op.settled
  BY <1>1, <1>2 DEF ConsoleInv, OpOK
<1>4. CASE op.step = "obligation" /\ obligation[op.m] = Pending /\ Go("nonce")
  <2>1. ~op.settled  BY <1>3, <1>4 DEF Pending, Settled
  <2> QED BY <1>1, <1>2, <1>4, <2>1, GoKeepsOp, QuietKeeps DEF Steps
<1>5. CASE op.step = "nonce" /\ Go("surplus")
  BY <1>1, <1>2, <1>3, <1>5, GoKeepsOp, QuietKeeps DEF Steps
<1>6. CASE op.step = "surplus" /\ Go("send")
  BY <1>1, <1>2, <1>3, <1>6, GoKeepsOp, QuietKeeps DEF Steps
<1> QED BY <1>4, <1>5, <1>6 DEF contributionFor

LEMMA SubmitKeeps ==
  ASSUME ConsoleInv, submit PROVE ConsoleInv'
<1>1. /\ op # Idle /\ op.step = "send" /\ Send(op.m)
      /\ obligation' = obligation /\ txs' = txs
      /\ op' = [op EXCEPT !.step = "wallet", !.hash = Len(sent')]
  BY DEF submit
<1>2. op \in Operation /\ ~op.settled  BY <1>1 DEF ConsoleInv, OpOK
<1>3. op.m \in Labels  BY <1>2 DEF Operation
<1>4. /\ ChainOK' /\ Onwards
      /\ Len(sent') \in DOMAIN sent' /\ sent'[Len(sent')].of = op.m
  BY <1>1, <1>3, SendEffect DEF ConsoleInv
<1>5. Len(sent') \in Nat
  <2>1. sent' \in Seq(PoolTx)  BY <1>4 DEF ChainOK
  <2> QED BY <2>1, LenProperties, Zenon
<1>6. PICK n : n = Len(sent')  OBVIOUS
<1>7. op' = [kind |-> op.kind, step |-> "wallet", m |-> op.m, hash |-> n, settled |-> op.settled]
  BY <1>1, <1>2, <1>6 DEF Operation
<1>8. op' \in Operation  BY <1>2, <1>5, <1>6, <1>7 DEF Operation, Steps
<1>9. OpOK'  BY <1>2, <1>4, <1>6, <1>7, <1>8 DEF OpOK
<1> QED BY <1>1, <1>4, <1>9, RecordsGoOn DEF ConsoleInv

-----------------------------------------------------------------------------
(* The records *)

\* A record that is of a transaction as it is on the chain may join the others.
LEMMA RecordEffect ==
  ASSUME ConsoleInv, UNCHANGED onchain,
         NEW h \in DOMAIN sent, NEW m \in Labels, NEW v \in Verdicts, Record(h, m, v),
         m \in Members => sent[h].of = m,
         v = "SUCCEEDED" => sent[h].result = "SUCCEEDED"
  PROVE  ChainOK' /\ RecordsOK'
<1>1. ChainOK'  BY ChainAtRest DEF ConsoleInv
<1>2. h \in Nat  BY SentPlaces DEF ConsoleInv
<1>3. RecordsOK /\ sent' = sent  BY DEF ConsoleInv, onchain
<1>4. CASE \E t \in txs : t.hash = h
  <2>1. txs' = txs  BY <1>4 DEF Record
  <2> QED BY <1>1, <2>1, OnwardsAtRest, RecordsGoOn DEF ConsoleInv
<1>5. CASE ~ \E t \in txs : t.hash = h
  <2> DEFINE new == [hash |-> h, label |-> m, verification |-> v]
  <2>1. txs' = txs \cup {new}  BY <1>5 DEF Record
  <2>2. new \in [hash : Nat, label : Labels, verification : Verdicts]  BY <1>2
  <2>3. new.hash = h /\ new.label = m /\ new.verification = v  OBVIOUS
  <2> HIDE DEF new
  <2>4. ASSUME NEW t \in txs' PROVE RecordOK(t)'
    <3>1. RecordOK(t)  BY <1>3, <2>1, <2>3, <2>4 DEF RecordsOK, RecordOK
    <3> QED BY <1>3, <3>1 DEF RecordOK
  <2>5. txs' \subseteq [hash : Nat, label : Labels, verification : Verdicts]
    BY <1>3, <2>1, <2>2 DEF RecordsOK
  <2>6. ASSUME NEW t \in txs', NEW u \in txs', u.hash = t.hash PROVE u = t
    BY <1>3, <1>5, <2>1, <2>3, <2>6 DEF RecordsOK
  <2> QED BY <1>1, <2>4, <2>5, <2>6 DEF RecordsOK
<1> QED BY <1>4, <1>5

LEMMA VerdictFacts ==
  ASSUME ConsoleInv, NEW i \in DOMAIN sent
  PROVE  /\ verifyTransaction(i) \in Verdicts
         /\ verifyTransaction(i) = "SUCCEEDED" => sent[i].result = "SUCCEEDED"
  BY SentPlaces DEF ConsoleInv, verifyTransaction, Verdicts, Results, PoolTx

LEMMA ImportKeeps ==
  ASSUME ConsoleInv, onImportShield PROVE ConsoleInv'
<1>1. UNCHANGED onchain /\ op' = op  BY DEF onImportShield
<1>2. OpOK'  BY <1>1, OnwardsAtRest, OpGoesOn DEF ConsoleInv
<1>3. PICK i \in DOMAIN sent :
        IF verifyShieldTransaction(i) THEN Record(i, Shield, verifyTransaction(i)) ELSE UNCHANGED txs
  BY DEF onImportShield
<1>4. CASE verifyShieldTransaction(i)
  <2>1. Record(i, Shield, verifyTransaction(i))  BY <1>3, <1>4
  <2> QED BY <1>1, <1>2, <2>1, LabelFacts, VerdictFacts, RecordEffect DEF ConsoleInv
<1>5. CASE ~verifyShieldTransaction(i)
  <2>1. txs' = txs  BY <1>3, <1>5
  <2> QED BY <1>1, <1>2, <2>1, QuietKeeps
<1> QED BY <1>4, <1>5

LEMMA RecoverKeeps ==
  ASSUME ConsoleInv, onRecoverContribution PROVE ConsoleInv'
<1>1. UNCHANGED onchain /\ op' = op  BY DEF onRecoverContribution
<1>2. OpOK'  BY <1>1, OnwardsAtRest, OpGoesOn DEF ConsoleInv
<1>3. PICK m \in Members : \E i \in findContributionTransaction(m) : Record(i, m, verifyTransaction(i))
  BY DEF onRecoverContribution
<1>4. PICK i \in findContributionTransaction(m) : Record(i, m, verifyTransaction(i))  BY <1>3
<1>5. i \in DOMAIN sent /\ sent[i].of = m  BY DEF findContributionTransaction
<1>6. m \in Labels  BY DEF Labels
<1> QED BY <1>1, <1>2, <1>4, <1>5, <1>6, VerdictFacts, RecordEffect DEF ConsoleInv

LEMMA SubmittedKeeps ==
  ASSUME ConsoleInv, Submitted PROVE ConsoleInv'
<1>1. op # Idle /\ op.step = "wallet" /\ Record(op.hash, op.m, "none") /\ Go("refresh") /\ UNCHANGED onchain
  BY DEF Submitted
<1>2. op.hash \in DOMAIN sent /\ sent[op.hash].of = op.m  BY <1>1 DEF ConsoleInv, OpOK
<1>3. op.m \in Labels  BY <1>1 DEF ConsoleInv, OpOK, Operation
<1>4. ChainOK' /\ RecordsOK'  BY <1>1, <1>2, <1>3, RecordEffect DEF Verdicts
<1>5. OpOK'  BY <1>1, GoKeepsOp DEF Steps
<1> QED BY <1>4, <1>5 DEF ConsoleInv

\* Verifying changes nothing of a record but its verdict.
LEMMA VerifyKeeps ==
  ASSUME ConsoleInv, onVerifyAll PROVE ConsoleInv'
<1>0. UNCHANGED onchain  BY DEF onVerifyAll
<1>1. CASE At("verify", "obligations") /\ op' = Idle /\ txs' = txs
  BY <1>0, <1>1, IdleOp, QuietKeeps
<1>2. CASE /\ txs' = {[t EXCEPT !.verification = verifyTransaction(t.hash)] : t \in txs}
           /\ IF screen.obligations # Unread THEN run("verify", "obligations", Unread) ELSE UNCHANGED op
  <2>1. OpOK'
    <3>1. CASE run("verify", "obligations", Unread)
      BY <1>0, <3>1, LabelFacts, RunKeepsOp DEF Kinds, Steps
    <3>2. CASE op' = op  BY <1>0, <3>2, OnwardsAtRest, OpGoesOn DEF ConsoleInv
    <3> QED BY <1>2, <3>1, <3>2
  <2>2. RecordsOK /\ sent' = sent  BY <1>0 DEF ConsoleInv, onchain
  <2>3. ASSUME NEW t \in txs
        PROVE  /\ [t EXCEPT !.verification = verifyTransaction(t.hash)]
                    = [hash |-> t.hash, label |-> t.label, verification |-> verifyTransaction(t.hash)]
               /\ t.hash \in DOMAIN sent /\ t.hash \in Nat /\ t.label \in Labels
               /\ t.label \in Members => sent[t.hash].of = t.label
    BY <2>2 DEF RecordsOK, RecordOK
  <2>4. \A u \in txs' : \E t \in txs : u = [t EXCEPT !.verification = verifyTransaction(t.hash)]
    BY <1>2
  <2>5. ASSUME NEW u \in txs'
        PROVE  /\ u \in [hash : Nat, label : Labels, verification : Verdicts]
               /\ RecordOK(u)'
               /\ \A w \in txs' : w.hash = u.hash => w = u
    <3>0. PICK t \in txs : u = [t EXCEPT !.verification = verifyTransaction(t.hash)]  BY <2>4, Zenon
    <3>1. u = [hash |-> t.hash, label |-> t.label, verification |-> verifyTransaction(t.hash)]
      BY <2>3, <3>0, Zenon
    <3>2. /\ verifyTransaction(t.hash) \in Verdicts
          /\ verifyTransaction(t.hash) = "SUCCEEDED" => sent[t.hash].result = "SUCCEEDED"
      BY <2>3, VerdictFacts
    <3>3. u \in [hash : Nat, label : Labels, verification : Verdicts]  BY <2>3, <3>1, <3>2
    <3>4. RecordOK(u)'  BY <2>2, <2>3, <3>1, <3>2 DEF RecordOK
    <3>5. ASSUME NEW w \in txs', w.hash = u.hash PROVE w = u
      <4>0. PICK s \in txs : w = [s EXCEPT !.verification = verifyTransaction(s.hash)]  BY <2>4, Zenon
      <4>1. w = [hash |-> s.hash, label |-> s.label, verification |-> verifyTransaction(s.hash)]
        BY <2>3, <4>0, Zenon
      <4>2. s.hash = t.hash  BY <3>1, <3>5, <4>1
      <4>3. s = t  BY <2>2, <4>2 DEF RecordsOK
      <4> QED BY <3>1, <4>1, <4>3
    <3> QED BY <3>3, <3>4, <3>5
  <2>6. RecordsOK'  BY <2>5 DEF RecordsOK
  <2> QED BY <1>0, <2>1, <2>6, ChainAtRest DEF ConsoleInv
<1> QED BY <1>1, <1>2 DEF onVerifyAll

-----------------------------------------------------------------------------
(* The theorems *)

LEMMA ConsoleInitKeeps == ASSUME ConsoleInit PROVE ConsoleInv
<1> DEFINE shielded == [of |-> Shield, result |-> "SUCCEEDED"]
<1>1. shielded \in PoolTx  BY LabelFacts DEF PoolTx, Results
<1>2. shielded.of \notin Members  BY LabelFacts
<1> HIDE DEF shielded
<1>3. sent \in {<< >>, <<shielded>>}  BY DEF ConsoleInit, shielded
<1>4. sent \in Seq(PoolTx) /\ \A i \in DOMAIN sent : sent[i] = shielded
  <2>1. CASE sent = << >>  BY <2>1
  <2>2. CASE sent = <<shielded>>  BY <1>1, <2>2
  <2> QED BY <1>3, <2>1, <2>2
<1>5. ChainOK  BY <1>2, <1>4 DEF ConsoleInit, ChainOK
<1>6. RecordsOK  BY DEF ConsoleInit, RecordsOK
<1>7. OpOK  BY DEF ConsoleInit, OpOK
<1> QED BY <1>5, <1>6, <1>7 DEF ConsoleInv

\* The chain settles a member's obligation once, by one transaction; what the
\* console recorded is of that transaction and of no other; and an operation that
\* has read the obligation again is not about one that had settled before it.
THEOREM ConsoleInvariant == ConsoleSpec => []ConsoleInv
<1>1. ConsoleInit => ConsoleInv  BY ConsoleInitKeeps
<1>2. ConsoleInv /\ [ConsoleNext]_consolevars => ConsoleInv'
  <2> SUFFICES ASSUME ConsoleInv, [ConsoleNext]_consolevars PROVE ConsoleInv'  OBVIOUS
  <2>1. ASSUME NEW i \in DOMAIN sent, Accept(i) PROVE ConsoleInv'  BY <2>1, AcceptKeeps
  <2>2. CASE UNCHANGED consolevars
    <3>1. UNCHANGED <<onchain, txs>> /\ op' = op  BY <2>2 DEF consolevars
    <3>2. OpOK'  BY <3>1, OnwardsAtRest, OpGoesOn DEF ConsoleInv
    <3> QED BY <3>1, <3>2, QuietKeeps
  <2> QED BY <2>1, <2>2, SentElsewhereKeeps, ReadsKeep, ImportKeeps, RecoverKeeps, VerifyKeeps,
             ContributionForKeeps, SubmitKeeps, SubmittedKeeps DEF ConsoleNext
<1> QED BY <1>1, <1>2, PTL DEF ConsoleSpec

\* Whatever times out, is retried, reverts or is sent from another tab: a
\* transaction that the console records as a confirmed contribution of a member is
\* the one that settled this member's obligation, and no other record says so of
\* the member.
THEOREM ConfirmedIsSettledHolds == ConsoleSpec => []ConfirmedIsSettled
<1>1. ConsoleInv => ConfirmedIsSettled
  <2> SUFFICES ASSUME ConsoleInv, NEW t \in txs, t.verification = "SUCCEEDED", t.label \in Members
      PROVE  /\ obligation[t.label] = Settled
             /\ sent[t.hash].of = t.label /\ sent[t.hash].result = "SUCCEEDED"
             /\ \A u \in txs : u.label = t.label /\ u.verification = "SUCCEEDED" => u = t
    BY DEF ConfirmedIsSettled
  <2>1. /\ t.hash \in DOMAIN sent
        /\ sent[t.hash].of = t.label /\ sent[t.hash].result = "SUCCEEDED"
    BY DEF ConsoleInv, RecordsOK, RecordOK
  <2>2. /\ obligation[t.label] = Settled
        /\ \A j \in DOMAIN sent : sent[j] = sent[t.hash] => j = t.hash
    BY <2>1 DEF ConsoleInv, ChainOK
  <2>3. ASSUME NEW u \in txs, u.label = t.label, u.verification = "SUCCEEDED" PROVE u = t
    <3>1. /\ u.hash \in DOMAIN sent
          /\ sent[u.hash].of = t.label /\ sent[u.hash].result = "SUCCEEDED"
      BY <2>3 DEF ConsoleInv, RecordsOK, RecordOK
    <3>2. sent[u.hash] = sent[t.hash]  BY <2>1, <3>1, SentPlaces DEF ConsoleInv, PoolTx
    <3>3. u.hash = t.hash  BY <2>2, <3>1, <3>2
    <3> QED BY <3>3 DEF ConsoleInv, RecordsOK
  <2> QED BY <2>1, <2>2, <2>3
<1> QED BY <1>1, ConsoleInvariant, PTL

\* The console reads the obligation again between the press of a button and the
\* call of the wallet: nothing is sent for a contribution that had settled when the
\* button was pressed, however old what the screen shows.
THEOREM NothingSentAgainHolds == ConsoleSpec => NothingSentAgain
<1>1. ConsoleInv /\ [ConsoleNext]_consolevars
        => [op # Idle /\ op.step = "send" /\ sent' # sent /\ op' # op => ~op.settled]_consolevars
  BY DEF ConsoleInv, OpOK
<1> QED BY <1>1, ConsoleInvariant, PTL DEF ConsoleSpec, NothingSentAgain

=============================================================================
