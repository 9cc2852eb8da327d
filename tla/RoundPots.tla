------------------------------ MODULE RoundPots ------------------------------
(***************************************************************************)
(* What a savings circle promises about money, without saying how it keeps *)
(* the promise (docs/domain/IWA_INVARIANTS.md INV-003, INV-014, INV-015,   *)
(* INV-023).                                                               *)
(*                                                                         *)
(* There is one pot per circle and round.  A member puts the circle's      *)
(* price into a pot at most once.  A pot gets one owner, who owns no other *)
(* pot of the circle and is never replaced.  The owner takes what is in    *)
(* the pot at most once, all of it, and from then on the pot is closed:    *)
(* nothing goes in, nothing goes out.  Nothing ever moves between pots.    *)
(*                                                                         *)
(* Module IwaCircle implements it: see IwaCirclePots.                      *)
(***************************************************************************)
EXTENDS Naturals

CONSTANTS
  Pots,      \* pairs <<circle, round>>
  Members,
  NoMember

VARIABLES
  price,     \* what one member puts in, 0 until the circle exists
  shares,    \* the members that put in
  owner,
  held,      \* what is in the pot
  taken,     \* what its owner took
  closed     \* pots nobody will touch again

pots == <<price, shares, owner, held, taken, closed>>

Init ==
  /\ price  = [k \in Pots |-> 0]
  /\ shares = [k \in Pots |-> {}]
  /\ owner  = [k \in Pots |-> NoMember]
  /\ held   = [k \in Pots |-> 0]
  /\ taken  = [k \in Pots |-> 0]
  /\ closed = {}

\* A circle is founded: the price of its pots is fixed once.
Found ==
  /\ \A k \in Pots : price'[k] # price[k] => price[k] = 0
  /\ UNCHANGED <<shares, owner, held, taken, closed>>

PutIn(k, m) ==
  /\ k \notin closed
  /\ m \notin shares[k]
  /\ shares' = [shares EXCEPT ![k] = @ \cup {m}]
  /\ held' = [held EXCEPT ![k] = @ + price[k]]
  /\ UNCHANGED <<price, owner, taken, closed>>

Assign(k, m) ==
  /\ owner[k] = NoMember
  /\ \A j \in Pots : j[1] = k[1] => owner[j] # m
  /\ owner' = [owner EXCEPT ![k] = m]
  /\ UNCHANGED <<price, shares, held, taken, closed>>

Take(k) ==
  /\ k \notin closed
  /\ owner[k] # NoMember
  /\ held[k] > 0
  /\ taken' = [taken EXCEPT ![k] = held[k]]
  /\ held' = [held EXCEPT ![k] = 0]
  /\ closed' = closed \cup {k}
  /\ UNCHANGED <<price, shares, owner>>

\* Empty pots are given up, several at a time.
GiveUp ==
  /\ \A k \in closed' : k \notin closed => owner[k] # NoMember /\ held[k] = 0
  /\ closed \subseteq closed'
  /\ UNCHANGED <<price, shares, owner, held, taken>>

Next ==
  \/ Found
  \/ GiveUp
  \/ \E k \in Pots :
       \/ Take(k)
       \/ \E m \in Members : PutIn(k, m) \/ Assign(k, m)

Spec == Init /\ [][Next]_pots
=============================================================================
