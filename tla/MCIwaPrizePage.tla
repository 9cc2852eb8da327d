--------------------------- MODULE MCIwaPrizePage ---------------------------
(***************************************************************************)
(* A small instance of the prize page.                                     *)
(***************************************************************************)
EXTENDS IwaPrizePage, TLC

CONSTANTS owner0, a

\* Nobody has tokens: the page shows no amount, and a deposit that moves nothing
\* registers its saver all the same.
MCBalance == (owner0 :> 0) @@ (a :> 0)

\* Bounds: of the slots that show nothing but a gate, one of each kind is followed
\* further, the extension is on the saver's account or on none, and the round is
\* locked before the first tick.
Followed ==
  /\ SlotSound(slot) /\ slot.status # "missing"
  /\ slot.status = "disconnected" => slot = DISCONNECTED
  /\ slot.address # owner0
  /\ lockTimestamp = 0
=============================================================================
