--------------------------- MODULE MCIwaDashboard ---------------------------
(***************************************************************************)
(* The instance of IwaDashboard for TLC.  An answer to a poll is read by   *)
(* the organizer's page only, and a report by the operator's screen only:  *)
(* neither waits while the other is being put together or shown.           *)
(***************************************************************************)
EXTENDS IwaDashboard

PollsApart ==
  poll' # NoDraft => state'.kind \in {"idle", "failed"} /\ \A r \in Reads : overview'[r] = NotAsked

MCDashSpec == DashInit /\ [][DashNext /\ PollsApart]_dashvars
=============================================================================
