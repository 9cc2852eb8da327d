----------------------------- MODULE MCIwaDrafts -----------------------------
(***************************************************************************)
(* Small instances of the drafts of the service.                           *)
(***************************************************************************)
EXTENDS IwaDrafts

\* The organizer asks again for as long as there is no record, some handler
\* takes it up, and the database and the chain answer a reconciliation now and
\* then; every request ends.
ReadForReconcile(h) == requests[h].kind = "reconcile" /\ ReadPlaces(h)

Fairness ==
  /\ \A d \in Drafts : SF_vars(\E h \in Handlers : BeginReconcile(h, d))
  /\ \A h \in Handlers :
       /\ SF_vars(ReadForReconcile(h)) /\ SF_vars(Reconcile(h))
       /\ WF_vars(EndWithoutEffect(h))

LiveSpec == Spec /\ Fairness
=============================================================================
