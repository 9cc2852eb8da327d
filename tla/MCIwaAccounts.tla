--------------------------- MODULE MCIwaAccounts ---------------------------
(* Two people on the browsers: one with a Google and an email login of one  *)
(* address, one with another address.                                       *)
EXTENDS IwaAccounts, TLC

CONSTANTS google, email, other, A, B

MCEmailsOf == google :> {A} @@ email :> {A} @@ other :> {B}

Symmetry == Permutations(Handlers) \cup Permutations({google, email})

=============================================================================
