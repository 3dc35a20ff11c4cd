----------------------------- MODULE MCGateway -----------------------------
(* Small instances of Gateway for model checking. *)
EXTENDS Gateway, TLC

\* Requests, texts and OAuth clients are alike.
Symmetry == Permutations(Request) \cup Permutations(Content) \cup Permutations(App)
=============================================================================
