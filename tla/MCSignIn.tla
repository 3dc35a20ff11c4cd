------------------------------ MODULE MCSignIn ------------------------------
(* A small instance of SignIn for model checking. *)
EXTENDS SignIn, FiniteSets, TLC

\* Browsers, identifiers of one kind, requests, applications, people and codes
\* are alike.
Symmetry == Permutations(Browser) \cup Permutations(ConsentId)
              \cup Permutations(SignInId) \cup Permutations(Request)
              \cup Permutations(App) \cup Permutations(Person) \cup Permutations(Code)

\* The browsers that opened a page, sent a form or came back from the provider.
TookPart ==
  {kv[i].browser : i \in {j \in Id : kv[j] # None}}
    \cup {req[r].browser : r \in {q \in Request : req[q] # Idle}}
    \cup {ba[1] : ba \in agreed} \cup {l.browser : l \in logins}

\* Bound: while a second browser takes part the clock stands still, and one
\* value less is stored.
Bounded ==
  Cardinality(TookPart) > 1 =>
    /\ clock = 1
    /\ \E i \in Id : kv[i] = None

MCNext == Next /\ Bounded'

MCSpec == Init /\ [][MCNext]_vars
=============================================================================
