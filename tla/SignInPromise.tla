--------------------------- MODULE SignInPromise ---------------------------
(***************************************************************************)
(* What signing in promises, without cookies, stored values or requests:   *)
(* an application receives a grant only after the form of a consent page   *)
(* shown for it was sent back approved, for a person the identity provider *)
(* vouched for, and each sign-in at the provider is used at most once.     *)
(* The browser that sends the form need not be the one that was shown it.  *)
(***************************************************************************)
CONSTANTS Browser, App, Person, Code

VARIABLES
  shown,    \* pairs of a browser and an application it was asked about
  agreed,   \* pairs of a browser and an application whose form it approved
  vouched,  \* pairs of a provider's code and the person it stands for
  spent,    \* codes that were exchanged
  granted   \* grants made: the application, the person, the code used

vars == <<shown, agreed, vouched, spent, granted>>

Init ==
  /\ shown = {}
  /\ agreed = {}
  /\ vouched = {}
  /\ spent = {}
  /\ granted = {}

Show(b, a) ==
  /\ shown' = shown \cup {<<b, a>>}
  /\ UNCHANGED <<agreed, vouched, spent, granted>>

Agree(b, a) ==
  /\ \E q \in Browser : <<q, a>> \in shown
  /\ agreed' = agreed \cup {<<b, a>>}
  /\ UNCHANGED <<shown, vouched, spent, granted>>

\* The provider never issues a code twice.
Vouch(c, p) ==
  /\ \A q \in Person : <<c, q>> \notin vouched
  /\ vouched' = vouched \cup {<<c, p>>}
  /\ UNCHANGED <<shown, agreed, spent, granted>>

Spend(c) ==
  /\ c \notin spent
  /\ spent' = spent \cup {c}
  /\ UNCHANGED <<shown, agreed, vouched, granted>>

Grant(a, p, c) ==
  /\ \E b \in Browser : <<b, a>> \in agreed
  /\ <<c, p>> \in vouched
  /\ c \in spent
  /\ \A g \in granted : g.code # c
  /\ granted' = granted \cup {[app |-> a, who |-> p, code |-> c]}
  /\ UNCHANGED <<shown, agreed, vouched, spent>>

Next ==
  \/ \E b \in Browser, a \in App : Show(b, a) \/ Agree(b, a)
  \/ \E c \in Code, p \in Person : Vouch(c, p)
  \/ \E c \in Code : Spend(c)
  \/ \E a \in App, p \in Person, c \in Code : Grant(a, p, c)

Spec == Init /\ [][Next]_vars
=============================================================================
