---------------------------- MODULE TrustLedger ----------------------------
(***************************************************************************)
(* What the memory promises about trust, without tables or columns: people *)
(* decide on claims one after the other, an undo takes back the latest     *)
(* decisions, and the trusted facts are always those that were granted and *)
(* that no later grant closes.  FactMemory is shown to implement this.     *)
(***************************************************************************)
EXTENDS Naturals

CONSTANTS
  FactId,
  Claim,     \* what a fact says
  Closing    \* pairs <<b, a>>: granting a claim b closes a claim a

VARIABLES
  claims,    \* the claim of each fact put forward so far
  ledger,    \* the standing decisions: records of rank, fact and verdict
  trusted    \* the facts shown as trusted

tvars == <<claims, ledger, trusted>>

Verdict == {"grant", "reject"}

\* d is a grant, and no later grant of another fact closes its claim.
Prevails(cs, ds, d) ==
  /\ d.verdict = "grant"
  /\ \A e \in ds :
       e.verdict = "grant" /\ e.rank > d.rank /\ e.fact # d.fact
         => <<cs[e.fact], cs[d.fact]>> \notin Closing

Prevailing(cs, ds) == {d.fact : d \in {e \in ds : Prevails(cs, ds, e)}}

Undecided(f) == \A d \in ledger : d.fact # f

Adds(cs, f, c) == [g \in DOMAIN cs \cup {f} |-> IF g = f THEN c ELSE cs[g]]

\* The next decision on f: it ranks after every standing one.
Records(d, f) ==
  /\ d.fact = f
  /\ d.verdict \in Verdict
  /\ \A e \in ledger : e.rank < d.rank
  /\ ledger' = ledger \cup {d}

TInit ==
  /\ claims = << >>
  /\ ledger = {}
  /\ trusted = {}

\* A new fact is put forward.
Propose(f, c) ==
  /\ f \notin DOMAIN claims
  /\ claims' = Adds(claims, f, c)
  /\ UNCHANGED <<ledger, trusted>>

\* A new fact is put forward and granted in the same step.
ProposeGranted(f, c) ==
  /\ f \notin DOMAIN claims
  /\ claims' = Adds(claims, f, c)
  /\ \E d \in ledger' : d.verdict = "grant" /\ Records(d, f)
  /\ trusted' = Prevailing(claims', ledger')

\* A fact in the review queue is decided.
Decide(f) ==
  /\ f \in DOMAIN claims
  /\ Undecided(f)
  /\ \E d \in ledger' : Records(d, f)
  /\ trusted' = Prevailing(claims', ledger')
  /\ UNCHANGED claims

\* The latest decisions are taken back.
Undo ==
  /\ ledger' \subseteq ledger
  /\ \A d \in ledger', e \in ledger \ ledger' : d.rank < e.rank
  /\ trusted' = Prevailing(claims', ledger')
  /\ UNCHANGED claims

TNext ==
  \/ \E f \in FactId, c \in Claim : Propose(f, c) \/ ProposeGranted(f, c)
  \/ \E f \in FactId : Decide(f)
  \/ Undo

TSpec == TInit /\ [][TNext]_tvars
=============================================================================
