----------------------------- MODULE FactSafety -----------------------------
(***************************************************************************)
(* What the database of one client promises: the invariants and action     *)
(* properties of module FactMemory.                                        *)
(***************************************************************************)
EXTENDS FactMemory

\* Every table holds rows of its schema, and the log respects its bound.
\* (memory/schema.ts)
TypeOK ==
  /\ DOMAIN facts \subseteq FactId
  /\ facts \in [DOMAIN facts -> Fact]
  /\ DOMAIN episodes \subseteq Content
  /\ episodes \in [DOMAIN episodes -> Episode]
  /\ entities \subseteq Key
  /\ audit \in Seq(Entry)
  /\ DOMAIN counters \subseteq Principal
  /\ counters \in [DOMAIN counters -> [window: Nat, count: Nat]]
  /\ clock \in Nat \ {0}

-----------------------------------------------------------------------------
(* The facts table read against itself *)

Granted(r) == r.status \in {"trusted", "superseded"}

\* The columns of a row agree with its status.
RowOK(r) ==
  /\ r.status = "proposed" <=> r.decisionSeq = Null
  /\ Granted(r) <=> r.confirmedAt # Null
  /\ Granted(r) <=> r.confirmedBy[1] # "none"
  /\ r.status = "rejected" <=> r.rejectedAt # Null
  /\ r.status = "superseded" <=> r.supersededSeq # Null
  /\ r.status = "superseded" <=> r.supersededAt # Null
  /\ r.status = "superseded" <=> r.supersededBy # NoFact
  /\ r.validTo # Null => r.validTo > r.validFrom

\* f and g are both granted, and g's later decision closes f.
ClosedLater(fs, f, g) ==
  /\ Granted(fs[f]) /\ Granted(fs[g])
  /\ Closes(fs, g, f)
  /\ fs[f].decisionSeq < fs[g].decisionSeq

\* A superseded fact names the decision that closed it.
CloserOK(fs, f) ==
  fs[f].status = "superseded" =>
    /\ fs[f].supersededBy \in DOMAIN fs
    /\ ClosedLater(fs, f, fs[f].supersededBy)
    /\ fs[f].supersededSeq = fs[fs[f].supersededBy].decisionSeq
    /\ fs[f].supersededAt = fs[fs[f].supersededBy].confirmedAt

\* Whatever a later decision closes is closed, no later than that decision.
ClosedInTime(fs, f, g) ==
  ClosedLater(fs, f, g) => /\ fs[f].status = "superseded"
                           /\ fs[f].supersededSeq <= fs[g].decisionSeq

RowsAgree(fs) ==
  \A f \in DOMAIN fs :
    /\ RowOK(fs[f])
    /\ CloserOK(fs, f)
    /\ \A g \in DOMAIN fs : ClosedInTime(fs, f, g)

\* Evidence, entities, search text and queue rows exist for every fact, and
\* for every part of every episode.
ReferencesOK ==
  /\ \A f \in DOMAIN facts :
       /\ {facts[f].subject, facts[f].object} \subseteq entities
       /\ facts[f].evidence # {}
       /\ facts[f].evidence \subseteq DOMAIN episodes
  /\ queue = Rows("fact", DOMAIN facts)
               \cup UNION {Rows("episode", PartRefs(c)) : c \in DOMAIN episodes}
  /\ fts = queue \cup Rows("entity", entities)

-----------------------------------------------------------------------------
(* The facts table read against the audit log *)

IsRollback(e) == e.action = "audit.rollback"
IsRejection(e) == e.action = "fact.reject"
IsDecision(e) == e.grants \/ IsRejection(e)

\* Entry i of the log is a decision no later rollback undoes.
Standing(log, i) ==
  /\ i \in DOMAIN log
  /\ IsDecision(log[i])
  /\ \A j \in DOMAIN log :
       j > i /\ IsRollback(log[j]) => i <= log[j].toSeq

\* The standing grants after entry i that close what entry i trusted.
ClosersInLog(log, i) ==
  {j \in DOMAIN log : /\ j > i
                      /\ Standing(log, j) /\ log[j].grants
                      /\ Closes(facts, log[j].target, log[i].target)}

\* The status the log alone gives to fact f.
StatusInLog(log, f) ==
  IF \E i \in DOMAIN log :
       Standing(log, i) /\ log[i].target = f /\ IsRejection(log[i])
  THEN "rejected"
  ELSE IF \E i \in DOMAIN log :
            /\ Standing(log, i) /\ log[i].target = f /\ log[i].grants
            /\ ClosersInLog(log, i) = {}
  THEN "trusted"
  ELSE IF \E i \in DOMAIN log :
            Standing(log, i) /\ log[i].target = f /\ log[i].grants
  THEN "superseded"
  ELSE "proposed"

\* The decision columns of every fact name its one standing decision, made at
\* the time and by the kind of entry the columns say.
DecisionsAgree(fs, log) ==
  /\ \A f \in DOMAIN fs : fs[f].decisionSeq # Null =>
       LET i == fs[f].decisionSeq
       IN /\ Standing(log, i)
          /\ log[i].target = f
          /\ Granted(fs[f]) => log[i].grants /\ log[i].at = fs[f].confirmedAt
          /\ fs[f].status = "rejected" => IsRejection(log[i])
  /\ \A i \in DOMAIN log : Standing(log, i) =>
       log[i].target \in DOMAIN fs /\ fs[log[i].target].decisionSeq = i

\* The log runs forward in time, and a rollback names an entry before it.
LogForward(log, now) ==
  \A i \in DOMAIN log :
    /\ log[i].at \in 1 .. now
    /\ IsRollback(log[i]) => log[i].toSeq < i /\ ~IsDecision(log[i])
    /\ ~(log[i].grants /\ IsRejection(log[i]))
    /\ \A j \in DOMAIN log : i < j => log[i].at <= log[j].at

\* The inductive invariant: what the table says agrees with what the log says.
IInv ==
  /\ TypeOK
  /\ LogForward(audit, clock)
  /\ RowsAgree(facts)
  /\ DecisionsAgree(facts, audit)

-----------------------------------------------------------------------------
(* Safety *)

\* What a fact says: the three columns every supersession compares.
ClaimOf(r) == [subject |-> r.subject, predicate |-> r.predicate, object |-> r.object]

\* The facts table is a view of the audit log: after any interleaving of
\* writes, reviews and rollbacks, each fact has the status, and the closing
\* sequence number, that replaying the log's standing decisions gives it.
\* (facts.ts markTrusted and applySupersession, review.ts rollbackTo)
TrustFromLog ==
  \A f \in DOMAIN facts :
    /\ facts[f].status = StatusInLog(audit, f)
    /\ facts[f].status = "superseded" =>
         LET closers == ClosersInLog(audit, facts[f].decisionSeq)
         IN /\ facts[f].supersededSeq \in closers
            /\ \A j \in closers : facts[f].supersededSeq <= j

\* Two facts are never trusted together when the later decision closes the
\* earlier fact: in particular no claim is trusted with two validity windows,
\* and a remediation and the vulnerability it remedies are never both trusted.
NoContradiction ==
  \A f, g \in DOMAIN facts :
    /\ facts[f].status = "trusted"
    /\ facts[g].status = "trusted"
    /\ Closes(facts, g, f)
    => facts[g].decisionSeq < facts[f].decisionSeq

\* One claim (subject, predicate, object) has at most one trusted fact.
OneTrustedPerClaim ==
  \A f, g \in DOMAIN facts :
    /\ facts[f].status = "trusted"
    /\ facts[g].status = "trusted"
    /\ ClaimOf(facts[f]) = ClaimOf(facts[g])
    => f = g

\* Until a rollback, asserting a claim with the same expiry again never
\* opens a second row for it: it corroborates the open one.  (A rollback can
\* reopen a rejected proposal beside the one asserted after the rejection.)
OneOpenPerClaim ==
  (\A i \in DOMAIN audit : ~IsRollback(audit[i])) =>
    \A f, g \in DOMAIN facts :
      /\ {facts[f].status, facts[g].status} \subseteq {"proposed", "trusted"}
      /\ ClaimOf(facts[f]) = ClaimOf(facts[g])
      /\ facts[f].validTo = facts[g].validTo
      => f = g

-----------------------------------------------------------------------------
(* What a step may never do *)

\* The sequence number a step rolls back to, when it appends a rollback.
Rollback(t) ==
  /\ Len(audit') = Len(audit) + 1
  /\ IsRollback(audit'[Len(audit')])
  /\ audit'[Len(audit')].toSeq = t

AnyRollback == \E t \in 0 .. Len(audit) : Rollback(t)

\* Rolling back to entry t gives every fact the status it had just after
\* entry t, unless a rollback recorded since then undid decisions up to t.
\* (review.ts rollbackTo)
RestoresUnlessUndone ==
  \A t \in 0 .. Len(audit) :
    /\ Rollback(t)
    /\ \A j \in DOMAIN audit : j > t /\ IsRollback(audit[j]) => audit[j].toSeq >= t
    => \A f \in DOMAIN facts :
         facts'[f].status = StatusInLog(SubSeq(audit, 1, t), f)
RollbackRestores == [][RestoresUnlessUndone]_vars

\* The same without the condition: docs/design.md says that rollback
\* restores the prior trusted set.
RestoresAlways ==
  \A t \in 0 .. Len(audit) :
    Rollback(t) =>
      \A f \in DOMAIN facts :
        facts'[f].status = "trusted"
          <=> StatusInLog(SubSeq(audit, 1, t), f) = "trusted"
RollbackRestoresAlways == [][RestoresAlways]_vars

\* A fact becomes trusted only by a confirmation on the review page, as that
\* page and its handler's comment say.  (web/review.ts)
TrustByReview ==
  \A f \in DOMAIN facts' :
    /\ facts'[f].status = "trusted"
    /\ f \notin DOMAIN facts \/ facts[f].status # "trusted"
    => audit'[Len(audit')].action = "fact.confirm"
TrustOnlyByReview == [][TrustByReview]_vars

\* CURRENT_AT: a query as of time t shows the fact of row r.
ShownAt(r, t) ==
  /\ \/ r.status = "trusted"
     \/ r.status = "superseded" /\ r.supersededAt > t
  /\ r.confirmedAt <= t
  /\ r.validFrom <= t
  /\ r.validTo = Null \/ r.validTo > t

CurrentAt(t) == {f \in DOMAIN facts : ShownAt(facts[f], t)}

\* The past is stable: no write and no review changes what a query as of an
\* earlier time shows, and a rollback to entry t changes it only from the
\* time of the first undone entry on.  (factView.ts CURRENT_AT)
KeepsThePast ==
  \A tau \in 1 .. clock :
    /\ tau < clock
    /\ \A t \in 0 .. Len(audit) :
         Rollback(t) => t = Len(audit) \/ tau < audit[t + 1].at
    => CurrentAt(tau)' = CurrentAt(tau)
PastIsStable == [][KeepsThePast]_vars

-----------------------------------------------------------------------------
(* The write limit *)

IsWrite(e) == e.action \in {"episode.record", "fact.assert", "fact.corroborate"}

\* The writes of a principal that the log shows in a window.
WritesOf(p, w) ==
  {i \in DOMAIN audit : /\ IsWrite(audit[i])
                        /\ audit[i].actor = p
                        /\ WindowAt(audit[i].at) = w}

\* The log never shows more writes of a principal in one window than the
\* limit.  Whoever it shows writes of has a counter, which is never left at an
\* earlier window than one of them and has counted every write logged in its
\* own.  (limits.ts consumeWrite)
WriteBudget ==
  \A p \in Principal, w \in {WindowAt(audit[i].at) : i \in DOMAIN audit} :
    LET written == Cardinality(WritesOf(p, w))
    IN /\ written <= WritesPerMinute
       /\ written > 0 => p \in DOMAIN counters /\ counters[p].window >= w
       /\ p \in DOMAIN counters /\ counters[p].window = w => written <= counters[p].count
=============================================================================
