---------------------------- MODULE FactPromises ----------------------------
(***************************************************************************)
(* What the facts table promises beyond its inductive invariant: the past  *)
(* keeps its answers, nothing a fact refers to is missing, a claim has one *)
(* open row, a rollback restores, the table implements TrustLedger, the    *)
(* write limit holds, and a claim's history is complete.                   *)
(***************************************************************************)
EXTENDS FactInvariance, FactQueries, FiniteSetTheorems

\* Rows that are shown at tau before and after a step are the same.
LEMMA SameShown ==
  ASSUME NEW tau \in Nat,
         DOMAIN facts \subseteq DOMAIN facts',
         \A f \in DOMAIN facts : ShownAt(facts'[f], tau) <=> ShownAt(facts[f], tau),
         \A f \in DOMAIN facts' : f \notin DOMAIN facts => ~ShownAt(facts'[f], tau)
  PROVE  CurrentAt(tau)' = CurrentAt(tau)
BY DEF CurrentAt

\* A grant made now shows nothing new of the past, and hides nothing of it.
LEMMA GrantKeepsPast ==
  ASSUME NEW D \in SUBSET FactId, NEW fs \in [D -> Fact], NEW g \in D,
         NEW by \in Granter, NEW now \in Nat, NEW seq \in Nat,
         fs[g].status = "proposed"
  PROVE  \A tau \in Nat, f \in D : tau < now =>
           (ShownAt(MarkTrusted(fs, g, by, now, seq)[f], tau) <=> ShownAt(fs[f], tau))
<1> SUFFICES ASSUME NEW f \in D
             PROVE  \A tau \in Nat : tau < now =>
                      (ShownAt(MarkTrusted(fs, g, by, now, seq)[f], tau)
                         <=> ShownAt(fs[f], tau))
  OBVIOUS
<1> DEFINE mt == MarkTrusted(fs, g, by, now, seq)
           q == SupersededRow(fs[f], g, now, seq)
           row == TrustedRow(fs[f], by, now, seq)
<1>1. fs[g] \in Fact /\ fs[f] \in Fact /\ g \in FactId /\ f \in DOMAIN fs /\ g \in DOMAIN fs
  OBVIOUS
<1>2. /\ TrustedRow(fs[g], by, now, seq).subject = fs[g].subject
      /\ TrustedRow(fs[g], by, now, seq).predicate = fs[g].predicate
      /\ TrustedRow(fs[g], by, now, seq).object = fs[g].object
  BY <1>1 DEF TrustedRow, Fact
<1>3. /\ f = g => mt[f] = row
      /\ fs[f].status = "trusted" /\ Closes(fs, g, f) => mt[f] = q
      /\ f # g /\ ~(fs[f].status = "trusted" /\ Closes(fs, g, f)) => mt[f] = fs[f]
  BY <1>1, <1>2, MarkTrustedAt
<1>4. row.confirmedAt = now
  BY <1>1, TrustedRowFields
<1>5. /\ q.status = "superseded" /\ q.supersededAt = now
      /\ q.confirmedAt = fs[f].confirmedAt
      /\ q.validTo = fs[f].validTo /\ q.validFrom = fs[f].validFrom
  BY <1>1, SupersededRowFields
<1> HIDE DEF q, row
<1>6. CASE f = g
  BY <1>3, <1>4, <1>6 DEF ShownAt
<1>7. CASE fs[f].status = "trusted" /\ Closes(fs, g, f)
  BY <1>3, <1>5, <1>7 DEF ShownAt
<1>8. CASE f # g /\ ~(fs[f].status = "trusted" /\ Closes(fs, g, f))
  BY <1>3, <1>8
<1> QED
  BY <1>6, <1>7, <1>8

\* A rollback to entry t leaves what was shown before its first undone entry.
LEMMA RollbackKeepsPast ==
  ASSUME IInv, NEW t \in 0 .. Len(audit), facts' = RolledBack(facts, t),
         NEW tau \in Nat, t = Len(audit) \/ tau < audit[t + 1].at,
         NEW f \in DOMAIN facts
  PROVE  ShownAt(facts'[f], tau) <=> ShownAt(facts[f], tau)
<1> DEFINE D == DOMAIN facts
           d == facts[f].decisionSeq
<1>1. /\ D \in SUBSET FactId /\ facts \in [D -> Fact]
      /\ RowsAgree(facts) /\ t \in Nat /\ audit \in Seq(Entry)
  BY SMTT(30) DEF IInv, TypeOK
<1>1a. /\ Len(audit) \in Nat /\ DOMAIN audit = 1 .. Len(audit)
       /\ \A i \in DOMAIN audit : audit[i].at \in Nat
  <2>1. Len(audit) \in Nat /\ DOMAIN audit = 1 .. Len(audit)
    BY <1>1
  <2>2. \A i \in DOMAIN audit : audit[i] \in Entry
    BY <1>1
  <2> QED
    BY <2>1, <2>2 DEF Entry
<1>1b. /\ facts[f] \in Fact /\ facts[f].supersededSeq \in Nat
       /\ facts[f].confirmedAt \in Nat /\ facts[f].supersededAt \in Nat
  BY <1>1 DEF Fact
<1>1c. PICK q : q = facts'[f]
  OBVIOUS
<1> SUFFICES ShownAt(q, tau) <=> ShownAt(facts[f], tau)
  BY <1>1c
<1>2. /\ d > t => q.status = "proposed"
      /\ d <= t /\ facts[f].supersededSeq > t =>
           facts[f].status = "superseded" /\ q = ReopenedRow(facts[f])
      /\ d <= t /\ facts[f].supersededSeq <= t => q = facts[f]
  <2> DEFINE gs == RolledBack(facts, t)
  <2>1. \A h \in D :
          /\ facts[h].decisionSeq > t => gs[h].status = "proposed"
          /\ facts[h].decisionSeq <= t /\ facts[h].supersededSeq > t =>
               facts[h].status = "superseded" /\ gs[h] = ReopenedRow(facts[h])
          /\ facts[h].decisionSeq <= t /\ facts[h].supersededSeq <= t =>
               gs[h] = facts[h]
    BY <1>1, RolledBackRows
  <2>2. q = gs[f] /\ f \in D
    BY <1>1c
  <2> HIDE DEF gs, D
  <2> QED
    BY <2>1, <2>2
<1>3. d \in 0 .. Len(audit)
  BY Numbered
<1>4. \A i \in DOMAIN audit : i > t => audit[i].at > tau
  <2> SUFFICES ASSUME NEW i \in DOMAIN audit, i > t PROVE audit[i].at > tau
    OBVIOUS
  <2>1. t + 1 \in DOMAIN audit /\ tau < audit[t + 1].at
    BY <1>1, <1>1a
  <2>2. audit[t + 1].at <= audit[i].at
    <3>1. t + 1 = i \/ t + 1 < i
      BY <1>1, <1>1a
    <3>2. audit[t + 1].at \in Nat /\ audit[i].at \in Nat
      BY <1>1, <1>1a, <1>1b, <2>1
    <3> QED
      BY <2>1, <3>1, <3>2 DEF IInv, LogForward
  <2>3. audit[t + 1].at \in Nat /\ audit[i].at \in Nat
    BY <1>1, <1>1a, <1>1b, <2>1
  <2> QED
    BY <2>1, <2>2, <2>3
<1>5. CASE d > t
  <2>1. ~ShownAt(q, tau)
    BY <1>2, <1>5 DEF ShownAt
  <2>2. Granted(facts[f]) => facts[f].confirmedAt > tau
    BY <1>4, <1>5, GrantOfFact
  <2>3. ~ShownAt(facts[f], tau)
    BY <1>1, <1>1a, <1>1b, <2>2 DEF ShownAt, Granted
  <2> QED
    BY <2>1, <2>3
<1>6. CASE d <= t /\ facts[f].supersededSeq > t
  <2> DEFINE h == facts[f].supersededBy
  <2>1. facts[f].status = "superseded" /\ q = ReopenedRow(facts[f])
    BY <1>2, <1>6
  <2>2. /\ q.status = "trusted"
        /\ q.confirmedAt = facts[f].confirmedAt
        /\ q.validTo = facts[f].validTo /\ q.validFrom = facts[f].validFrom
    BY <1>1, <1>1a, <1>1b, <2>1, ReopenedRowFields
  <2>3. /\ h \in DOMAIN facts /\ ClosedLater(facts, f, h)
        /\ facts[f].supersededSeq = facts[h].decisionSeq
        /\ facts[f].supersededAt = facts[h].confirmedAt
    BY <2>1 DEF IInv, RowsAgree, CloserOK
  <2>4. facts[f].supersededAt > tau
    BY <1>4, <1>6, <2>3, GrantOfFact DEF ClosedLater
  <2> HIDE DEF h
  <2> QED
    BY <2>1, <2>2, <2>4 DEF ShownAt
<1>7. CASE d <= t /\ facts[f].supersededSeq <= t
  BY <1>2, <1>7
<1> QED
  BY <1>1, <1>1a, <1>1b, <1>3, <1>5, <1>6, <1>7

\* A step that keeps all that ShownAt reads of every fact.
LEMMA SameRowsKeepPast ==
  ASSUME NEW r, NEW q, NEW tau \in Nat,
         r.status = q.status, r.confirmedAt = q.confirmedAt,
         r.supersededAt = q.supersededAt,
         r.validFrom = q.validFrom, r.validTo = q.validTo
  PROVE  ShownAt(r, tau) <=> ShownAt(q, tau)
BY DEF ShownAt

\* A new fact changes no earlier view.
LEMMA AssertNewKeepsPast ==
  ASSUME IInv, NEW who \in Principal, NEW origin \in FactOrigin,
         NEW s \in Key, NEW p \in Predicate, NEW o \in Key,
         NEW vf \in Nat, NEW vt \in Nat, NEW c \in Content, NEW f \in FactId,
         AssertNew(who, origin, s, p, o, vf, vt, c, f),
         NEW tau \in Nat, tau < clock
  PROVE  CurrentAt(tau)' = CurrentAt(tau)
<1> DEFINE trusts == InitialStatus(origin) = "trusted"
           row == NewFact(s, p, o, vf, vt, c, origin, who)
           added == AddFact(facts, f, row)
           D == DOMAIN facts \cup {f}
           by == <<"allowlist", who>>
<1>1. /\ f \notin DOMAIN facts /\ DOMAIN facts \in SUBSET FactId
      /\ facts \in [DOMAIN facts -> Fact] /\ RowsAgree(facts)
      /\ clock \in Nat /\ NextSeq \in Nat /\ by \in Granter
      /\ D \in SUBSET FactId /\ f \in D
  BY DEF IInv, TypeOK, AssertNew, Granter, NextSeq
<1>2. /\ trusts => facts' = MarkTrusted(added, f, by, clock, NextSeq)
      /\ ~trusts => facts' = added
  BY DEF AssertNew
<1>3. row \in Fact /\ RowOK(row) /\ row.status = "proposed"
  BY <1>1, NewFactRow DEF AssertNew
<1> HIDE DEF row, trusts, by
<1>4. added \in [D -> Fact]
  BY <1>1, <1>3, AddFactKeepsRows
<1>5. added[f] = row /\ \A h \in DOMAIN facts : added[h] = facts[h]
  BY <1>1 DEF AddFact
<1> HIDE DEF added
<1>6. facts' \in [D -> Fact]
      /\ \A h \in D : ShownAt(facts'[h], tau) <=> ShownAt(added[h], tau)
  <2>1. CASE trusts
    <3>1. facts' = MarkTrusted(added, f, by, clock, NextSeq)
      BY <1>2, <2>1
    <3>2. added[f].status = "proposed"
      BY <1>3, <1>5
    <3> HIDE DEF D
    <3>3. MarkTrusted(added, f, by, clock, NextSeq) \in [D -> Fact]
      BY <1>1, <1>4, MarkTrustedRows
    <3>4. \A h \in D : ShownAt(MarkTrusted(added, f, by, clock, NextSeq)[h], tau)
                         <=> ShownAt(added[h], tau)
      BY <1>1, <1>4, <3>2, GrantKeepsPast
    <3> QED
      BY <3>1, <3>3, <3>4
  <2>2. CASE ~trusts
    BY <1>2, <1>4, <2>2
  <2> QED
    BY <2>1, <2>2
<1>7. ~ShownAt(added[f], tau)
  BY <1>3, <1>5 DEF ShownAt
<1>8. DOMAIN facts' = D
  BY <1>6
<1> QED
  BY <1>1, <1>5, <1>6, <1>7, <1>8, SameShown

\* Another piece of evidence changes no earlier view.
LEMMA CorroborateKeepsPast ==
  ASSUME IInv, NEW who \in Principal, NEW origin \in FactOrigin,
         NEW s \in Key, NEW p \in Predicate, NEW o \in Key,
         NEW vf \in Nat, NEW vt \in Nat, NEW c \in Content, NEW f \in FactId,
         Corroborate(who, origin, s, p, o, vf, vt, c, f),
         NEW tau \in Nat, tau < clock
  PROVE  CurrentAt(tau)' = CurrentAt(tau)
<1> DEFINE promote == /\ facts[f].status = "proposed"
                      /\ InitialStatus(origin) = "trusted"
           seen == AddEvidence(facts, f, c)
           D == DOMAIN facts
           by == <<"allowlist", who>>
<1>1. /\ f \in D /\ D \in SUBSET FactId
      /\ facts \in [D -> Fact]
      /\ clock \in Nat /\ NextSeq \in Nat /\ by \in Granter
  BY DEF IInv, TypeOK, Corroborate, Existing, Matching, Granter, NextSeq
<1>2. /\ promote => facts' = MarkTrusted(seen, f, by, clock, NextSeq)
      /\ ~promote => facts' = seen
      /\ promote => facts[f].status = "proposed"
  BY DEF Corroborate
<1> HIDE DEF promote, by
<1>3. /\ seen \in [D -> Fact]
      /\ \A h \in D : h # f => seen[h] = facts[h]
      /\ seen[f].status = facts[f].status
      /\ seen[f].confirmedAt = facts[f].confirmedAt
      /\ seen[f].supersededAt = facts[f].supersededAt
      /\ seen[f].validTo = facts[f].validTo
      /\ seen[f].validFrom = facts[f].validFrom
  BY <1>1, AddEvidenceRows
<1> HIDE DEF seen
<1>4. \A h \in D : ShownAt(seen[h], tau) <=> ShownAt(facts[h], tau)
  BY <1>1, <1>3 DEF ShownAt
<1>5. facts' \in [D -> Fact]
      /\ \A h \in D : ShownAt(facts'[h], tau) <=> ShownAt(seen[h], tau)
  <2>1. CASE promote
    <3>1. facts' = MarkTrusted(seen, f, by, clock, NextSeq)
      BY <1>2, <2>1
    <3>2. seen[f].status = "proposed"
      BY <1>2, <1>3, <2>1
    <3> HIDE DEF D
    <3>3. MarkTrusted(seen, f, by, clock, NextSeq) \in [D -> Fact]
      BY <1>1, <1>3, MarkTrustedRows
    <3>4. \A h \in D : ShownAt(MarkTrusted(seen, f, by, clock, NextSeq)[h], tau)
                         <=> ShownAt(seen[h], tau)
      BY <1>1, <1>3, <3>2, GrantKeepsPast
    <3> QED
      BY <3>1, <3>3, <3>4
  <2>2. CASE ~promote
    BY <1>2, <1>3, <2>2
  <2> QED
    BY <2>1, <2>2
<1>6. DOMAIN facts' = D
  BY <1>5
<1> QED
  BY <1>4, <1>5, <1>6, SameShown

\* A confirmation changes no earlier view.
LEMMA ConfirmKeepsPast ==
  ASSUME IInv, NEW r \in Reviewer, NEW f \in FactId, ConfirmFact(r, f),
         NEW tau \in Nat, tau < clock
  PROVE  CurrentAt(tau)' = CurrentAt(tau)
<1> DEFINE by == <<"review", r>>
           D == DOMAIN facts
<1>1. /\ f \in D /\ D \in SUBSET FactId
      /\ facts \in [D -> Fact] /\ facts[f].status = "proposed"
      /\ clock \in Nat /\ NextSeq \in Nat /\ by \in Granter
      /\ facts' = MarkTrusted(facts, f, by, clock, NextSeq)
  BY DEF IInv, TypeOK, ConfirmFact, Granter, NextSeq
<1> HIDE DEF by
<1>2. MarkTrusted(facts, f, by, clock, NextSeq) \in [D -> Fact]
  BY <1>1, MarkTrustedRows
<1>3. \A h \in D : ShownAt(MarkTrusted(facts, f, by, clock, NextSeq)[h], tau)
                     <=> ShownAt(facts[h], tau)
  BY <1>1, GrantKeepsPast
<1>4. DOMAIN facts' = DOMAIN facts
  BY <1>1, <1>2
<1> QED
  BY <1>1, <1>3, <1>4, SameShown

\* A rejection changes no earlier view.
LEMMA RejectKeepsPast ==
  ASSUME IInv, NEW r \in Reviewer, NEW f \in FactId, RejectFact(r, f),
         NEW tau \in Nat
  PROVE  CurrentAt(tau)' = CurrentAt(tau)
<1>1. /\ f \in DOMAIN facts /\ facts[f].status = "proposed" /\ facts[f] \in Fact
      /\ clock \in Nat /\ NextSeq \in Nat
      /\ facts' = [facts EXCEPT ![f] = RejectedRow(facts[f], r, clock, NextSeq)]
  BY DEF IInv, TypeOK, RejectFact, NextSeq
<1>2. RejectedRow(facts[f], r, clock, NextSeq).status = "rejected"
  BY <1>1, RejectedRowFields
<1>3. /\ DOMAIN facts' = DOMAIN facts
      /\ facts'[f].status = "rejected"
      /\ \A h \in DOMAIN facts : h # f => facts'[h] = facts[h]
  BY <1>1, <1>2
<1>4. ~ShownAt(facts'[f], tau) /\ ~ShownAt(facts[f], tau)
  BY <1>1, <1>3 DEF ShownAt
<1> QED
  BY <1>3, <1>4, SameShown

\* A step may add to what is known now; what a query as of an earlier time
\* shows does not change, except that a rollback to entry t changes it from
\* the time of the first undone entry on.
THEOREM PastStable == Spec => PastIsStable
<1>1. IInv /\ [Next]_vars => [KeepsThePast]_vars
  <2> SUFFICES ASSUME IInv, [Next]_vars, NEW tau \in 1 .. clock, tau < clock,
                      \A t \in 0 .. Len(audit) :
                        Rollback(t) => t = Len(audit) \/ tau < audit[t + 1].at
               PROVE  CurrentAt(tau)' = CurrentAt(tau)
    BY DEF KeepsThePast
  <2>1. tau \in Nat /\ audit \in Seq(Entry)
    BY DEF IInv, TypeOK
  <2>2. facts' = facts => CurrentAt(tau)' = CurrentAt(tau)
    BY DEF CurrentAt
  <2>3. CASE \E p \in Principal, c \in Content, src \in Source : RecordEpisode(p, c, src)
    BY <2>2, <2>3 DEF RecordEpisode
  <2>4. CASE \E p \in Principal, c \in Content : RecordDuplicate(p, c)
    BY <2>2, <2>4 DEF RecordDuplicate
  <2>5. CASE AssertFact
    <3>1. PICK who \in Principal, origin \in Origin, s \in Key, p \in Asserted,
               o \in Key, vf \in ValidFrom \cup {clock}, vt \in ValidTo \cup {Null},
               c \in Content, f \in FactId :
                 \/ AssertNew(who, origin, s, p, o, vf, vt, c, f)
                 \/ Corroborate(who, origin, s, p, o, vf, vt, c, f)
      BY <2>5 DEF AssertFact
    <3>2. origin \in FactOrigin /\ p \in Predicate /\ vf \in Nat /\ vt \in Nat
      BY ConstantsOK DEF IInv, TypeOK, Null
    <3>3. CASE AssertNew(who, origin, s, p, o, vf, vt, c, f)
      BY <2>1, <3>2, <3>3, AssertNewKeepsPast
    <3>4. CASE Corroborate(who, origin, s, p, o, vf, vt, c, f)
      BY <2>1, <3>2, <3>4, CorroborateKeepsPast
    <3> QED
      BY <3>1, <3>3, <3>4
  <2>6. CASE \E r \in Reviewer, f \in FactId : ConfirmFact(r, f)
    BY <2>1, <2>6, ConfirmKeepsPast
  <2>7. CASE \E r \in Reviewer, f \in FactId : RejectFact(r, f)
    BY <2>1, <2>7, RejectKeepsPast
  <2>8. CASE \E r \in Reviewer, t \in 0 .. Len(audit) : RollbackTo(r, t)
    <3>1. PICK r \in Reviewer, t \in 0 .. Len(audit) : RollbackTo(r, t)
      BY <2>8
    <3>2. facts' = RolledBack(facts, t)
      BY <3>1 DEF RollbackTo
    <3> DEFINE e == [at |-> clock, action |-> "audit.rollback", actor |-> r,
                     target |-> NoFact, grants |-> FALSE, toSeq |-> t]
    <3>3. /\ e \in Entry /\ audit' = Append(audit, e)
          /\ e.action = "audit.rollback" /\ e.toSeq = t
      BY <2>1, <3>1 DEF RollbackTo, Log, IInv, TypeOK, Entry, Action
    <3> HIDE DEF e
    <3>4. /\ Len(audit') = Len(audit) + 1 /\ audit'[Len(audit) + 1] = e
      BY <2>1, <3>3, AppendEntry
    <3>5. Rollback(t)
      BY <3>3, <3>4 DEF Rollback, IsRollback
    <3>6. t = Len(audit) \/ tau < audit[t + 1].at
      BY <3>5
    <3>7. \A f \in DOMAIN facts : ShownAt(facts'[f], tau) <=> ShownAt(facts[f], tau)
      BY <2>1, <3>2, <3>6, RollbackKeepsPast
    <3>8. DOMAIN facts' = DOMAIN facts
      BY <3>2 DEF RolledBack
    <3> QED
      BY <2>1, <3>7, <3>8, SameShown
  <2>9. CASE Tick
    BY <2>2, <2>9 DEF Tick
  <2>10. CASE UNCHANGED vars
    BY <2>2, <2>10 DEF vars
  <2> QED
    BY <2>3, <2>4, <2>5, <2>6, <2>7, <2>8, <2>9, <2>10 DEF Next
<1> QED
  BY <1>1, Invariance, PTL DEF Spec, PastIsStable

-----------------------------------------------------------------------------
(* What a row says is never rewritten *)

\* Every update leaves the claim, its window and its arrival alone, and takes
\* no evidence away.
SameContent(r, q) ==
  /\ ClaimOf(r) = ClaimOf(q)
  /\ r.validFrom = q.validFrom /\ r.validTo = q.validTo
  /\ r.recordedAt = q.recordedAt
  /\ r.evidence \subseteq q.evidence

\* A row that is neither rejected nor superseded.
Open(r) == r.status \in {"proposed", "trusted"}

\* A grant updates decision columns only, and opens nothing.
LEMMA GrantKeepsContent ==
  ASSUME NEW D \in SUBSET FactId, NEW fs \in [D -> Fact], NEW g \in D,
         NEW by \in Granter, NEW now \in Nat, NEW seq \in Nat, Open(fs[g])
  PROVE  /\ DOMAIN MarkTrusted(fs, g, by, now, seq) = D
         /\ \A f \in D :
              /\ SameContent(fs[f], MarkTrusted(fs, g, by, now, seq)[f])
              /\ MarkTrusted(fs, g, by, now, seq)[f].evidence = fs[f].evidence
              /\ Open(MarkTrusted(fs, g, by, now, seq)[f]) => Open(fs[f])
<1> DEFINE mt == MarkTrusted(fs, g, by, now, seq)
<1>1. DOMAIN mt = D
  <2>1. mt \in [D -> Fact]
    BY MarkTrustedRows
  <2> HIDE DEF mt
  <2> QED
    BY <2>1
<1> SUFFICES ASSUME NEW f \in D
             PROVE  /\ SameContent(fs[f], mt[f])
                    /\ mt[f].evidence = fs[f].evidence
                    /\ Open(mt[f]) => Open(fs[f])
  BY <1>1
<1> DEFINE q == SupersededRow(fs[f], g, now, seq)
           row == TrustedRow(fs[f], by, now, seq)
<1>2. fs[g] \in Fact /\ fs[f] \in Fact /\ g \in FactId /\ f \in DOMAIN fs /\ g \in DOMAIN fs
  OBVIOUS
<1>3. /\ TrustedRow(fs[g], by, now, seq).subject = fs[g].subject
      /\ TrustedRow(fs[g], by, now, seq).predicate = fs[g].predicate
      /\ TrustedRow(fs[g], by, now, seq).object = fs[g].object
  BY <1>2 DEF TrustedRow, Fact
<1>4. /\ f = g => mt[f] = row
      /\ fs[f].status = "trusted" /\ Closes(fs, g, f) => mt[f] = q
      /\ f # g /\ ~(fs[f].status = "trusted" /\ Closes(fs, g, f)) => mt[f] = fs[f]
  BY <1>2, <1>3, MarkTrustedAt
<1>5. /\ SameContent(fs[f], row) /\ row.evidence = fs[f].evidence
      /\ SameContent(fs[f], q) /\ q.evidence = fs[f].evidence
      /\ q.status = "superseded"
      /\ SameContent(fs[f], fs[f])
  BY <1>2 DEF SameContent, ClaimOf, TrustedRow, SupersededRow, Fact
<1> HIDE DEF q, row, mt
<1>6. ~Open(q)
  BY <1>5 DEF Open
<1> QED
  BY <1>4, <1>5, <1>6

\* So does a rollback.
LEMMA RollbackKeepsContent ==
  ASSUME NEW D \in SUBSET FactId, NEW fs \in [D -> Fact], NEW t \in Nat
  PROVE  /\ DOMAIN RolledBack(fs, t) = D
         /\ \A f \in D : /\ SameContent(fs[f], RolledBack(fs, t)[f])
                         /\ RolledBack(fs, t)[f].evidence = fs[f].evidence
<1>1. DOMAIN RolledBack(fs, t) = D
  BY DEF RolledBack
<1>2. ASSUME NEW f \in D
      PROVE  /\ SameContent(fs[f], RolledBack(fs, t)[f])
             /\ RolledBack(fs, t)[f].evidence = fs[f].evidence
  <2> DEFINE q == fs[f]
  <2>1. q \in Fact
    OBVIOUS
  <2>2. RolledBack(fs, t)[f] \in {ReopenedRow(q), RevertedRow(q), q}
    BY DEF RolledBack
  <2> HIDE DEF q
  <2>3. SameContent(q, ReopenedRow(q)) /\ ReopenedRow(q).evidence = q.evidence
    BY <2>1 DEF SameContent, ClaimOf, ReopenedRow, Fact
  <2>4. SameContent(q, RevertedRow(q)) /\ RevertedRow(q).evidence = q.evidence
    BY <2>1 DEF SameContent, ClaimOf, RevertedRow, Fact
  <2>5. SameContent(q, q)
    BY DEF SameContent
  <2>6. RolledBack(fs, t)[f] = ReopenedRow(q) \/ RolledBack(fs, t)[f] = RevertedRow(q)
        \/ RolledBack(fs, t)[f] = q
    BY <2>2
  <2>7. SameContent(q, RolledBack(fs, t)[f]) /\ RolledBack(fs, t)[f].evidence = q.evidence
    BY <2>3, <2>4, <2>5, <2>6
  <2> QED
    BY <2>7 DEF q
<1> QED
  BY <1>1, <1>2

\* Two updates of a row.
LEMMA SameContentTwice ==
  ASSUME NEW r, NEW q, NEW s, SameContent(r, q), SameContent(q, s)
  PROVE  SameContent(r, s)
BY DEF SameContent

\* The step adds the row f for a claim, and opens no other.
AddsRow(s, p, o, vt, c, f) ==
  /\ DOMAIN facts' = DOMAIN facts \cup {f} /\ f \notin DOMAIN facts
  /\ \A h \in DOMAIN facts : /\ SameContent(facts[h], facts'[h])
                             /\ facts'[h].evidence = facts[h].evidence
                             /\ Open(facts'[h]) => Open(facts[h])
  /\ facts'[f].subject = s /\ facts'[f].predicate = p /\ facts'[f].object = o
  /\ facts'[f].validTo = vt /\ facts'[f].recordedAt = clock
  /\ facts'[f].evidence = {c}

\* A new claim adds one open row with its evidence.
LEMMA AssertNewContent ==
  ASSUME IInv, NEW who \in Principal, NEW origin \in FactOrigin,
         NEW s \in Key, NEW p \in Predicate, NEW o \in Key,
         NEW vf \in Nat, NEW vt \in Nat, NEW c \in Content, NEW f \in FactId,
         AssertNew(who, origin, s, p, o, vf, vt, c, f)
  PROVE  AddsRow(s, p, o, vt, c, f)
<1> DEFINE trusts == InitialStatus(origin) = "trusted"
           row == NewFact(s, p, o, vf, vt, c, origin, who)
           added == AddFact(facts, f, row)
           D == DOMAIN facts \cup {f}
           by == <<"allowlist", who>>
<1>1. /\ f \notin DOMAIN facts /\ DOMAIN facts \in SUBSET FactId
      /\ facts \in [DOMAIN facts -> Fact] /\ RowsAgree(facts)
      /\ clock \in Nat /\ NextSeq \in Nat /\ by \in Granter
      /\ D \in SUBSET FactId /\ f \in D
  BY DEF IInv, TypeOK, AssertNew, Granter, NextSeq
<1>2. facts' = IF trusts THEN MarkTrusted(added, f, by, clock, NextSeq) ELSE added
  BY DEF AssertNew
<1>3. row \in Fact /\ RowOK(row) /\ row.status = "proposed"
  BY <1>1, NewFactRow DEF AssertNew
<1>4. /\ row.subject = s /\ row.predicate = p /\ row.object = o
      /\ row.validTo = vt /\ row.recordedAt = clock /\ row.evidence = {c}
  BY DEF NewFact
<1> HIDE DEF row, trusts, by
<1>5. added \in [D -> Fact]
  BY <1>1, <1>3, AddFactKeepsRows
<1>6. added[f] = row /\ \A h \in DOMAIN facts : added[h] = facts[h]
  BY <1>1 DEF AddFact
<1>7. Open(added[f])
  BY <1>3, <1>6 DEF Open
<1> HIDE DEF added
<1>8. /\ DOMAIN facts' = D
      /\ \A h \in D : /\ SameContent(added[h], facts'[h])
                      /\ facts'[h].evidence = added[h].evidence
                      /\ Open(facts'[h]) => Open(added[h])
  <2>1. CASE trusts
    <3>1. facts' = MarkTrusted(added, f, by, clock, NextSeq)
      BY <1>2, <2>1
    <3> HIDE DEF D
    <3>2. /\ DOMAIN MarkTrusted(added, f, by, clock, NextSeq) = D
          /\ \A h \in D :
               /\ SameContent(added[h], MarkTrusted(added, f, by, clock, NextSeq)[h])
               /\ MarkTrusted(added, f, by, clock, NextSeq)[h].evidence = added[h].evidence
               /\ Open(MarkTrusted(added, f, by, clock, NextSeq)[h]) => Open(added[h])
      BY <1>1, <1>5, <1>7, GrantKeepsContent
    <3> QED
      BY <3>1, <3>2
  <2>2. CASE ~trusts
    BY <1>2, <1>5, <2>2 DEF SameContent
  <2> QED
    BY <2>1, <2>2
<1> QED
  BY <1>1, <1>4, <1>6, <1>8, ZenonT(60) DEF AddsRow, SameContent, ClaimOf

\* A corroboration adds one piece of evidence to one row.
LEMMA CorroborateContent ==
  ASSUME IInv, NEW who \in Principal, NEW origin \in FactOrigin,
         NEW s \in Key, NEW p \in Predicate, NEW o \in Key,
         NEW vf \in Nat, NEW vt \in Nat, NEW c \in Content, NEW f \in FactId,
         Corroborate(who, origin, s, p, o, vf, vt, c, f)
  PROVE  /\ DOMAIN facts' = DOMAIN facts
         /\ \A h \in DOMAIN facts : /\ SameContent(facts[h], facts'[h])
                                    /\ facts'[h].evidence \subseteq facts[h].evidence \cup {c}
                                    /\ Open(facts'[h]) => Open(facts[h])
<1> DEFINE promote == /\ facts[f].status = "proposed"
                      /\ InitialStatus(origin) = "trusted"
           seen == AddEvidence(facts, f, c)
           D == DOMAIN facts
           by == <<"allowlist", who>>
<1>1. /\ f \in D /\ D \in SUBSET FactId /\ Open(facts[f])
      /\ facts \in [D -> Fact]
      /\ clock \in Nat /\ NextSeq \in Nat /\ by \in Granter
  BY DEF IInv, TypeOK, Corroborate, Existing, Matching, Granter, NextSeq, Open
<1>2. facts' = IF promote THEN MarkTrusted(seen, f, by, clock, NextSeq) ELSE seen
  BY DEF Corroborate
<1> HIDE DEF promote, by
<1>3. seen \in [D -> Fact]
  BY <1>1, AddEvidenceRows
<1>4. \A h \in D : /\ SameContent(facts[h], seen[h])
                   /\ seen[h].evidence \subseteq facts[h].evidence \cup {c}
                   /\ seen[h].status = facts[h].status
  <2>1. \A h \in D : h # f => seen[h] = facts[h]
    BY <1>1, AddEvidenceRows
  <2>2. seen[f] = [facts[f] EXCEPT !.evidence = @ \cup {c}]
    BY <1>1 DEF AddEvidence
  <2>3. facts[f] \in Fact
    BY <1>1
  <2> HIDE DEF seen
  <2>4. /\ SameContent(facts[f], seen[f])
        /\ seen[f].evidence \subseteq facts[f].evidence \cup {c}
        /\ seen[f].status = facts[f].status
    BY <2>2, <2>3 DEF SameContent, ClaimOf, Fact
  <2> QED
    BY <2>1, <2>4 DEF SameContent
<1> HIDE DEF seen
<1>5. Open(seen[f])
  BY <1>1, <1>4 DEF Open
<1>6. /\ DOMAIN facts' = D
      /\ \A h \in D : /\ SameContent(seen[h], facts'[h])
                      /\ facts'[h].evidence = seen[h].evidence
                      /\ Open(facts'[h]) => Open(seen[h])
  <2>1. CASE promote
    <3>1. facts' = MarkTrusted(seen, f, by, clock, NextSeq)
      BY <1>2, <2>1
    <3> HIDE DEF D
    <3>2. /\ DOMAIN MarkTrusted(seen, f, by, clock, NextSeq) = D
          /\ \A h \in D :
               /\ SameContent(seen[h], MarkTrusted(seen, f, by, clock, NextSeq)[h])
               /\ MarkTrusted(seen, f, by, clock, NextSeq)[h].evidence = seen[h].evidence
               /\ Open(MarkTrusted(seen, f, by, clock, NextSeq)[h]) => Open(seen[h])
      BY <1>1, <1>3, <1>5, GrantKeepsContent
    <3> QED
      BY <3>1, <3>2
  <2>2. CASE ~promote
    BY <1>2, <1>3, <2>2 DEF SameContent
  <2> QED
    BY <2>1, <2>2
<1> QED
  BY <1>4, <1>6, SameContentTwice DEF Open

\* A review changes one row's decision, and closes others.
LEMMA ReviewContent ==
  ASSUME IInv, NEW r \in Reviewer, NEW f \in FactId,
         ConfirmFact(r, f) \/ RejectFact(r, f)
  PROVE  /\ DOMAIN facts' = DOMAIN facts
         /\ \A h \in DOMAIN facts : /\ SameContent(facts[h], facts'[h])
                                    /\ facts'[h].evidence = facts[h].evidence
                                    /\ Open(facts'[h]) => Open(facts[h])
<1> DEFINE by == <<"review", r>>
           D == DOMAIN facts
           row == RejectedRow(facts[f], r, clock, NextSeq)
<1>1. /\ f \in D /\ D \in SUBSET FactId /\ facts[f].status = "proposed"
      /\ facts \in [D -> Fact] /\ facts[f] \in Fact
      /\ clock \in Nat /\ NextSeq \in Nat /\ by \in Granter
  <2>1. f \in D /\ facts[f].status = "proposed"
    BY DEF ConfirmFact, RejectFact
  <2>2. /\ D \in SUBSET FactId /\ facts \in [D -> Fact]
        /\ clock \in Nat /\ NextSeq \in Nat
    BY DEF IInv, TypeOK, NextSeq
  <2>3. by \in Granter
    BY DEF Granter
  <2> QED
    BY <2>1, <2>2, <2>3
<1>2. CASE ConfirmFact(r, f)
  <2>1. facts' = MarkTrusted(facts, f, by, clock, NextSeq)
    BY <1>2 DEF ConfirmFact
  <2>2. Open(facts[f])
    BY <1>1 DEF Open
  <2> HIDE DEF by, D
  <2>3. /\ DOMAIN MarkTrusted(facts, f, by, clock, NextSeq) = D
        /\ \A h \in D :
             /\ SameContent(facts[h], MarkTrusted(facts, f, by, clock, NextSeq)[h])
             /\ MarkTrusted(facts, f, by, clock, NextSeq)[h].evidence = facts[h].evidence
             /\ Open(MarkTrusted(facts, f, by, clock, NextSeq)[h]) => Open(facts[h])
    BY <1>1, <2>2, GrantKeepsContent
  <2> QED
    BY <2>1, <2>3 DEF D
<1>3. CASE RejectFact(r, f)
  <2>1. facts' = [facts EXCEPT ![f] = row]
    BY <1>3 DEF RejectFact
  <2>2. SameContent(facts[f], row) /\ row.evidence = facts[f].evidence
    BY <1>1 DEF SameContent, ClaimOf, RejectedRow, Fact
  <2>3. Open(facts[f])
    BY <1>1 DEF Open
  <2> HIDE DEF row
  <2>4. /\ DOMAIN facts' = D /\ facts'[f] = row
        /\ \A h \in D : h # f => facts'[h] = facts[h]
    BY <1>1, <2>1
  <2> QED
    BY <2>2, <2>3, <2>4 DEF SameContent
<1> QED
  BY <1>2, <1>3

-----------------------------------------------------------------------------
(* Everything a fact refers to is there *)

\* Rows of a kind for two sets of names.
LEMMA RowsOfTwo ==
  ASSUME NEW kind, NEW S, NEW T
  PROVE  Rows(kind, S \cup T) = Rows(kind, S) \cup Rows(kind, T)
BY DEF Rows

\* The same content is the same claim.
LEMMA SameContentFields ==
  ASSUME NEW r, NEW q, SameContent(r, q)
  PROVE  /\ r.subject = q.subject /\ r.predicate = q.predicate /\ r.object = q.object
         /\ ClaimOf(r) = ClaimOf(q)
         /\ r.validTo = q.validTo /\ r.evidence \subseteq q.evidence
<1>1. /\ ClaimOf(r).subject = ClaimOf(q).subject
      /\ ClaimOf(r).predicate = ClaimOf(q).predicate
      /\ ClaimOf(r).object = ClaimOf(q).object
  BY DEF SameContent
<1> QED
  BY <1>1 DEF SameContent, ClaimOf

\* Steps that add no row to any table and keep what the facts refer to.
LEMMA SameReferences ==
  ASSUME ReferencesOK, DOMAIN facts' = DOMAIN facts,
         \A f \in DOMAIN facts : /\ SameContent(facts[f], facts'[f])
                                 /\ facts'[f].evidence = facts[f].evidence,
         UNCHANGED <<episodes, entities, fts, queue>>
  PROVE  ReferencesOK'
<1>1. \A f \in DOMAIN facts' :
        /\ {facts'[f].subject, facts'[f].object} \subseteq entities'
        /\ facts'[f].evidence # {}
        /\ facts'[f].evidence \subseteq DOMAIN episodes'
  <2> SUFFICES ASSUME NEW f \in DOMAIN facts
               PROVE  /\ {facts'[f].subject, facts'[f].object} \subseteq entities'
                      /\ facts'[f].evidence # {}
                      /\ facts'[f].evidence \subseteq DOMAIN episodes'
    OBVIOUS
  <2>1. facts'[f].subject = facts[f].subject /\ facts'[f].object = facts[f].object
    BY SameContentFields
  <2> QED
    BY <2>1 DEF ReferencesOK
<1> QED
  BY <1>1 DEF ReferencesOK

\* A new episode brings the rows of its parts with it.
LEMMA EpisodeKeepsReferences ==
  ASSUME ReferencesOK, NEW p \in Principal, NEW c \in Content, NEW src \in Source,
         RecordEpisode(p, c, src)
  PROVE  ReferencesOK'
<1> DEFINE parts == Rows("episode", PartRefs(c))
           all == UNION {Rows("episode", PartRefs(d)) : d \in DOMAIN episodes}
<1>1. /\ facts' = facts /\ entities' = entities
      /\ queue' = queue \cup parts /\ fts' = fts \cup parts
      /\ DOMAIN episodes' = DOMAIN episodes \cup {c}
  BY DEF RecordEpisode
<1>2. UNION {Rows("episode", PartRefs(d)) : d \in DOMAIN episodes \cup {c}} = all \cup parts
  OBVIOUS
<1>3. queue' = Rows("fact", DOMAIN facts')
                 \cup UNION {Rows("episode", PartRefs(d)) : d \in DOMAIN episodes'}
  BY <1>1, <1>2 DEF ReferencesOK
<1>4. fts' = queue' \cup Rows("entity", entities')
  <2>1. fts = queue \cup Rows("entity", entities)
    BY DEF ReferencesOK
  <2> HIDE DEF parts
  <2> QED
    BY <1>1, <2>1
<1>5. \A f \in DOMAIN facts' :
        /\ {facts'[f].subject, facts'[f].object} \subseteq entities'
        /\ facts'[f].evidence # {}
        /\ facts'[f].evidence \subseteq DOMAIN episodes'
  BY <1>1 DEF ReferencesOK
<1> QED
  BY <1>3, <1>4, <1>5 DEF ReferencesOK

\* A new claim brings its entities, its fact row and their search text.
LEMMA AssertNewKeepsReferences ==
  ASSUME IInv, ReferencesOK, NEW who \in Principal, NEW origin \in FactOrigin,
         NEW s \in Key, NEW p \in Predicate, NEW o \in Key,
         NEW vf \in Nat, NEW vt \in Nat, NEW c \in Content, NEW f \in FactId,
         AssertNew(who, origin, s, p, o, vf, vt, c, f)
  PROVE  ReferencesOK'
<1> DEFINE all == UNION {Rows("episode", PartRefs(d)) : d \in DOMAIN episodes}
<1>1. /\ DOMAIN facts' = DOMAIN facts \cup {f}
      /\ \A h \in DOMAIN facts : /\ SameContent(facts[h], facts'[h])
                                 /\ facts'[h].evidence = facts[h].evidence
      /\ facts'[f].subject = s /\ facts'[f].object = o
      /\ facts'[f].evidence = {c}
  <2>1. AddsRow(s, p, o, vt, c, f)
    BY AssertNewContent, ZenonT(60)
  <2> QED
    BY <2>1 DEF AddsRow
<1>2. /\ entities' = entities \cup {s, o} /\ episodes' = episodes
      /\ c \in DOMAIN episodes
      /\ queue' = queue \cup Rows("fact", {f})
      /\ fts' = fts \cup Rows("entity", {s, o}) \cup Rows("fact", {f})
  BY DEF AssertNew, UpsertEntities
<1>3. /\ queue = Rows("fact", DOMAIN facts) \cup all
      /\ fts = queue \cup Rows("entity", entities)
  BY DEF ReferencesOK
<1> HIDE DEF all
<1>4. /\ Rows("fact", DOMAIN facts \cup {f}) = Rows("fact", DOMAIN facts) \cup Rows("fact", {f})
      /\ Rows("entity", entities \cup {s, o}) = Rows("entity", entities) \cup Rows("entity", {s, o})
  BY RowsOfTwo
<1>5. queue' = Rows("fact", DOMAIN facts') \cup all
  BY <1>1, <1>2, <1>3, <1>4
<1>6. fts' = queue' \cup Rows("entity", entities')
  BY <1>2, <1>3, <1>4
<1>7. \A h \in DOMAIN facts' :
        /\ {facts'[h].subject, facts'[h].object} \subseteq entities'
        /\ facts'[h].evidence # {}
        /\ facts'[h].evidence \subseteq DOMAIN episodes'
  <2>1. \A h \in DOMAIN facts : /\ facts'[h].subject = facts[h].subject
                                /\ facts'[h].object = facts[h].object
    BY <1>1, SameContentFields
  <2>2. \A h \in DOMAIN facts : /\ {facts[h].subject, facts[h].object} \subseteq entities
                                /\ facts[h].evidence # {}
                                /\ facts[h].evidence \subseteq DOMAIN episodes
    BY DEF ReferencesOK
  <2> QED
    BY <1>1, <1>2, <2>1, <2>2
<1> QED
  BY <1>2, <1>5, <1>6, <1>7 DEF ReferencesOK, all

\* A corroboration refers to an episode that is there.
LEMMA CorroborateKeepsReferences ==
  ASSUME IInv, ReferencesOK, NEW who \in Principal, NEW origin \in FactOrigin,
         NEW s \in Key, NEW p \in Predicate, NEW o \in Key,
         NEW vf \in Nat, NEW vt \in Nat, NEW c \in Content, NEW f \in FactId,
         Corroborate(who, origin, s, p, o, vf, vt, c, f)
  PROVE  ReferencesOK'
<1>1. /\ DOMAIN facts' = DOMAIN facts
      /\ \A h \in DOMAIN facts : /\ SameContent(facts[h], facts'[h])
                                 /\ facts'[h].evidence \subseteq facts[h].evidence \cup {c}
  BY CorroborateContent
<1>2. /\ entities' = entities \cup {s, o} /\ episodes' = episodes /\ queue' = queue
      /\ c \in DOMAIN episodes
      /\ fts' = fts \cup Rows("entity", {s, o})
  BY DEF Corroborate, UpsertEntities
<1>3. Rows("entity", entities \cup {s, o}) = Rows("entity", entities) \cup Rows("entity", {s, o})
  BY RowsOfTwo
<1>4. fts = queue \cup Rows("entity", entities)
  BY DEF ReferencesOK
<1>5. fts' = queue' \cup Rows("entity", entities')
  BY <1>2, <1>3, <1>4
<1>6. \A h \in DOMAIN facts' :
        /\ {facts'[h].subject, facts'[h].object} \subseteq entities'
        /\ facts'[h].evidence # {}
        /\ facts'[h].evidence \subseteq DOMAIN episodes'
  <2>1. \A h \in DOMAIN facts : /\ facts'[h].subject = facts[h].subject
                                /\ facts'[h].object = facts[h].object
    BY <1>1, SameContentFields
  <2>2. \A h \in DOMAIN facts : /\ {facts[h].subject, facts[h].object} \subseteq entities
                                /\ facts[h].evidence # {}
                                /\ facts[h].evidence \subseteq DOMAIN episodes
    BY DEF ReferencesOK
  <2>3. \A h \in DOMAIN facts : facts'[h].evidence # {}
    BY <1>1, <2>2, SameContentFields
  <2> QED
    BY <1>1, <1>2, <2>1, <2>2, <2>3
<1> QED
  BY <1>1, <1>2, <1>5, <1>6 DEF ReferencesOK

\* A fact never points to an entity or to evidence that is not there, and
\* every row has its search text and its place in the queue.  (facts.ts,
\* entities.ts, episodes.ts: the writes of one transaction)
THEOREM NothingDangles == Spec => []ReferencesOK
<1>1. Init => ReferencesOK
  BY DEF Init, ReferencesOK, Rows
<1>2. IInv /\ ReferencesOK /\ [Next]_vars => ReferencesOK'
  <2> SUFFICES ASSUME IInv, ReferencesOK, [Next]_vars PROVE ReferencesOK'
    OBVIOUS
  <2>1. CASE \E p \in Principal, c \in Content, src \in Source : RecordEpisode(p, c, src)
    BY <2>1, EpisodeKeepsReferences
  <2>2. CASE \E p \in Principal, c \in Content : RecordDuplicate(p, c)
    BY <2>2 DEF RecordDuplicate, ReferencesOK
  <2>3. CASE AssertFact
    <3>1. PICK who \in Principal, origin \in Origin, s \in Key, p \in Asserted,
               o \in Key, vf \in ValidFrom \cup {clock}, vt \in ValidTo \cup {Null},
               c \in Content, f \in FactId :
                 \/ AssertNew(who, origin, s, p, o, vf, vt, c, f)
                 \/ Corroborate(who, origin, s, p, o, vf, vt, c, f)
      BY <2>3 DEF AssertFact
    <3>2. origin \in FactOrigin /\ p \in Predicate /\ vf \in Nat /\ vt \in Nat
      BY ConstantsOK DEF IInv, TypeOK, Null
    <3> QED
      BY <3>1, <3>2, AssertNewKeepsReferences, CorroborateKeepsReferences
  <2>4. CASE \E r \in Reviewer, f \in FactId : ConfirmFact(r, f) \/ RejectFact(r, f)
    <3>1. PICK r \in Reviewer, f \in FactId : ConfirmFact(r, f) \/ RejectFact(r, f)
      BY <2>4
    <3>2. UNCHANGED <<episodes, entities, fts, queue>>
      BY <3>1 DEF ConfirmFact, RejectFact
    <3> QED
      BY <3>1, <3>2, ReviewContent, SameReferences
  <2>5. CASE \E r \in Reviewer, t \in 0 .. Len(audit) : RollbackTo(r, t)
    <3>1. PICK r \in Reviewer, t \in 0 .. Len(audit) : RollbackTo(r, t)
      BY <2>5
    <3>2. /\ facts' = RolledBack(facts, t) /\ t \in Nat
          /\ DOMAIN facts \in SUBSET FactId /\ facts \in [DOMAIN facts -> Fact]
          /\ UNCHANGED <<episodes, entities, fts, queue>>
      BY <3>1 DEF RollbackTo, IInv, TypeOK
    <3>3. /\ DOMAIN RolledBack(facts, t) = DOMAIN facts
          /\ \A f \in DOMAIN facts :
               /\ SameContent(facts[f], RolledBack(facts, t)[f])
               /\ RolledBack(facts, t)[f].evidence = facts[f].evidence
      BY <3>2, RollbackKeepsContent
    <3>4. /\ DOMAIN facts' = DOMAIN facts
          /\ \A f \in DOMAIN facts : /\ SameContent(facts[f], facts'[f])
                                     /\ facts'[f].evidence = facts[f].evidence
      BY <3>2, <3>3, ZenonT(30)
    <3> QED
      BY <3>2, <3>4, SameReferences
  <2>6. CASE Tick \/ UNCHANGED vars
    BY <2>6 DEF Tick, vars, ReferencesOK
  <2> QED
    BY <2>1, <2>2, <2>3, <2>4, <2>5, <2>6 DEF Next
<1> QED
  BY <1>1, <1>2, Invariance, PTL DEF Spec

-----------------------------------------------------------------------------
(* One open row per claim *)

\* Steps that add no row, and open none.
LEMMA SameOpenRows ==
  ASSUME OneOpenPerClaim, DOMAIN facts' = DOMAIN facts,
         \A f \in DOMAIN facts : /\ SameContent(facts[f], facts'[f])
                                 /\ Open(facts'[f]) => Open(facts[f]),
         (\A i \in DOMAIN audit' : ~IsRollback(audit'[i]))
           => \A i \in DOMAIN audit : ~IsRollback(audit[i])
  PROVE  OneOpenPerClaim'
BY DEF OneOpenPerClaim, SameContent, Open

\* The step adds row f, and no other open row makes its claim.
OpensAlone(f) ==
  /\ DOMAIN facts' = DOMAIN facts \cup {f}
  /\ \A h \in DOMAIN facts :
       /\ ClaimOf(facts'[h]) = ClaimOf(facts[h])
       /\ facts'[h].validTo = facts[h].validTo
       /\ Open(facts'[h]) => Open(facts[h])
       /\ ~(/\ ClaimOf(facts'[h]) = ClaimOf(facts'[f])
            /\ facts'[h].validTo = facts'[f].validTo
            /\ Open(facts'[h]))

\* No other row of the claim is open when a new one is added.
LEMMA AssertNewOpensAlone ==
  ASSUME IInv, NEW who \in Principal, NEW origin \in FactOrigin,
         NEW s \in Key, NEW p \in Predicate, NEW o \in Key,
         NEW vf \in Nat, NEW vt \in Nat, NEW c \in Content, NEW f \in FactId,
         AssertNew(who, origin, s, p, o, vf, vt, c, f)
  PROVE  OpensAlone(f)
<1>1. /\ DOMAIN facts' = DOMAIN facts \cup {f}
      /\ \A h \in DOMAIN facts : /\ SameContent(facts[h], facts'[h])
                                 /\ Open(facts'[h]) => Open(facts[h])
      /\ facts'[f].subject = s /\ facts'[f].predicate = p /\ facts'[f].object = o
      /\ facts'[f].validTo = vt
  <2>1. AddsRow(s, p, o, vt, c, f)
    BY AssertNewContent
  <2> QED
    BY <2>1 DEF AddsRow
<1>2. Matching(s, p, o, vt) = {}
  BY DEF AssertNew
<1>3. \A h \in DOMAIN facts :
        ~(/\ ClaimOf(facts[h]) = [subject |-> s, predicate |-> p, object |-> o]
          /\ facts[h].validTo = vt
          /\ Open(facts[h]))
  <2> SUFFICES ASSUME NEW h \in DOMAIN facts, facts[h].validTo = vt, Open(facts[h]),
                      ClaimOf(facts[h]) = [subject |-> s, predicate |-> p, object |-> o]
               PROVE  FALSE
    OBVIOUS
  <2>1. facts[h].subject = s /\ facts[h].predicate = p /\ facts[h].object = o
    BY DEF ClaimOf
  <2> QED
    BY <1>2, <2>1 DEF Matching, Open
<1>4. ClaimOf(facts'[f]) = [subject |-> s, predicate |-> p, object |-> o]
  BY <1>1 DEF ClaimOf
<1>5. \A h \in DOMAIN facts : /\ ClaimOf(facts'[h]) = ClaimOf(facts[h])
                             /\ facts'[h].validTo = facts[h].validTo
  BY <1>1, SameContentFields
<1>6. \A h \in DOMAIN facts :
        ~(/\ ClaimOf(facts'[h]) = ClaimOf(facts'[f])
          /\ facts'[h].validTo = facts'[f].validTo
          /\ Open(facts'[h]))
  BY <1>1, <1>3, <1>4, <1>5
<1> QED
  BY <1>1, <1>5, <1>6 DEF OpensAlone

\* So it keeps claims apart.
LEMMA AssertNewKeepsOneOpen ==
  ASSUME OneOpenPerClaim, NEW f \in FactId, OpensAlone(f),
         (\A i \in DOMAIN audit' : ~IsRollback(audit'[i]))
           => \A i \in DOMAIN audit : ~IsRollback(audit[i])
  PROVE  OneOpenPerClaim'
<1>2. SUFFICES ASSUME \A i \in DOMAIN audit : ~IsRollback(audit[i]),
                      NEW g \in DOMAIN facts', NEW h \in DOMAIN facts',
                      {facts'[g].status, facts'[h].status} \subseteq {"proposed", "trusted"},
                      ClaimOf(facts'[g]) = ClaimOf(facts'[h]),
                      facts'[g].validTo = facts'[h].validTo
               PROVE  g = h
  BY DEF OneOpenPerClaim
<1>3. Open(facts'[g]) /\ Open(facts'[h])
  BY <1>2 DEF Open
<1>4. CASE g \in DOMAIN facts /\ h \in DOMAIN facts
  <2>1. Open(facts[g]) /\ Open(facts[h])
    BY <1>3, <1>4 DEF OpensAlone
  <2>2. ClaimOf(facts[g]) = ClaimOf(facts[h]) /\ facts[g].validTo = facts[h].validTo
    BY <1>2, <1>4 DEF OpensAlone
  <2> QED
    BY <1>2, <1>4, <2>1, <2>2 DEF OneOpenPerClaim, Open
<1> QED
  BY <1>2, <1>3, <1>4 DEF OpensAlone

\* A step appends one entry at most.
LEMMA LogAppends ==
  ASSUME [Next]_vars
  PROVE  audit' = audit \/ \E e : audit' = Append(audit, e)
<1>1. audit' = audit \/ \E a, w, x, g, t : Log(a, w, x, g, t)
  <2>1. CASE \E p \in Principal, c \in Content, src \in Source : RecordEpisode(p, c, src)
    BY <2>1 DEF RecordEpisode
  <2>2. CASE \E p \in Principal, c \in Content : RecordDuplicate(p, c)
    BY <2>2 DEF RecordDuplicate
  <2>3. CASE AssertFact
    <3>1. PICK who \in Principal, origin \in Origin, s \in Key, p \in Asserted,
               o \in Key, vf \in ValidFrom \cup {clock}, vt \in ValidTo \cup {Null},
               c \in Content, f \in FactId :
                 \/ AssertNew(who, origin, s, p, o, vf, vt, c, f)
                 \/ Corroborate(who, origin, s, p, o, vf, vt, c, f)
      BY <2>3 DEF AssertFact
    <3>2. CASE AssertNew(who, origin, s, p, o, vf, vt, c, f)
      BY <3>2 DEF AssertNew
    <3>3. CASE Corroborate(who, origin, s, p, o, vf, vt, c, f)
      BY <3>3 DEF Corroborate
    <3> QED
      BY <3>1, <3>2, <3>3
  <2>4. CASE \E r \in Reviewer, f \in FactId : ConfirmFact(r, f) \/ RejectFact(r, f)
    BY <2>4 DEF ConfirmFact, RejectFact
  <2>5. CASE \E r \in Reviewer, t \in 0 .. Len(audit) : RollbackTo(r, t)
    BY <2>5 DEF RollbackTo
  <2>6. CASE Tick \/ UNCHANGED vars
    BY <2>6 DEF Tick, vars
  <2> QED
    BY <2>1, <2>2, <2>3, <2>4, <2>5, <2>6 DEF Next
<1> QED
  BY <1>1 DEF Log

\* The log only grows.
LEMMA LogGrows ==
  ASSUME IInv, [Next]_vars, \A i \in DOMAIN audit' : ~IsRollback(audit'[i])
  PROVE  \A i \in DOMAIN audit : ~IsRollback(audit[i])
<1>1. audit' = audit \/ \E e : audit' = Append(audit, e)
  BY LogAppends
<1>2. audit \in Seq(Entry)
  BY DEF IInv, TypeOK
<1>3. \A i \in DOMAIN audit : i \in DOMAIN audit' /\ audit'[i] = audit[i]
  <2>1. CASE audit' = audit
    BY <2>1
  <2>2. CASE \E e : audit' = Append(audit, e)
    BY <1>2, <2>2
  <2> QED
    BY <1>1, <2>1, <2>2
<1> QED
  BY <1>3

\* Until a rollback, a claim with one expiry has one open row at most: the
\* assertion that finds an open row corroborates it.  (facts.ts assertFact)
THEOREM OneOpenRow == Spec => []OneOpenPerClaim
<1>1. Init => OneOpenPerClaim
  BY DEF Init, OneOpenPerClaim
<1>2. IInv /\ OneOpenPerClaim /\ [Next]_vars => OneOpenPerClaim'
  <2> SUFFICES ASSUME IInv, OneOpenPerClaim, [Next]_vars PROVE OneOpenPerClaim'
    OBVIOUS
  <2> DEFINE before == \A i \in DOMAIN audit : ~IsRollback(audit[i])
             after == \A i \in DOMAIN audit' : ~IsRollback(audit'[i])
  <2>0. after => before
    BY LogGrows
  <2> HIDE DEF before, after
  <2>1. CASE facts' = facts
    BY <2>0, <2>1 DEF OneOpenPerClaim, before, after
  <2>2. CASE AssertFact
    <3>1. PICK who \in Principal, origin \in Origin, s \in Key, p \in Asserted,
               o \in Key, vf \in ValidFrom \cup {clock}, vt \in ValidTo \cup {Null},
               c \in Content, f \in FactId :
                 \/ AssertNew(who, origin, s, p, o, vf, vt, c, f)
                 \/ Corroborate(who, origin, s, p, o, vf, vt, c, f)
      BY <2>2 DEF AssertFact
    <3>2. origin \in FactOrigin /\ p \in Predicate /\ vf \in Nat /\ vt \in Nat
      BY ConstantsOK DEF IInv, TypeOK, Null
    <3>3. CASE AssertNew(who, origin, s, p, o, vf, vt, c, f)
      <4>1. OpensAlone(f)
        BY <3>2, <3>3, AssertNewOpensAlone
      <4> QED
        BY <2>0, <4>1, AssertNewKeepsOneOpen DEF before, after
    <3>4. CASE Corroborate(who, origin, s, p, o, vf, vt, c, f)
      <4>1. /\ DOMAIN facts' = DOMAIN facts
            /\ \A h \in DOMAIN facts : /\ SameContent(facts[h], facts'[h])
                                       /\ Open(facts'[h]) => Open(facts[h])
        BY <3>2, <3>4, CorroborateContent
      <4> QED
        BY <2>0, <4>1, SameOpenRows DEF before, after
    <3> QED
      BY <3>1, <3>3, <3>4
  <2>3. CASE \E r \in Reviewer, f \in FactId : ConfirmFact(r, f) \/ RejectFact(r, f)
    <3>1. /\ DOMAIN facts' = DOMAIN facts
          /\ \A h \in DOMAIN facts : /\ SameContent(facts[h], facts'[h])
                                     /\ Open(facts'[h]) => Open(facts[h])
      BY <2>3, ReviewContent
    <3> QED
      BY <2>0, <3>1, SameOpenRows DEF before, after
  <2>4. CASE \E r \in Reviewer, t \in 0 .. Len(audit) : RollbackTo(r, t)
    <3>1. PICK r \in Reviewer, t \in 0 .. Len(audit) : RollbackTo(r, t)
      BY <2>4
    <3> DEFINE e == [at |-> clock, action |-> "audit.rollback", actor |-> r,
                     target |-> NoFact, grants |-> FALSE, toSeq |-> t]
    <3>2. audit' = Append(audit, e) /\ IsRollback(e) /\ audit \in Seq(Entry)
      BY <3>1 DEF RollbackTo, Log, IsRollback, IInv, TypeOK
    <3> HIDE DEF e
    <3>3. Len(audit) + 1 \in DOMAIN audit' /\ audit'[Len(audit) + 1] = e
      BY <3>2
    <3>4. ~after
      BY <3>2, <3>3 DEF after
    <3> QED
      BY <3>4 DEF OneOpenPerClaim, after
  <2>5. CASE \/ \E p \in Principal, c \in Content, src \in Source : RecordEpisode(p, c, src)
             \/ \E p \in Principal, c \in Content : RecordDuplicate(p, c)
             \/ Tick
             \/ UNCHANGED vars
    BY <2>1, <2>5 DEF RecordEpisode, RecordDuplicate, Tick, vars
  <2> QED
    BY <2>2, <2>3, <2>4, <2>5 DEF Next
<1> QED
  BY <1>1, <1>2, Invariance, PTL DEF Spec

-----------------------------------------------------------------------------
(* What a rollback restores *)

\* A step that logs a rollback is one.
LEMMA LoggedRollback ==
  ASSUME IInv, [Next]_vars, NEW t \in Nat, Rollback(t)
  PROVE  \E r \in Reviewer : RollbackTo(r, t)
<1>1. audit \in Seq(Entry)
  BY DEF IInv, TypeOK
<1>2. ASSUME NEW e, audit' = Append(audit, e)
      PROVE  IsRollback(e) /\ e.toSeq = t
  <2>1. Len(audit') = Len(audit) + 1 /\ audit'[Len(audit) + 1] = e
    BY <1>1, <1>2
  <2> QED
    BY <2>1 DEF Rollback
<1>3. audit' # audit
  BY <1>1 DEF Rollback
<1>4. ~\E p \in Principal, c \in Content, src \in Source : RecordEpisode(p, c, src)
  <2> SUFFICES ASSUME NEW p \in Principal, NEW c \in Content, NEW src \in Source,
                      RecordEpisode(p, c, src)
               PROVE  FALSE
    OBVIOUS
  <2> DEFINE e == [at |-> clock, action |-> "episode.record", actor |-> p,
                   target |-> c, grants |-> FALSE, toSeq |-> Null]
  <2>1. audit' = Append(audit, e) /\ ~IsRollback(e)
    BY DEF RecordEpisode, Log, IsRollback
  <2> HIDE DEF e
  <2> QED
    BY <1>2, <2>1
<1>5. ~AssertFact
  <2> SUFFICES ASSUME NEW who \in Principal, NEW f \in FactId,
                      NEW origin, NEW s, NEW p, NEW o, NEW vf, NEW vt, NEW c,
                      \/ AssertNew(who, origin, s, p, o, vf, vt, c, f)
                      \/ Corroborate(who, origin, s, p, o, vf, vt, c, f)
               PROVE  FALSE
    BY DEF AssertFact
  <2>1. CASE AssertNew(who, origin, s, p, o, vf, vt, c, f)
    <3> DEFINE e == [at |-> clock, action |-> "fact.assert", actor |-> who, target |-> f,
                     grants |-> InitialStatus(origin) = "trusted", toSeq |-> Null]
    <3>1. audit' = Append(audit, e) /\ ~IsRollback(e)
      BY <2>1 DEF AssertNew, Log, IsRollback
    <3> HIDE DEF e
    <3> QED
      BY <1>2, <3>1
  <2>2. CASE Corroborate(who, origin, s, p, o, vf, vt, c, f)
    <3> DEFINE e == [at |-> clock, action |-> "fact.corroborate", actor |-> who, target |-> f,
                     grants |-> /\ facts[f].status = "proposed"
                                /\ InitialStatus(origin) = "trusted",
                     toSeq |-> Null]
    <3>1. audit' = Append(audit, e) /\ ~IsRollback(e)
      BY <2>2 DEF Corroborate, Log, IsRollback
    <3> HIDE DEF e
    <3> QED
      BY <1>2, <3>1
  <2> QED
    BY <2>1, <2>2
<1>6. ~\E r \in Reviewer, f \in FactId : ConfirmFact(r, f) \/ RejectFact(r, f)
  <2> SUFFICES ASSUME NEW r \in Reviewer, NEW f \in FactId,
                      ConfirmFact(r, f) \/ RejectFact(r, f)
               PROVE  FALSE
    OBVIOUS
  <2> DEFINE e(action, grants) == [at |-> clock, action |-> action, actor |-> r,
                                   target |-> f, grants |-> grants, toSeq |-> Null]
  <2>1. /\ audit' = Append(audit, e("fact.confirm", TRUE))
           \/ audit' = Append(audit, e("fact.reject", FALSE))
        /\ ~IsRollback(e("fact.confirm", TRUE))
        /\ ~IsRollback(e("fact.reject", FALSE))
    BY DEF ConfirmFact, RejectFact, Log, IsRollback
  <2> HIDE DEF e
  <2> QED
    BY <1>2, <2>1
<1>7. ASSUME NEW r \in Reviewer, NEW u \in 0 .. Len(audit), RollbackTo(r, u)
      PROVE  u = t
  <2> DEFINE e == [at |-> clock, action |-> "audit.rollback", actor |-> r,
                   target |-> NoFact, grants |-> FALSE, toSeq |-> u]
  <2>1. audit' = Append(audit, e) /\ e.toSeq = u
    BY <1>7 DEF RollbackTo, Log
  <2> HIDE DEF e
  <2> QED
    BY <1>2, <2>1
<1> QED
  BY <1>3, <1>4, <1>5, <1>6, <1>7 DEF Next, RecordDuplicate, Tick, vars

\* The table is the view of the log after a step too.
LEMMA TableIsViewNext == IInv' => TrustFromLog'
BY TableIsView, PTL

\* Rolling back to entry t gives every fact the status that the log up to t
\* gives it, unless a rollback since then undid decisions up to t.
\* (review.ts rollbackTo)
THEOREM RollbackIsRight == Spec => RollbackRestores
<1>1. IInv /\ IInv' /\ [Next]_vars => [RestoresUnlessUndone]_vars
  <2> SUFFICES ASSUME IInv, IInv', [Next]_vars, NEW t \in 0 .. Len(audit), Rollback(t),
                      \A j \in DOMAIN audit :
                        j > t /\ IsRollback(audit[j]) => audit[j].toSeq >= t,
                      NEW f \in DOMAIN facts
               PROVE  facts'[f].status = StatusInLog(SubSeq(audit, 1, t), f)
    BY DEF RestoresUnlessUndone
  <2> DEFINE n == Len(audit)
             pre == SubSeq(audit, 1, t)
  <2>1. /\ n \in Nat /\ t \in Nat /\ DOMAIN audit = 1 .. n
        /\ audit \in Seq(Entry)
        /\ DOMAIN facts \in SUBSET FactId /\ facts \in [DOMAIN facts -> Fact]
    BY DEF IInv, TypeOK
  <2>2. PICK r \in Reviewer : RollbackTo(r, t)
    BY <2>1, LoggedRollback
  <2> DEFINE e == [at |-> clock, action |-> "audit.rollback", actor |-> r,
                   target |-> NoFact, grants |-> FALSE, toSeq |-> t]
  <2>3. /\ e \in Entry /\ audit' = Append(audit, e)
        /\ IsRollback(e) /\ ~IsDecision(e) /\ e.toSeq = t
        /\ facts' = RolledBack(facts, t)
    BY <2>1, <2>2 DEF RollbackTo, Log, IInv, TypeOK, Entry, Action,
                      IsRollback, IsDecision, IsRejection
  <2> HIDE DEF e
  <2>4. DOMAIN pre = 1 .. t /\ \A i \in 1 .. t : pre[i] = audit[i]
    BY <2>1
  <2> HIDE DEF pre
  <2>5. /\ DOMAIN audit' = 1 .. n + 1
        /\ \A i \in 1 .. n : audit'[i] = audit[i]
    BY <2>1, <2>3, AppendEntry
  <2>6. \A i : Standing(audit', i) <=> Standing(audit, i) /\ i <= t
    <3>1. /\ \A i \in 1 .. n : Standing(audit', i) <=> Standing(audit, i) /\ i <= t
          /\ ~Standing(audit', n + 1)
      BY <2>1, <2>3, StandingAppend
    <3>2. \A i : Standing(audit', i) => i \in 1 .. n + 1
      BY <2>5 DEF Standing
    <3>3. \A i : Standing(audit, i) => i \in 1 .. n
      BY <2>1 DEF Standing
    <3> QED
      BY <2>1, <3>1, <3>2, <3>3
  <2>7. \A i : Standing(pre, i) <=> Standing(audit, i) /\ i <= t
    <3>1. ASSUME NEW i, Standing(pre, i)
          PROVE  Standing(audit, i) /\ i <= t
      <4>1. i \in 1 .. t /\ i \in 1 .. n /\ IsDecision(audit[i])
        BY <2>1, <2>4, <3>1 DEF Standing
      <4>2. ASSUME NEW j \in 1 .. n, j > i, IsRollback(audit[j])
            PROVE  i <= audit[j].toSeq
        <5>1. audit[j].toSeq \in Nat
          <6>1. audit[j] \in Entry
            BY <2>1, <4>2, ElementOfSeq
          <6> QED
            BY <6>1 DEF Entry
        <5>2. CASE j <= t
          <6>1. j \in 1 .. t /\ IsRollback(pre[j]) /\ pre[j] = audit[j]
            BY <2>4, <4>2, <5>2
          <6> QED
            BY <2>4, <3>1, <4>2, <6>1 DEF Standing
        <5>3. CASE j > t
          BY <2>1, <4>1, <4>2, <5>1, <5>3
        <5> QED
          BY <2>1, <5>2, <5>3
      <4> QED
        BY <2>1, <4>1, <4>2 DEF Standing
    <3>2. ASSUME NEW i, Standing(audit, i), i <= t
          PROVE  Standing(pre, i)
      <4>1. i \in 1 .. t /\ IsDecision(pre[i])
        BY <2>1, <2>4, <3>2 DEF Standing
      <4>2. ASSUME NEW j \in 1 .. t, j > i, IsRollback(pre[j])
            PROVE  i <= pre[j].toSeq
        <5>1. j \in DOMAIN audit /\ pre[j] = audit[j]
          BY <2>1, <2>4
        <5> QED
          BY <3>2, <4>2, <5>1 DEF Standing
      <4> QED
        BY <2>4, <4>1, <4>2 DEF Standing
    <3> QED
      BY <3>1, <3>2
  <2>8. \A i : Standing(pre, i) =>
          /\ i \in DOMAIN pre /\ i \in DOMAIN audit' /\ pre[i] = audit'[i]
          /\ pre[i].target \in DOMAIN facts
    <3> SUFFICES ASSUME NEW i, Standing(pre, i)
                 PROVE  /\ i \in DOMAIN pre /\ i \in DOMAIN audit' /\ pre[i] = audit'[i]
                        /\ pre[i].target \in DOMAIN facts
      OBVIOUS
    <3>1. Standing(audit, i) /\ i \in 1 .. t /\ i \in 1 .. n
      BY <2>1, <2>4, <2>7 DEF Standing
    <3>2. audit[i].target \in DOMAIN facts
      BY <2>1, <3>1 DEF IInv, DecisionsAgree
    <3> QED
      BY <2>1, <2>4, <2>5, <3>1, <3>2
  <2>9. \A i : Standing(audit', i) <=> Standing(pre, i)
    BY <2>6, <2>7
  <2>10. \A g, h \in DOMAIN facts : Closes(facts', g, h) <=> Closes(facts, g, h)
    <3>1. \A h \in DOMAIN facts : ClaimOf(facts'[h]) = ClaimOf(facts[h])
      BY <2>1, <2>3, RollbackKeepsContent DEF SameContent
    <3> QED
      BY <3>1 DEF Closes, ClaimOf
  <2>11. ASSUME NEW i, Standing(pre, i)
         PROVE  ClosersInLog(audit, i)' = ClosersInLog(pre, i)
    <3>1. ClosersInLog(audit, i)' =
            {j \in DOMAIN audit' : /\ j > i
                                   /\ Standing(audit', j) /\ audit'[j].grants
                                   /\ Closes(facts', audit'[j].target, audit'[i].target)}
      BY DEF ClosersInLog
    <3>2. ASSUME NEW j, Standing(pre, j)
          PROVE  Closes(facts', audit'[j].target, audit'[i].target)
                   <=> Closes(facts, pre[j].target, pre[i].target)
      BY <2>8, <2>10, <2>11, <3>2
    <3> QED
      BY <2>8, <2>9, <3>1, <3>2 DEF ClosersInLog
  <2>12. f \in DOMAIN facts' /\ facts'[f].status = StatusInLog(audit, f)'
    <3>1. TrustFromLog'
      BY TableIsViewNext
    <3>2. f \in DOMAIN facts'
      BY <2>3 DEF RolledBack
    <3> QED
      BY <3>1, <3>2 DEF TrustFromLog
  <2>13. StatusInLog(audit, f)' = StatusInLog(pre, f)
    <3> DEFINE Is(i) == Standing(pre, i) /\ pre[i].target = f
    <3>1. /\ (\E i \in DOMAIN audit' : Standing(audit', i) /\ audit'[i].target = f
                                         /\ IsRejection(audit'[i]))
               <=> \E i \in DOMAIN pre : Is(i) /\ IsRejection(pre[i])
          /\ (\E i \in DOMAIN audit' : /\ Standing(audit', i) /\ audit'[i].target = f
                                       /\ audit'[i].grants
                                       /\ ClosersInLog(audit, i)' = {})
               <=> \E i \in DOMAIN pre : Is(i) /\ pre[i].grants /\ ClosersInLog(pre, i) = {}
          /\ (\E i \in DOMAIN audit' : Standing(audit', i) /\ audit'[i].target = f
                                         /\ audit'[i].grants)
               <=> \E i \in DOMAIN pre : Is(i) /\ pre[i].grants
      BY <2>8, <2>9, <2>11
    <3> QED
      BY <3>1 DEF StatusInLog
  <2> QED
    BY <2>12, <2>13 DEF pre
<1>2. IInv /\ [Next]_vars => IInv'
  BY NextIInv
<1> QED
  BY <1>1, <1>2, Invariance, PTL DEF Spec, RollbackRestores

-----------------------------------------------------------------------------
(* The database implements the ledger *)

\* The claims and the standing decisions that the columns hold.
ClaimTable == [f \in DOMAIN facts |-> ClaimOf(facts[f])]
Entries == {DecisionOf(f) : f \in Decided}

\* What a decided fact's entry says.
LEMMA EntryOf ==
  ASSUME NEW f
  PROVE  /\ DecisionOf(f).rank = facts[f].decisionSeq
         /\ DecisionOf(f).fact = f
         /\ DecisionOf(f).verdict = IF facts[f].status = "rejected" THEN "reject" ELSE "grant"
BY DEF DecisionOf

\* The trusted facts are those that prevail among the standing decisions.
LEMMA WhoPrevails == IInv => TrustedFacts = Ledger!Prevailing(ClaimTable, Entries)
<1> SUFFICES ASSUME IInv PROVE TrustedFacts = Ledger!Prevailing(ClaimTable, Entries)
  OBVIOUS
<1>1. \A f \in DOMAIN facts :
        /\ facts[f] \in Fact /\ RowOK(facts[f]) /\ CloserOK(facts, f)
        /\ facts[f].decisionSeq \in Nat
        /\ \A g \in DOMAIN facts : ClosedInTime(facts, f, g)
  BY DEF IInv, TypeOK, RowsAgree, Fact
<1>2. ASSUME NEW f \in DOMAIN facts
      PROVE  /\ f \in Decided <=> facts[f].status # "proposed"
             /\ Granted(facts[f]) <=> f \in Decided /\ facts[f].status # "rejected"
  BY <1>1 DEF Decided, RowOK, Granted, Fact, Status
<1>3. ASSUME NEW f \in DOMAIN facts, NEW g \in DOMAIN facts
      PROVE  <<ClaimTable[g], ClaimTable[f]>> \in ClosingPairs /\ g # f
               <=> Closes(facts, g, f)
  <2>1. /\ ClaimTable[f] = ClaimOf(facts[f]) /\ ClaimTable[g] = ClaimOf(facts[g])
        /\ ClaimOf(facts[f]) \in ClaimSet /\ ClaimOf(facts[g]) \in ClaimSet
    BY <1>1 DEF ClaimTable, ClaimOf, ClaimSet, Fact
  <2>2. <<ClaimOf(facts[g]), ClaimOf(facts[f])>> \in ClosingPairs
          <=> /\ facts[g].subject = facts[f].subject
              /\ facts[g].object = facts[f].object
              /\ facts[f].predicate \in ClosedBy(facts[g].predicate)
    BY <2>1 DEF ClosingPairs, ClaimOf
  <2> QED
    BY <2>1, <2>2 DEF Closes
<1>4. ASSUME NEW f \in Decided
      PROVE  Ledger!Prevails(ClaimTable, Entries, DecisionOf(f))
               <=> facts[f].status = "trusted"
  <2>1. f \in DOMAIN facts
    BY DEF Decided
  <2>2. CASE facts[f].status = "trusted"
    <3> SUFFICES ASSUME NEW e \in Entries, e.verdict = "grant",
                        e.rank > DecisionOf(f).rank, e.fact # DecisionOf(f).fact,
                        <<ClaimTable[e.fact], ClaimTable[DecisionOf(f).fact]>> \in ClosingPairs
                 PROVE  FALSE
      BY <2>2, EntryOf DEF Ledger!Prevails
    <3>1. PICK g \in Decided : e = DecisionOf(g)
      BY DEF Entries
    <3>2. /\ g \in DOMAIN facts /\ g # f /\ facts[g].status # "rejected"
          /\ facts[g].decisionSeq > facts[f].decisionSeq
          /\ <<ClaimTable[g], ClaimTable[f]>> \in ClosingPairs
      BY <3>1, EntryOf DEF Decided
    <3>3. Closes(facts, g, f) /\ Granted(facts[g]) /\ Granted(facts[f])
      BY <1>2, <1>3, <2>1, <2>2, <3>1, <3>2 DEF Granted
    <3>4. ClosedLater(facts, f, g)
      BY <1>1, <2>1, <3>2, <3>3 DEF ClosedLater
    <3> QED
      BY <1>1, <2>1, <2>2, <3>2, <3>4 DEF ClosedInTime
  <2>3. CASE facts[f].status = "superseded"
    <3> DEFINE h == facts[f].supersededBy
    <3>1. h \in DOMAIN facts /\ ClosedLater(facts, f, h)
      BY <1>1, <2>1, <2>3 DEF CloserOK
    <3> HIDE DEF h
    <3>2. /\ h \in Decided /\ h # f /\ facts[h].status # "rejected"
          /\ facts[h].decisionSeq > facts[f].decisionSeq
          /\ <<ClaimTable[h], ClaimTable[f]>> \in ClosingPairs
      BY <1>1, <1>2, <1>3, <2>1, <3>1 DEF ClosedLater
    <3>3. /\ DecisionOf(h) \in Entries /\ DecisionOf(h).verdict = "grant"
          /\ DecisionOf(h).rank > DecisionOf(f).rank
          /\ DecisionOf(h).fact = h /\ DecisionOf(f).fact = f
      BY <3>2, EntryOf DEF Entries
    <3>4. ~Ledger!Prevails(ClaimTable, Entries, DecisionOf(f))
      BY <3>2, <3>3 DEF Ledger!Prevails
    <3> QED
      BY <2>3, <3>4
  <2>4. CASE facts[f].status = "rejected"
    BY <2>4, EntryOf DEF Ledger!Prevails
  <2> QED
    BY <1>1, <1>2, <2>1, <2>2, <2>3, <2>4 DEF Fact, Status
<1>5. Ledger!Prevailing(ClaimTable, Entries) =
        {f \in Decided : Ledger!Prevails(ClaimTable, Entries, DecisionOf(f))}
  <2>1. ASSUME NEW f \in Decided, Ledger!Prevails(ClaimTable, Entries, DecisionOf(f))
        PROVE  f \in Ledger!Prevailing(ClaimTable, Entries)
    <3>1. DecisionOf(f) \in Entries /\ DecisionOf(f).fact = f
      BY EntryOf DEF Entries
    <3> QED
      BY <2>1, <3>1 DEF Ledger!Prevailing
  <2>2. ASSUME NEW x \in Ledger!Prevailing(ClaimTable, Entries)
        PROVE  x \in {f \in Decided : Ledger!Prevails(ClaimTable, Entries, DecisionOf(f))}
    <3>1. PICK d \in Entries : Ledger!Prevails(ClaimTable, Entries, d) /\ x = d.fact
      BY DEF Ledger!Prevailing
    <3>2. PICK f \in Decided : d = DecisionOf(f)
      BY DEF Entries
    <3> QED
      BY <3>1, <3>2, EntryOf
  <2> QED
    BY <2>1, <2>2
<1>6. TrustedFacts = {f \in Decided : facts[f].status = "trusted"}
  BY <1>2 DEF TrustedFacts, Decided
<1> QED
  BY <1>4, <1>5, <1>6

\* The same after a step.
LEMMA WhoPrevailsNext ==
  IInv' => TrustedFacts' = Ledger!Prevailing(ClaimTable', Entries')
<1>1. IInv' => (TrustedFacts = Ledger!Prevailing(ClaimTable, Entries))'
  BY WhoPrevails, PTL
<1> QED
  BY <1>1

\* A decided fact keeps its entry when its decision stays.
LEMMA EntryKept ==
  ASSUME NEW f, SameDecision(facts[f], facts'[f])
  PROVE  DecisionOf(f)' = DecisionOf(f)
BY DEF SameDecision, DecisionOf

\* Steps that decide nothing leave the ledger alone.
LEMMA QuietIsStutter ==
  ASSUME IInv, IInv', DOMAIN facts' = DOMAIN facts,
         \A f \in DOMAIN facts : SameDecision(facts[f], facts'[f])
  PROVE  UNCHANGED Ledger!tvars
<1>1. ClaimTable' = ClaimTable
  BY DEF ClaimTable, SameDecision
<1>2. Decided' = Decided
  BY DEF Decided, SameDecision
<1>3. \A f \in Decided : DecisionOf(f)' = DecisionOf(f)
  BY EntryKept DEF Decided
<1>4. Entries' = Entries
  BY <1>2, <1>3 DEF Entries
<1>5. TrustedFacts' = TrustedFacts
  BY <1>1, <1>4, WhoPrevails, WhoPrevailsNext
<1> QED
  BY <1>1, <1>4, <1>5 DEF Ledger!tvars, ClaimTable, Entries

\* The decision on g is recorded after all that stand.
LEMMA DecisionIsRecorded ==
  ASSUME IInv, NEW g \in DOMAIN facts', facts'[g].decisionSeq = Len(audit) + 1,
         g \in DOMAIN facts => facts[g].decisionSeq = Null,
         DOMAIN facts' = DOMAIN facts \cup {g},
         \A f \in DOMAIN facts : f # g => SameDecision(facts[f], facts'[f])
  PROVE  /\ Entries' = Entries \cup {DecisionOf(g)'}
         /\ DecisionOf(g)'.fact = g
         /\ DecisionOf(g)'.verdict = IF facts'[g].status = "rejected" THEN "reject" ELSE "grant"
         /\ \A e \in Entries : e.rank < DecisionOf(g)'.rank /\ e.fact # g
<1>1. Len(audit) \in Nat
  BY DEF IInv, TypeOK
<1>2. /\ DecisionOf(g)'.fact = g /\ DecisionOf(g)'.rank = Len(audit) + 1
      /\ DecisionOf(g)'.verdict = IF facts'[g].status = "rejected" THEN "reject" ELSE "grant"
  BY DEF DecisionOf
<1>3. \A f \in Decided : f \in DOMAIN facts /\ f # g /\ facts[f].decisionSeq # Null
  BY DEF Decided
<1>4. \A f \in Decided : DecisionOf(f)' = DecisionOf(f)
  BY <1>3, EntryKept
<1>5. Decided' = Decided \cup {g}
  BY <1>1 DEF Decided, SameDecision, Null
<1>6. Entries' = Entries \cup {DecisionOf(g)'}
  BY <1>4, <1>5 DEF Entries
<1>7. ASSUME NEW e \in Entries
      PROVE  e.rank < Len(audit) + 1 /\ e.fact # g
  <2>1. PICK f \in Decided : e = DecisionOf(f)
    BY DEF Entries
  <2>2. facts[f].decisionSeq \in 0 .. Len(audit)
    BY <1>3, Numbered
  <2> QED
    BY <1>1, <1>3, <2>1, <2>2, EntryOf
<1> QED
  BY <1>2, <1>6, <1>7

\* Deciding a fact of the review queue is the ledger's Decide.
LEMMA ReviewIsDecide ==
  ASSUME IInv, IInv', NEW g \in DOMAIN facts, DOMAIN facts' = DOMAIN facts,
         facts[g].decisionSeq = Null, facts'[g].decisionSeq = Len(audit) + 1,
         ClaimOf(facts[g]) = ClaimOf(facts'[g]),
         \A f \in DOMAIN facts : f # g => SameDecision(facts[f], facts'[f])
  PROVE  Ledger!Decide(g)
<1>1. ClaimTable' = ClaimTable
  BY DEF ClaimTable, SameDecision
<1> DEFINE d == DecisionOf(g)'
<1>2. /\ Entries' = Entries \cup {d} /\ d.fact = g
      /\ d.verdict = IF facts'[g].status = "rejected" THEN "reject" ELSE "grant"
      /\ \A e \in Entries : e.rank < d.rank /\ e.fact # g
  BY DecisionIsRecorded
<1> HIDE DEF d
<1>3. d.verdict \in {"grant", "reject"}
  BY <1>2
<1>4. TrustedFacts' = Ledger!Prevailing(ClaimTable', Entries')
  BY WhoPrevailsNext
<1>5. g \in DOMAIN ClaimTable
  BY DEF ClaimTable
<1> QED
  BY <1>1, <1>2, <1>3, <1>4, <1>5
     DEF Ledger!Decide, Ledger!Undecided, Ledger!Records, Ledger!Verdict, ClaimTable, Entries

\* A new row is a new claim of the ledger.
LEMMA NewRowIsClaim ==
  ASSUME NEW g, g \notin DOMAIN facts, DOMAIN facts' = DOMAIN facts \cup {g},
         \A f \in DOMAIN facts : SameDecision(facts[f], facts'[f])
  PROVE  /\ g \notin DOMAIN ClaimTable
         /\ ClaimTable' = Ledger!Adds(ClaimTable, g, ClaimOf(facts'[g]))
BY DEF ClaimTable, Ledger!Adds, SameDecision

\* A grant decides one row, and no other row's decision.
Grants(fs, gs, g, seq) ==
  /\ gs[g].decisionSeq = seq /\ gs[g].status = "trusted"
  /\ ClaimOf(gs[g]) = ClaimOf(fs[g])
  /\ \A f \in DOMAIN fs : f # g => SameDecision(fs[f], gs[f])

\* Marking a fact trusted is such a grant.
LEMMA GrantDecides ==
  ASSUME NEW D \in SUBSET FactId, NEW fs \in [D -> Fact], NEW g \in D,
         NEW by \in Granter, NEW now \in Nat, NEW seq \in Nat
  PROVE  Grants(fs, MarkTrusted(fs, g, by, now, seq), g, seq)
<1> DEFINE mt == MarkTrusted(fs, g, by, now, seq)
<1>1. mt[g] = TrustedRow(fs[g], by, now, seq)
  <2>1. fs[g] \in Fact /\ g \in DOMAIN fs
    OBVIOUS
  <2>2. /\ TrustedRow(fs[g], by, now, seq).subject = fs[g].subject
        /\ TrustedRow(fs[g], by, now, seq).predicate = fs[g].predicate
        /\ TrustedRow(fs[g], by, now, seq).object = fs[g].object
    BY <2>1 DEF TrustedRow, Fact
  <2> QED
    BY <2>1, <2>2, MarkTrustedAt
<1>2. \A f \in D : f # g => SameDecision(fs[f], mt[f])
  BY MarkTrustedOthers
<1>3. fs[g] \in Fact /\ DOMAIN fs = D
  OBVIOUS
<1> HIDE DEF mt
<1>4. mt[g].decisionSeq = seq /\ mt[g].status = "trusted" /\ ClaimOf(mt[g]) = ClaimOf(fs[g])
  BY <1>1, <1>3, TrustedRowFields
<1>5. Grants(fs, mt, g, seq)
  BY <1>2, <1>3, <1>4 DEF Grants
<1> QED
  BY <1>5 DEF mt

\* A new claim is proposed, and granted in the same step when an allowlisted
\* source made it.
LEMMA AssertNewIsPropose ==
  ASSUME IInv, IInv', NEW who \in Principal, NEW origin \in FactOrigin,
         NEW s \in Key, NEW p \in Predicate, NEW o \in Key,
         NEW vf \in Nat, NEW vt \in Nat, NEW c \in Content, NEW g \in FactId,
         AssertNew(who, origin, s, p, o, vf, vt, c, g)
  PROVE  \E k \in ClaimSet : Ledger!Propose(g, k) \/ Ledger!ProposeGranted(g, k)
<1> DEFINE trusts == InitialStatus(origin) = "trusted"
           row == NewFact(s, p, o, vf, vt, c, origin, who)
           added == AddFact(facts, g, row)
           D == DOMAIN facts \cup {g}
           by == <<"allowlist", who>>
           k == ClaimOf(facts'[g])
<1>1. /\ g \notin DOMAIN facts /\ DOMAIN facts \in SUBSET FactId
      /\ facts \in [DOMAIN facts -> Fact] /\ RowsAgree(facts)
      /\ clock \in Nat /\ NextSeq \in Nat /\ NextSeq = Len(audit) + 1
      /\ by \in Granter
      /\ D \in SUBSET FactId /\ g \in D
  BY DEF IInv, TypeOK, AssertNew, Granter, NextSeq
<1>2. facts' = IF trusts THEN MarkTrusted(added, g, by, clock, NextSeq) ELSE added
  BY DEF AssertNew
<1>3. row \in Fact /\ RowOK(row) /\ row.status = "proposed" /\ row.decisionSeq = Null
  BY <1>1, NewFactRow DEF AssertNew
<1> HIDE DEF row, trusts, by
<1>4. added \in [D -> Fact]
  BY <1>1, <1>3, AddFactKeepsRows
<1>5. added[g] = row /\ \A h \in DOMAIN facts : added[h] = facts[h]
  BY <1>1 DEF AddFact
<1> HIDE DEF added
<1>6. DOMAIN facts' = D /\ facts' \in [D -> Fact]
  <2>1. AddsRow(s, p, o, vt, c, g)
    BY AssertNewContent
  <2>2. DOMAIN facts' = D
    BY <2>1 DEF AddsRow
  <2>3. facts' \in [DOMAIN facts' -> Fact]
    BY DEF IInv, TypeOK
  <2> QED
    BY <2>2, <2>3
<1>7. k \in ClaimSet
  <2>1. facts'[g] \in Fact
    BY <1>1, <1>6
  <2> QED
    BY <2>1 DEF ClaimSet, ClaimOf, Fact
<1>8. CASE trusts
  <2>1. facts' = MarkTrusted(added, g, by, clock, NextSeq)
    BY <1>2, <1>8
  <2> HIDE DEF D, k
  <2>2. Grants(added, MarkTrusted(added, g, by, clock, NextSeq), g, NextSeq)
    BY <1>1, <1>4, GrantDecides
  <2>3. Grants(added, facts', g, NextSeq) /\ DOMAIN added = D
    BY <1>4, <2>1, <2>2
  <2>4. facts'[g].decisionSeq = Len(audit) + 1 /\ facts'[g].status = "trusted"
    BY <1>1, <2>3 DEF Grants
  <2>5. \A h \in D : h # g => SameDecision(added[h], facts'[h])
    BY <2>3 DEF Grants
  <2>6. \A h \in DOMAIN facts : SameDecision(facts[h], facts'[h])
    BY <1>1, <1>5, <2>5 DEF D
  <2> DEFINE d == DecisionOf(g)'
  <2>7. /\ Entries' = Entries \cup {d} /\ d.fact = g /\ d.verdict = "grant"
        /\ \A e \in Entries : e.rank < d.rank /\ e.fact # g
    BY <1>1, <1>6, <2>4, <2>6, DecisionIsRecorded DEF D
  <2> HIDE DEF d
  <2>8. /\ g \notin DOMAIN ClaimTable
        /\ ClaimTable' = Ledger!Adds(ClaimTable, g, k)
    BY <1>1, <1>6, <2>6, NewRowIsClaim DEF D, k
  <2>9. TrustedFacts' = Ledger!Prevailing(ClaimTable', Entries')
    BY WhoPrevailsNext
  <2>10. Ledger!ProposeGranted(g, k)
    BY <2>7, <2>8, <2>9
       DEF Ledger!ProposeGranted, Ledger!Records, Ledger!Verdict, ClaimTable, Entries
  <2> QED
    BY <1>7, <2>10
<1>9. CASE ~trusts
  <2>1. facts' = added
    BY <1>2, <1>9
  <2>2. /\ \A h \in DOMAIN facts : facts'[h] = facts[h]
        /\ facts'[g].decisionSeq = Null /\ facts'[g].status = "proposed"
    BY <1>3, <1>5, <2>1
  <2>3. \A h \in DOMAIN facts : SameDecision(facts[h], facts'[h])
    BY <2>2 DEF SameDecision
  <2>4. /\ Decided' = Decided /\ TrustedFacts' = TrustedFacts
    BY <1>1, <1>6, <2>2 DEF Decided, TrustedFacts
  <2>5. \A h \in Decided : DecisionOf(h)' = DecisionOf(h)
    BY <2>3, EntryKept DEF Decided
  <2>6. Entries' = Entries
    BY <2>4, <2>5 DEF Entries
  <2> HIDE DEF k
  <2>7. /\ g \notin DOMAIN ClaimTable
        /\ ClaimTable' = Ledger!Adds(ClaimTable, g, k)
    BY <1>1, <1>6, <2>3, NewRowIsClaim DEF k
  <2>8. Ledger!Propose(g, k)
    BY <2>4, <2>6, <2>7 DEF Ledger!Propose, ClaimTable, Entries
  <2> QED
    BY <1>7, <2>8
<1> QED
  BY <1>8, <1>9

\* A corroboration decides a proposal, or decides nothing.
LEMMA CorroborateIsDecide ==
  ASSUME IInv, IInv', NEW who \in Principal, NEW origin \in FactOrigin,
         NEW s \in Key, NEW p \in Predicate, NEW o \in Key,
         NEW vf \in Nat, NEW vt \in Nat, NEW c \in Content, NEW f \in FactId,
         Corroborate(who, origin, s, p, o, vf, vt, c, f)
  PROVE  Ledger!Decide(f) \/ UNCHANGED Ledger!tvars
<1> DEFINE promote == /\ facts[f].status = "proposed"
                      /\ InitialStatus(origin) = "trusted"
           seen == AddEvidence(facts, f, c)
           D == DOMAIN facts
           by == <<"allowlist", who>>
<1>1. /\ f \in D /\ D \in SUBSET FactId
      /\ facts \in [D -> Fact]
      /\ clock \in Nat /\ NextSeq \in Nat /\ NextSeq = Len(audit) + 1 /\ by \in Granter
  BY DEF IInv, TypeOK, Corroborate, Existing, Matching, Granter, NextSeq
<1>2. /\ facts' = IF promote THEN MarkTrusted(seen, f, by, clock, NextSeq) ELSE seen
      /\ promote => facts[f].status = "proposed"
  BY DEF Corroborate
<1> HIDE DEF promote, by
<1>3. seen \in [D -> Fact]
  BY <1>1, AddEvidenceRows
<1>4. \A h \in D : SameDecision(facts[h], seen[h]) /\ seen[h].status = facts[h].status
  <2>1. /\ \A h \in D : h # f => seen[h] = facts[h]
        /\ ClaimOf(seen[f]) = ClaimOf(facts[f])
        /\ seen[f].status = facts[f].status
        /\ seen[f].decisionSeq = facts[f].decisionSeq
        /\ seen[f].confirmedAt = facts[f].confirmedAt
    BY <1>1, AddEvidenceRows
  <2> HIDE DEF seen
  <2> QED
    BY <2>1 DEF SameDecision, Granted
<1> HIDE DEF seen
<1>5. DOMAIN facts' = D
  BY <1>1, CorroborateContent
<1>6. CASE promote
  <2>1. facts' = MarkTrusted(seen, f, by, clock, NextSeq)
    BY <1>2, <1>6
  <2>2. facts[f].decisionSeq = Null
    BY <1>1, <1>2, <1>6, Numbered
  <2> HIDE DEF D
  <2>3. Grants(seen, MarkTrusted(seen, f, by, clock, NextSeq), f, NextSeq)
    BY <1>1, <1>3, GrantDecides
  <2>4. Grants(seen, facts', f, NextSeq) /\ DOMAIN seen = D
    BY <1>3, <2>1, <2>3
  <2>5. facts'[f].decisionSeq = Len(audit) + 1 /\ ClaimOf(facts'[f]) = ClaimOf(seen[f])
    BY <1>1, <2>4 DEF Grants
  <2>6. \A h \in D : h # f => SameDecision(seen[h], facts'[h])
    BY <2>4 DEF Grants
  <2>7. \A h \in D : h # f => SameDecision(facts[h], facts'[h])
    BY <1>4, <2>6 DEF SameDecision
  <2>8. ClaimOf(facts[f]) = ClaimOf(facts'[f])
    BY <1>1, <1>4, <2>5 DEF SameDecision
  <2>9. Ledger!Decide(f)
    BY <1>1, <1>5, <2>2, <2>5, <2>7, <2>8, ReviewIsDecide DEF D
  <2> QED
    BY <2>9
<1>7. CASE ~promote
  BY <1>2, <1>4, <1>5, <1>7, QuietIsStutter
<1> QED
  BY <1>6, <1>7

\* A decision on the review page decides one proposal.
LEMMA ConfirmOrRejectIsDecide ==
  ASSUME IInv, IInv', NEW r \in Reviewer, NEW f \in FactId,
         ConfirmFact(r, f) \/ RejectFact(r, f)
  PROVE  Ledger!Decide(f)
<1> DEFINE by == <<"review", r>>
           D == DOMAIN facts
           row == RejectedRow(facts[f], r, clock, NextSeq)
<1>1. /\ f \in D /\ D \in SUBSET FactId /\ facts[f].status = "proposed"
      /\ facts \in [D -> Fact] /\ facts[f] \in Fact
      /\ clock \in Nat /\ NextSeq \in Nat /\ NextSeq = Len(audit) + 1 /\ by \in Granter
  <2>1. f \in D /\ facts[f].status = "proposed"
    BY DEF ConfirmFact, RejectFact
  <2>2. /\ D \in SUBSET FactId /\ facts \in [D -> Fact]
        /\ clock \in Nat /\ NextSeq \in Nat /\ NextSeq = Len(audit) + 1
    BY DEF IInv, TypeOK, NextSeq
  <2>3. by \in Granter
    BY DEF Granter
  <2> QED
    BY <2>1, <2>2, <2>3
<1>2. DOMAIN facts' = D /\ facts[f].decisionSeq = Null
  BY <1>1, ReviewContent, Numbered
<1>3. CASE ConfirmFact(r, f)
  <2>1. facts' = MarkTrusted(facts, f, by, clock, NextSeq)
    BY <1>3 DEF ConfirmFact
  <2> HIDE DEF by, D
  <2>2. Grants(facts, MarkTrusted(facts, f, by, clock, NextSeq), f, NextSeq)
    BY <1>1, GrantDecides
  <2>3. Grants(facts, facts', f, NextSeq)
    BY <2>1, <2>2
  <2>4. /\ facts'[f].decisionSeq = Len(audit) + 1 /\ ClaimOf(facts'[f]) = ClaimOf(facts[f])
        /\ \A h \in D : h # f => SameDecision(facts[h], facts'[h])
    BY <1>1, <2>3 DEF Grants, D
  <2> QED
    BY <1>1, <1>2, <2>4, ReviewIsDecide DEF D
<1>4. CASE RejectFact(r, f)
  <2>1. facts' = [facts EXCEPT ![f] = row]
    BY <1>4 DEF RejectFact
  <2>2. row.decisionSeq = Len(audit) + 1 /\ ClaimOf(row) = ClaimOf(facts[f])
    BY <1>1, RejectedRowFields
  <2> HIDE DEF row
  <2>3. facts'[f] = row /\ \A h \in D : h # f => SameDecision(facts[h], facts'[h])
    BY <1>1, <2>1 DEF SameDecision
  <2> QED
    BY <1>1, <1>2, <2>2, <2>3, ReviewIsDecide
<1> QED
  BY <1>3, <1>4

\* A rollback takes back the latest decisions of the ledger.
LEMMA RollbackIsUndo ==
  ASSUME IInv, IInv', NEW r \in Reviewer, NEW t \in 0 .. Len(audit), RollbackTo(r, t)
  PROVE  Ledger!Undo
<1>1. /\ facts' = RolledBack(facts, t) /\ t \in Nat
      /\ DOMAIN facts \in SUBSET FactId /\ facts \in [DOMAIN facts -> Fact]
      /\ RowsAgree(facts)
  BY DEF RollbackTo, IInv, TypeOK
<1>2. /\ DOMAIN facts' = DOMAIN facts
      /\ \A f \in DOMAIN facts : ClaimOf(facts'[f]) = ClaimOf(facts[f])
  <2>1. /\ DOMAIN RolledBack(facts, t) = DOMAIN facts
        /\ \A f \in DOMAIN facts : SameContent(facts[f], RolledBack(facts, t)[f])
    BY <1>1, RollbackKeepsContent
  <2> QED
    BY <1>1, <2>1, SameContentFields
<1>3. \A f \in DOMAIN facts :
        /\ facts[f].decisionSeq \in Nat
        /\ facts[f].decisionSeq > t => facts'[f].decisionSeq = Null
        /\ facts[f].decisionSeq <= t => SameDecision(facts[f], facts'[f])
  <2> TAKE f \in DOMAIN facts
  <2>1. facts[f] \in Fact /\ facts[f].decisionSeq \in Nat
    BY <1>1 DEF Fact
  <2>2. facts[f].decisionSeq > t => facts'[f] = RevertedRow(facts[f])
    BY <1>1, RolledBackRows
  <2>3. facts[f].decisionSeq <= t => SameDecision(facts[f], facts'[f])
    BY <1>1, RolledBackRows
  <2> QED
    BY <2>1, <2>2, <2>3, RevertedRowFields
<1>4. ClaimTable' = ClaimTable
  BY <1>2 DEF ClaimTable
<1>5. Decided' = {f \in Decided : facts[f].decisionSeq <= t}
  BY <1>2, <1>3 DEF Decided, SameDecision, Null
<1>6. \A f \in Decided' : f \in DOMAIN facts /\ DecisionOf(f)' = DecisionOf(f)
  BY <1>3, <1>5, EntryKept DEF Decided
<1>7. Entries' = {DecisionOf(f) : f \in Decided'}
  BY <1>6 DEF Entries
<1>8. Entries' \subseteq Entries
  BY <1>5, <1>7 DEF Entries
<1>9. ASSUME NEW d \in Entries', NEW e \in Entries \ Entries'
      PROVE  d.rank < e.rank
  <2>1. PICK f \in Decided' : d = DecisionOf(f)
    BY <1>7
  <2>2. PICK g \in Decided : e = DecisionOf(g)
    BY DEF Entries
  <2>3. facts[f].decisionSeq <= t /\ facts[f].decisionSeq \in Nat
    BY <1>3, <1>5, <1>6
  <2>4. g \notin Decided' /\ facts[g].decisionSeq \in Nat
    BY <1>3, <1>7, <2>2 DEF Decided
  <2>5. facts[g].decisionSeq > t
    BY <1>1, <1>5, <2>4
  <2> QED
    BY <1>1, <2>1, <2>2, <2>3, <2>4, <2>5, EntryOf
<1>10. TrustedFacts' = Ledger!Prevailing(ClaimTable', Entries')
  BY WhoPrevailsNext
<1> QED
  BY <1>4, <1>8, <1>9, <1>10 DEF Ledger!Undo, ClaimTable, Entries

\* Every step of the database is one of the ledger, or a stutter.
LEMMA NextIsTNext == IInv /\ IInv' /\ [Next]_vars => [Ledger!TNext]_(Ledger!tvars)
<1> SUFFICES ASSUME IInv, IInv', [Next]_vars PROVE Ledger!TNext \/ UNCHANGED Ledger!tvars
  BY DEF Ledger!TNext
<1>1. CASE facts' = facts
  BY <1>1, QuietIsStutter DEF SameDecision
<1>2. CASE AssertFact
  <2>1. PICK who \in Principal, origin \in Origin, s \in Key, p \in Asserted,
             o \in Key, vf \in ValidFrom \cup {clock}, vt \in ValidTo \cup {Null},
             c \in Content, f \in FactId :
               \/ AssertNew(who, origin, s, p, o, vf, vt, c, f)
               \/ Corroborate(who, origin, s, p, o, vf, vt, c, f)
    BY <1>2 DEF AssertFact
  <2>2. origin \in FactOrigin /\ p \in Predicate /\ vf \in Nat /\ vt \in Nat
    BY ConstantsOK DEF IInv, TypeOK, Null
  <2>3. CASE AssertNew(who, origin, s, p, o, vf, vt, c, f)
    <3>1. \E k \in ClaimSet : Ledger!Propose(f, k) \/ Ledger!ProposeGranted(f, k)
      BY <2>2, <2>3, AssertNewIsPropose
    <3> QED
      BY <3>1 DEF Ledger!TNext
  <2>4. CASE Corroborate(who, origin, s, p, o, vf, vt, c, f)
    <3>1. Ledger!Decide(f) \/ UNCHANGED Ledger!tvars
      BY <2>2, <2>4, CorroborateIsDecide
    <3> QED
      BY <3>1 DEF Ledger!TNext
  <2> QED
    BY <2>1, <2>3, <2>4
<1>3. CASE \E r \in Reviewer, f \in FactId : ConfirmFact(r, f) \/ RejectFact(r, f)
  <2>1. \E f \in FactId : Ledger!Decide(f)
    BY <1>3, ConfirmOrRejectIsDecide
  <2> QED
    BY <2>1 DEF Ledger!TNext
<1>4. CASE \E r \in Reviewer, t \in 0 .. Len(audit) : RollbackTo(r, t)
  <2>1. Ledger!Undo
    BY <1>4, RollbackIsUndo
  <2> QED
    BY <2>1 DEF Ledger!TNext
<1> QED
  BY <1>1, <1>2, <1>3, <1>4 DEF Next, RecordEpisode, RecordDuplicate, Tick, vars

\* No facts, no claims.
LEMMA NoClaims == [f \in {} |-> ClaimOf(facts[f])] = << >>
OBVIOUS

\* The database implements the ledger of standing decisions: every write,
\* review and rollback is one of its steps, or leaves it alone, and the
\* trusted facts are always those that prevail.  (facts.ts, review.ts)
THEOREM ImplementsItsLedger == Spec => ImplementsLedger
<1>1. Init => Ledger!TInit
  BY NoClaims DEF Init, Ledger!TInit, Decided, TrustedFacts
<1>2. IInv /\ IInv' /\ [Next]_vars => [Ledger!TNext]_(Ledger!tvars)
  BY NextIsTNext
<1>3. IInv /\ [Next]_vars => IInv'
  BY NextIInv
<1> QED
  BY <1>1, <1>2, <1>3, Invariance, PTL DEF Spec, ImplementsLedger, Ledger!TSpec

-----------------------------------------------------------------------------
(* The write limit *)

\* A principal's counter is for its latest window and has counted every
\* write of that window; no window has more writes than the limit.
BudgetOf(p) ==
  /\ p \in DOMAIN counters =>
       /\ counters[p].window <= WindowAt(clock)
       /\ counters[p].count <= WritesPerMinute
  /\ \A w \in Nat :
       /\ Cardinality(WritesOf(p, w)) <= WritesPerMinute
       /\ WritesOf(p, w) # {} => p \in DOMAIN counters /\ w <= counters[p].window
       /\ p \in DOMAIN counters /\ w = counters[p].window
            => Cardinality(WritesOf(p, w)) <= counters[p].count

Budgets == \A p \in Principal : BudgetOf(p)

\* Time does not leave a window for an earlier one.
LEMMA WindowsForward ==
  ASSUME NEW t \in Nat
  PROVE  WindowAt(t) <= WindowAt(t + 1)
BY ConstantsOK DEF WindowAt

\* A window's writes can be counted.
LEMMA WritesCounted ==
  ASSUME audit \in Seq(Entry), NEW p, NEW w
  PROVE  IsFiniteSet(WritesOf(p, w)) /\ Cardinality(WritesOf(p, w)) \in Nat
<1>1. DOMAIN audit = 1 .. Len(audit) /\ Len(audit) \in Nat
  OBVIOUS
<1>2. IsFiniteSet(1 .. Len(audit))
  BY <1>1, FS_Interval
<1>3. WritesOf(p, w) \subseteq 1 .. Len(audit)
  BY <1>1 DEF WritesOf
<1>4. IsFiniteSet(WritesOf(p, w))
  BY <1>2, <1>3, FS_Subset
<1> QED
  BY <1>4, FS_CardinalityType

\* What one more entry adds to them.
LEMMA OneMoreEntry ==
  ASSUME audit \in Seq(Entry), NEW e, audit' = Append(audit, e), NEW p, NEW w
  PROVE  /\ Len(audit) + 1 \notin WritesOf(p, w)
         /\ IsWrite(e) /\ e.actor = p /\ WindowAt(e.at) = w
              => WritesOf(p, w)' = WritesOf(p, w) \cup {Len(audit) + 1}
         /\ ~(IsWrite(e) /\ e.actor = p /\ WindowAt(e.at) = w)
              => WritesOf(p, w)' = WritesOf(p, w)
<1> DEFINE n == Len(audit)
<1>1. /\ n \in Nat /\ DOMAIN audit = 1 .. n /\ DOMAIN audit' = 1 .. n + 1
      /\ audit'[n + 1] = e
      /\ \A i \in 1 .. n : audit'[i] = audit[i]
  OBVIOUS
<1> HIDE DEF n
<1>2. n + 1 \notin WritesOf(p, w)
  BY <1>1 DEF WritesOf
<1>3. WritesOf(p, w)' = {i \in DOMAIN audit' : /\ IsWrite(audit'[i])
                                               /\ audit'[i].actor = p
                                               /\ WindowAt(audit'[i].at) = w}
  BY DEF WritesOf
<1>4. \A i \in 1 .. n : i \in WritesOf(p, w)' <=> i \in WritesOf(p, w)
  BY <1>1, <1>3 DEF WritesOf
<1>5. n + 1 \in WritesOf(p, w)' <=> IsWrite(e) /\ e.actor = p /\ WindowAt(e.at) = w
  BY <1>1, <1>3
<1>6. WritesOf(p, w) \subseteq 1 .. n /\ WritesOf(p, w)' \subseteq 1 .. n + 1
  BY <1>1, <1>3 DEF WritesOf
<1>7. 1 .. n + 1 = (1 .. n) \cup {n + 1}
  BY <1>1
<1> QED
  BY <1>2, <1>4, <1>5, <1>6, <1>7 DEF n

\* The numbers that are compared are naturals.
LEMMA BudgetTypes ==
  ASSUME TypeOK
  PROVE  /\ WindowAt(clock) \in Nat /\ WritesPerMinute \in Nat \ {0}
         /\ audit \in Seq(Entry)
         /\ \A p \in DOMAIN counters : counters[p].window \in Nat /\ counters[p].count \in Nat
<1>1. clock \in Nat /\ audit \in Seq(Entry)
  BY DEF TypeOK
<1>2. \A p \in DOMAIN counters : counters[p] \in [window: Nat, count: Nat]
  BY DEF TypeOK
<1> QED
  BY <1>1, <1>2, WindowIsNat, ConstantsOK

\* A step that logs no write and counts none keeps the budgets.
LEMMA NoWriteKeepsBudgets ==
  ASSUME TypeOK, TypeOK', Budgets, counters' = counters,
         WindowAt(clock) <= WindowAt(clock'),
         \A p \in Principal, w \in Nat : WritesOf(p, w)' = WritesOf(p, w)
  PROVE  Budgets'
<1> SUFFICES ASSUME NEW p \in Principal PROVE BudgetOf(p)'
  BY DEF Budgets
<1>1. BudgetOf(p)
  BY DEF Budgets
<1>2. /\ WindowAt(clock) \in Nat
      /\ \A q \in DOMAIN counters : counters[q].window \in Nat
  BY BudgetTypes
<1>3. WindowAt(clock') \in Nat
  BY WindowIsNat DEF TypeOK
<1>4. ASSUME p \in DOMAIN counters'
      PROVE  /\ counters'[p].window <= WindowAt(clock')
             /\ counters'[p].count <= WritesPerMinute
  BY <1>1, <1>2, <1>3, <1>4 DEF BudgetOf
<1>5. ASSUME NEW w \in Nat
      PROVE  /\ Cardinality(WritesOf(p, w)') <= WritesPerMinute
             /\ WritesOf(p, w)' # {} => p \in DOMAIN counters' /\ w <= counters'[p].window
             /\ p \in DOMAIN counters' /\ w = counters'[p].window
                  => Cardinality(WritesOf(p, w)') <= counters'[p].count
  BY <1>1 DEF BudgetOf
<1> QED
  BY <1>4, <1>5 DEF BudgetOf

\* A counted write, logged or not, keeps the budgets.
LEMMA CountedWriteKeepsBudgets ==
  ASSUME TypeOK, TypeOK', Budgets, NEW who \in Principal, ConsumeWrite(who), clock' = clock,
         \A p \in Principal, w \in Nat :
           \/ WritesOf(p, w)' = WritesOf(p, w)
           \/ /\ p = who /\ w = WindowAt(clock)
              /\ \E i : WritesOf(p, w)' = WritesOf(p, w) \cup {i}
  PROVE  Budgets'
<1> SUFFICES ASSUME NEW p \in Principal PROVE BudgetOf(p)'
  BY DEF Budgets
<1> DEFINE w0 == WindowAt(clock)
           c0 == CountedNow(who)
<1>1. BudgetOf(p)
  BY DEF Budgets
<1>2. /\ w0 \in Nat /\ WritesPerMinute \in Nat \ {0} /\ audit \in Seq(Entry)
      /\ \A q \in DOMAIN counters : counters[q].window \in Nat /\ counters[q].count \in Nat
  BY BudgetTypes
<1>3. /\ DOMAIN counters' = DOMAIN counters \cup {who}
      /\ counters'[who] = [window |-> w0, count |-> c0 + 1]
      /\ \A q \in DOMAIN counters : q # who => counters'[q] = counters[q]
      /\ c0 < WritesPerMinute
  BY DEF ConsumeWrite
<1>4. c0 \in Nat
  BY <1>2 DEF CountedNow
<1>5. WindowAt(clock') = w0
  OBVIOUS
<1>6. CASE p # who
  <2>1. \A w \in Nat : WritesOf(p, w)' = WritesOf(p, w)
    BY <1>6
  <2>2. p \in DOMAIN counters' <=> p \in DOMAIN counters
    BY <1>3, <1>6
  <2>3. p \in DOMAIN counters => counters'[p] = counters[p]
    BY <1>3, <1>6
  <2> HIDE DEF w0, c0
  <2>4. p \in DOMAIN counters' => /\ counters'[p].window <= w0
                                  /\ counters'[p].count <= WritesPerMinute
    BY <1>1, <2>2, <2>3 DEF BudgetOf, w0
  <2>5. ASSUME NEW w \in Nat
        PROVE  /\ Cardinality(WritesOf(p, w)') <= WritesPerMinute
               /\ WritesOf(p, w)' # {} => p \in DOMAIN counters' /\ w <= counters'[p].window
               /\ p \in DOMAIN counters' /\ w = counters'[p].window
                    => Cardinality(WritesOf(p, w)') <= counters'[p].count
    BY <1>1, <2>1, <2>2, <2>3 DEF BudgetOf
  <2> QED
    BY <1>5, <2>4, <2>5 DEF BudgetOf, w0
<1>7. CASE p = who
  <2>1. /\ p \in DOMAIN counters' /\ counters'[p].window = w0
        /\ counters'[p].count = c0 + 1
    BY <1>3, <1>7
  <2>2. Cardinality(WritesOf(p, w0)) <= c0
    <3>1. CASE p \in DOMAIN counters /\ counters[p].window = w0
      BY <1>1, <1>2, <1>7, <3>1 DEF BudgetOf, CountedNow
    <3>2. CASE ~(p \in DOMAIN counters /\ counters[p].window = w0)
      <4>1. WritesOf(p, w0) = {}
        <5>1. p \in DOMAIN counters => counters[p].window <= w0 /\ counters[p].window \in Nat
          BY <1>1, <1>2 DEF BudgetOf
        <5>2. WritesOf(p, w0) # {} => p \in DOMAIN counters /\ w0 <= counters[p].window
          BY <1>1, <1>2 DEF BudgetOf
        <5> HIDE DEF w0
        <5> QED
          BY <1>2, <3>2, <5>1, <5>2
      <4>2. Cardinality(WritesOf(p, w0)) = 0
        BY <4>1, FS_EmptySet
      <4> QED
        BY <1>4, <4>2
    <3> QED
      BY <3>1, <3>2
  <2>3. ASSUME NEW w \in Nat
        PROVE  /\ IsFiniteSet(WritesOf(p, w)) /\ Cardinality(WritesOf(p, w)) \in Nat
               /\ Cardinality(WritesOf(p, w)) <= WritesPerMinute
               /\ WritesOf(p, w) # {} => w <= w0
    <3>1. IsFiniteSet(WritesOf(p, w)) /\ Cardinality(WritesOf(p, w)) \in Nat
      BY <1>2, WritesCounted
    <3>2. /\ p \in DOMAIN counters => counters[p].window <= w0 /\ counters[p].window \in Nat
          /\ Cardinality(WritesOf(p, w)) <= WritesPerMinute
          /\ WritesOf(p, w) # {} => p \in DOMAIN counters /\ w <= counters[p].window
      BY <1>1, <1>2 DEF BudgetOf
    <3> HIDE DEF w0
    <3> QED
      BY <1>2, <3>1, <3>2
  <2> HIDE DEF w0, c0
  <2>4. ASSUME NEW w \in Nat
        PROVE  /\ Cardinality(WritesOf(p, w)') <= WritesPerMinute
               /\ WritesOf(p, w)' # {} => w <= w0
               /\ w = w0 => Cardinality(WritesOf(p, w)') <= c0 + 1
    <3> DEFINE S == WritesOf(p, w)
               n == Cardinality(S)
               m == Cardinality(WritesOf(p, w)')
    <3>1. IsFiniteSet(S) /\ n \in Nat /\ n <= WritesPerMinute /\ (S # {} => w <= w0)
      BY <2>3
    <3>2. w = w0 => n <= c0
      BY <2>2
    <3>3. \/ WritesOf(p, w)' = S
          \/ w = w0 /\ \E i : WritesOf(p, w)' = S \cup {i}
      BY <1>7 DEF w0
    <3>4. CASE WritesOf(p, w)' = S
      <4>1. m = n
        BY <3>4
      <4>2. WritesOf(p, w)' # {} => w <= w0
        BY <3>1, <3>4
      <4> HIDE DEF n, m, S
      <4>3. w = w0 => m <= c0 + 1
        BY <1>4, <3>1, <3>2, <4>1
      <4> QED
        BY <3>1, <4>1, <4>2, <4>3 DEF m
    <3>5. CASE w = w0 /\ \E i : WritesOf(p, w)' = S \cup {i}
      <4>1. PICK i : WritesOf(p, w)' = S \cup {i}
        BY <3>5
      <4> HIDE DEF S
      <4>2. m = IF i \in S THEN n ELSE n + 1
        BY <3>1, <4>1, FS_AddElement
      <4> HIDE DEF n, m
      <4>3. m <= c0 + 1 /\ c0 + 1 <= WritesPerMinute /\ m \in Nat
        BY <1>2, <1>3, <1>4, <3>1, <3>2, <3>5, <4>2
      <4>4. m <= WritesPerMinute /\ w <= w0
        BY <1>2, <1>4, <3>5, <4>3
      <4> QED
        BY <4>3, <4>4 DEF m
    <3> QED
      BY <3>3, <3>4, <3>5
  <2>5. WindowAt(clock') = w0 /\ c0 + 1 <= WritesPerMinute
    BY <1>2, <1>3, <1>4, <1>5
  <2> QED
    BY <1>2, <2>1, <2>4, <2>5 DEF BudgetOf
<1> QED
  BY <1>6, <1>7

\* What the log gains from a counted write of who.
LEMMA LoggedWrite ==
  ASSUME TypeOK, NEW who \in Principal, NEW e, audit' = Append(audit, e),
         e.actor = who, e.at = clock, IsWrite(e),
         NEW p \in Principal, NEW w \in Nat
  PROVE  \/ WritesOf(p, w)' = WritesOf(p, w)
         \/ /\ p = who /\ w = WindowAt(clock)
            /\ \E i : WritesOf(p, w)' = WritesOf(p, w) \cup {i}
<1>1. audit \in Seq(Entry)
  BY DEF TypeOK
<1>2. CASE p = who /\ w = WindowAt(clock)
  BY <1>1, <1>2, OneMoreEntry
<1>3. CASE ~(p = who /\ w = WindowAt(clock))
  BY <1>1, <1>3, OneMoreEntry
<1> QED
  BY <1>2, <1>3

\* Decisions and rollbacks are not counted as writes.
LEMMA LoggedNoWrite ==
  ASSUME TypeOK, NEW e, audit' = Append(audit, e), ~IsWrite(e),
         NEW p \in Principal, NEW w \in Nat
  PROVE  WritesOf(p, w)' = WritesOf(p, w)
<1>1. audit \in Seq(Entry)
  BY DEF TypeOK
<1> QED
  BY <1>1, OneMoreEntry

\* The log never shows more writes of a principal in one window than the
\* limit, nor more than the principal's counter has counted.  (limits.ts
\* consumeWrite)
THEOREM WritesAreLimited == Spec => []WriteBudget
<1>1. Init => Budgets
  <2> SUFFICES ASSUME Init, NEW p \in Principal PROVE BudgetOf(p)
    BY DEF Budgets
  <2>1. DOMAIN counters = {} /\ DOMAIN audit = {}
    BY DEF Init
  <2>2. \A w : WritesOf(p, w) = {}
    BY <2>1 DEF WritesOf
  <2>3. \A w : Cardinality(WritesOf(p, w)) = 0
    BY <2>2, FS_EmptySet
  <2> QED
    BY <2>1, <2>2, <2>3, ConstantsOK DEF BudgetOf
<1>2. IInv /\ IInv' /\ Budgets /\ [Next]_vars => Budgets'
  <2> SUFFICES ASSUME TypeOK, TypeOK', Budgets, [Next]_vars PROVE Budgets'
    BY DEF IInv
  <2>1. clock \in Nat /\ WindowAt(clock) \in Nat
    BY WindowIsNat DEF TypeOK
  <2>2. CASE \E p \in Principal, c \in Content, src \in Source : RecordEpisode(p, c, src)
    <3>1. PICK who \in Principal, c \in Content, src \in Source : RecordEpisode(who, c, src)
      BY <2>2
    <3> DEFINE e == [at |-> clock, action |-> "episode.record", actor |-> who,
                     target |-> c, grants |-> FALSE, toSeq |-> Null]
    <3>2. audit' = Append(audit, e) /\ ConsumeWrite(who) /\ clock' = clock
      BY <3>1 DEF RecordEpisode, Log
    <3>3. e.actor = who /\ e.at = clock /\ IsWrite(e)
      BY DEF IsWrite
    <3> HIDE DEF e
    <3>4. \A p \in Principal, w \in Nat :
            \/ WritesOf(p, w)' = WritesOf(p, w)
            \/ /\ p = who /\ w = WindowAt(clock)
               /\ \E i : WritesOf(p, w)' = WritesOf(p, w) \cup {i}
      BY <3>2, <3>3, LoggedWrite
    <3> QED
      BY <3>2, <3>4, CountedWriteKeepsBudgets
  <2>3. CASE \E p \in Principal, c \in Content : RecordDuplicate(p, c)
    <3>1. PICK who \in Principal, c \in Content : RecordDuplicate(who, c)
      BY <2>3
    <3>2. audit' = audit /\ ConsumeWrite(who) /\ clock' = clock
      BY <3>1 DEF RecordDuplicate
    <3>3. \A p \in Principal, w \in Nat : WritesOf(p, w)' = WritesOf(p, w)
      BY <3>2 DEF WritesOf
    <3> QED
      BY <3>2, <3>3, CountedWriteKeepsBudgets
  <2>4. CASE AssertFact
    <3>1. PICK who \in Principal, origin \in Origin, s \in Key, p \in Asserted,
               o \in Key, vf \in ValidFrom \cup {clock}, vt \in ValidTo \cup {Null},
               c \in Content, f \in FactId :
                 \/ AssertNew(who, origin, s, p, o, vf, vt, c, f)
                 \/ Corroborate(who, origin, s, p, o, vf, vt, c, f)
      BY <2>4 DEF AssertFact
    <3>2. PICK e : /\ audit' = Append(audit, e) /\ ConsumeWrite(who) /\ clock' = clock
                   /\ e.actor = who /\ e.at = clock /\ IsWrite(e)
      <4>1. CASE AssertNew(who, origin, s, p, o, vf, vt, c, f)
        <5> DEFINE x == [at |-> clock, action |-> "fact.assert", actor |-> who, target |-> f,
                         grants |-> InitialStatus(origin) = "trusted", toSeq |-> Null]
        <5>1. audit' = Append(audit, x) /\ ConsumeWrite(who) /\ clock' = clock
          BY <4>1 DEF AssertNew, Log
        <5>2. x.actor = who /\ x.at = clock /\ IsWrite(x)
          BY DEF IsWrite
        <5> HIDE DEF x
        <5> QED
          BY <5>1, <5>2
      <4>2. CASE Corroborate(who, origin, s, p, o, vf, vt, c, f)
        <5> DEFINE x == [at |-> clock, action |-> "fact.corroborate", actor |-> who, target |-> f,
                         grants |-> /\ facts[f].status = "proposed"
                                    /\ InitialStatus(origin) = "trusted",
                         toSeq |-> Null]
        <5>1. audit' = Append(audit, x) /\ ConsumeWrite(who) /\ clock' = clock
          BY <4>2 DEF Corroborate, Log
        <5>2. x.actor = who /\ x.at = clock /\ IsWrite(x)
          BY DEF IsWrite
        <5> HIDE DEF x
        <5> QED
          BY <5>1, <5>2
      <4> QED
        BY <3>1, <4>1, <4>2
    <3>3. \A q \in Principal, w \in Nat :
            \/ WritesOf(q, w)' = WritesOf(q, w)
            \/ /\ q = who /\ w = WindowAt(clock)
               /\ \E i : WritesOf(q, w)' = WritesOf(q, w) \cup {i}
      BY <3>2, LoggedWrite
    <3> QED
      BY <3>2, <3>3, CountedWriteKeepsBudgets
  <2>5. CASE \/ \E r \in Reviewer, f \in FactId : ConfirmFact(r, f) \/ RejectFact(r, f)
             \/ \E r \in Reviewer, t \in 0 .. Len(audit) : RollbackTo(r, t)
    <3>1. PICK e : /\ audit' = Append(audit, e) /\ ~IsWrite(e)
                   /\ clock' = clock /\ counters' = counters
      <4>1. PICK a, r, x, g, t : /\ Log(a, r, x, g, t)
                                 /\ a \in {"fact.confirm", "fact.reject", "audit.rollback"}
                                 /\ clock' = clock /\ counters' = counters
        BY <2>5 DEF ConfirmFact, RejectFact, RollbackTo
      <4> DEFINE y == [at |-> clock, action |-> a, actor |-> r, target |-> x,
                       grants |-> g, toSeq |-> t]
      <4>2. audit' = Append(audit, y)
        BY <4>1 DEF Log
      <4>3. ~IsWrite(y)
        BY <4>1 DEF IsWrite
      <4> HIDE DEF y
      <4> QED
        BY <4>1, <4>2, <4>3
    <3>2. \A p \in Principal, w \in Nat : WritesOf(p, w)' = WritesOf(p, w)
      BY <3>1, LoggedNoWrite
    <3>3. WindowAt(clock) <= WindowAt(clock')
      BY <2>1, <3>1
    <3> QED
      BY <3>1, <3>2, <3>3, NoWriteKeepsBudgets
  <2>6. CASE Tick \/ UNCHANGED vars
    <3>1. audit' = audit /\ counters' = counters
      BY <2>6 DEF Tick, vars
    <3>2. WindowAt(clock) <= WindowAt(clock')
      BY <2>1, <2>6, WindowsForward DEF Tick, vars
    <3>3. \A p \in Principal, w \in Nat : WritesOf(p, w)' = WritesOf(p, w)
      BY <3>1 DEF WritesOf
    <3> QED
      BY <3>1, <3>2, <3>3, NoWriteKeepsBudgets
  <2> QED
    BY <2>2, <2>3, <2>4, <2>5, <2>6 DEF Next
<1>3. IInv /\ Budgets => WriteBudget
  <2> SUFFICES ASSUME IInv, Budgets, NEW p \in Principal,
                      NEW w \in {WindowAt(audit[i].at) : i \in DOMAIN audit}
               PROVE  LET written == Cardinality(WritesOf(p, w))
                      IN /\ written <= WritesPerMinute
                         /\ written > 0 => p \in DOMAIN counters /\ counters[p].window >= w
                         /\ p \in DOMAIN counters /\ counters[p].window = w
                              => written <= counters[p].count
    BY Zenon DEF WriteBudget
  <2>1. PICK i \in DOMAIN audit : w = WindowAt(audit[i].at)
    OBVIOUS
  <2>2. audit[i] \in Entry
    BY DEF IInv, TypeOK
  <2>3. w \in Nat
    BY <2>1, <2>2, WindowIsNat DEF Entry
  <2>4. WritesOf(p, w) = {} => Cardinality(WritesOf(p, w)) = 0
    BY FS_EmptySet
  <2>5. BudgetOf(p)
    BY DEF Budgets
  <2>6. /\ Cardinality(WritesOf(p, w)) <= WritesPerMinute
        /\ WritesOf(p, w) # {} => p \in DOMAIN counters /\ w <= counters[p].window
        /\ p \in DOMAIN counters /\ w = counters[p].window
             => Cardinality(WritesOf(p, w)) <= counters[p].count
    BY <2>3, <2>5, Zenon DEF BudgetOf
  <2>7. Cardinality(WritesOf(p, w)) > 0 => WritesOf(p, w) # {}
    BY <2>4
  <2>8. p \in DOMAIN counters => counters[p].window \in Nat
    BY DEF IInv, TypeOK
  <2>9. p \in DOMAIN counters /\ w <= counters[p].window => counters[p].window >= w
    BY <2>3, <2>8
  <2> QED
    BY <2>6, <2>7, <2>9, Zenon
<1>4. IInv /\ [Next]_vars => IInv'
  BY NextIInv
<1> QED
  BY <1>1, <1>2, <1>3, <1>4, Invariance, PTL DEF Spec

-----------------------------------------------------------------------------
(* The history of a claim *)

\* Every row was asserted by an entry of the log, at its recorded_at.
Asserts(log, f, t) ==
  \E i \in DOMAIN log : log[i].action = "fact.assert" /\ log[i].target = f /\ log[i].at = t

Recorded ==
  /\ IsFiniteSet(DOMAIN facts)
  /\ \A f \in DOMAIN facts : Asserts(audit, f, facts[f].recordedAt)

\* Entries stay where they are.
LEMMA EntriesStay ==
  ASSUME IInv, [Next]_vars, NEW f, NEW t, Asserts(audit, f, t)
  PROVE  Asserts(audit', f, t)
<1>1. audit' = audit \/ \E e : audit' = Append(audit, e)
  BY LogAppends
<1>2. audit \in Seq(Entry)
  BY DEF IInv, TypeOK
<1>3. \A i \in DOMAIN audit : i \in DOMAIN audit' /\ audit'[i] = audit[i]
  BY <1>1, <1>2
<1> QED
  BY <1>3 DEF Asserts

\* A step that adds no row.
LEMMA NoRowKeepsRecorded ==
  ASSUME IInv, [Next]_vars, Recorded, DOMAIN facts' = DOMAIN facts,
         \A f \in DOMAIN facts : SameContent(facts[f], facts'[f])
  PROVE  Recorded'
<1>1. ASSUME NEW f \in DOMAIN facts
      PROVE  Asserts(audit', f, facts'[f].recordedAt)
  <2>1. facts'[f].recordedAt = facts[f].recordedAt
    BY DEF SameContent
  <2>2. Asserts(audit, f, facts[f].recordedAt)
    BY DEF Recorded
  <2> QED
    BY <2>1, <2>2, EntriesStay
<1> QED
  BY <1>1 DEF Recorded

\* A row is added with its entry.
LEMMA AssertNewKeepsRecorded ==
  ASSUME IInv, [Next]_vars, Recorded,
         NEW who \in Principal, NEW origin \in FactOrigin,
         NEW s \in Key, NEW p \in Predicate, NEW o \in Key,
         NEW vf \in Nat, NEW vt \in Nat, NEW c \in Content, NEW f \in FactId,
         AssertNew(who, origin, s, p, o, vf, vt, c, f)
  PROVE  Recorded'
<1>1. AddsRow(s, p, o, vt, c, f)
  BY AssertNewContent
<1>2. /\ DOMAIN facts' = DOMAIN facts \cup {f} /\ facts'[f].recordedAt = clock
      /\ \A h \in DOMAIN facts : SameContent(facts[h], facts'[h])
  BY <1>1 DEF AddsRow
<1>3. IsFiniteSet(DOMAIN facts')
  BY <1>2, FS_AddElement DEF Recorded
<1>4. ASSUME NEW h \in DOMAIN facts
      PROVE  Asserts(audit', h, facts'[h].recordedAt)
  <2>1. facts'[h].recordedAt = facts[h].recordedAt
    BY <1>2 DEF SameContent
  <2>2. Asserts(audit, h, facts[h].recordedAt)
    BY DEF Recorded
  <2> QED
    BY <2>1, <2>2, EntriesStay
<1>5. Asserts(audit', f, clock)
  <2> DEFINE x == [at |-> clock, action |-> "fact.assert", actor |-> who, target |-> f,
                   grants |-> InitialStatus(origin) = "trusted", toSeq |-> Null]
  <2>1. audit' = Append(audit, x) /\ audit \in Seq(Entry)
    BY DEF AssertNew, Log, IInv, TypeOK
  <2>2. x.action = "fact.assert" /\ x.target = f /\ x.at = clock
    OBVIOUS
  <2> HIDE DEF x
  <2>3. Len(audit) + 1 \in DOMAIN audit' /\ audit'[Len(audit) + 1] = x
    BY <2>1
  <2> QED
    BY <2>2, <2>3 DEF Asserts
<1> QED
  BY <1>2, <1>3, <1>4, <1>5 DEF Recorded

\* Every row of the table was asserted by an entry of the log.
LEMMA AlwaysRecorded == Spec => []Recorded
<1>1. Init => Recorded
  <2> SUFFICES ASSUME Init PROVE Recorded
    OBVIOUS
  <2>1. DOMAIN facts = {}
    BY DEF Init
  <2> QED
    BY <2>1, FS_EmptySet DEF Recorded
<1>2. IInv /\ Recorded /\ [Next]_vars => Recorded'
  <2> SUFFICES ASSUME IInv, Recorded, [Next]_vars PROVE Recorded'
    OBVIOUS
  <2>1. CASE facts' = facts
    BY <2>1, NoRowKeepsRecorded DEF SameContent
  <2>2. CASE AssertFact
    <3>1. PICK who \in Principal, origin \in Origin, s \in Key, p \in Asserted,
               o \in Key, vf \in ValidFrom \cup {clock}, vt \in ValidTo \cup {Null},
               c \in Content, f \in FactId :
                 \/ AssertNew(who, origin, s, p, o, vf, vt, c, f)
                 \/ Corroborate(who, origin, s, p, o, vf, vt, c, f)
      BY <2>2 DEF AssertFact
    <3>2. origin \in FactOrigin /\ p \in Predicate /\ vf \in Nat /\ vt \in Nat
      BY ConstantsOK DEF IInv, TypeOK, Null
    <3>3. CASE AssertNew(who, origin, s, p, o, vf, vt, c, f)
      BY <3>2, <3>3, AssertNewKeepsRecorded
    <3>4. CASE Corroborate(who, origin, s, p, o, vf, vt, c, f)
      <4>1. /\ DOMAIN facts' = DOMAIN facts
            /\ \A h \in DOMAIN facts : SameContent(facts[h], facts'[h])
        BY <3>2, <3>4, CorroborateContent
      <4> QED
        BY <4>1, NoRowKeepsRecorded
    <3> QED
      BY <3>1, <3>3, <3>4
  <2>3. CASE \E r \in Reviewer, f \in FactId : ConfirmFact(r, f) \/ RejectFact(r, f)
    <3>1. /\ DOMAIN facts' = DOMAIN facts
          /\ \A h \in DOMAIN facts : SameContent(facts[h], facts'[h])
      BY <2>3, ReviewContent
    <3> QED
      BY <3>1, NoRowKeepsRecorded
  <2>4. CASE \E r \in Reviewer, t \in 0 .. Len(audit) : RollbackTo(r, t)
    <3>1. PICK r \in Reviewer, t \in 0 .. Len(audit) : RollbackTo(r, t)
      BY <2>4
    <3>2. /\ facts' = RolledBack(facts, t) /\ t \in Nat
          /\ DOMAIN facts \in SUBSET FactId /\ facts \in [DOMAIN facts -> Fact]
      BY <3>1 DEF RollbackTo, IInv, TypeOK
    <3>3. /\ DOMAIN RolledBack(facts, t) = DOMAIN facts
          /\ \A f \in DOMAIN facts : SameContent(facts[f], RolledBack(facts, t)[f])
      BY <3>2, RollbackKeepsContent
    <3> QED
      BY <3>2, <3>3, NoRowKeepsRecorded
  <2>5. CASE \/ \E p \in Principal, c \in Content, src \in Source : RecordEpisode(p, c, src)
             \/ \E p \in Principal, c \in Content : RecordDuplicate(p, c)
             \/ Tick
             \/ UNCHANGED vars
    BY <2>1, <2>5 DEF RecordEpisode, RecordDuplicate, Tick, vars
  <2> QED
    BY <2>2, <2>3, <2>4, <2>5 DEF Next
<1> QED
  BY <1>1, <1>2, Invariance, PTL DEF Spec

\* A claim's history holds its versions and nobody else's, each with the
\* entry that asserted it and the decision that stands.  (queries.ts
\* factHistory)
THEOREM HistoryIsComplete == Spec => []HistoryAccounts
<1>1. IInv /\ Recorded => HistoryAccounts
  <2> SUFFICES ASSUME IInv, Recorded, NEW c, NEW K \in Oldest(Versions(c), MaxVersions)
               PROVE  LET shown == {i \in DOMAIN audit : audit[i].target \in K}
                      IN /\ \A i \in shown : ClaimOf(facts[audit[i].target]) = c
                         /\ Cardinality(Versions(c)) <= MaxVersions => Versions(c) = K
                         /\ \A f \in K :
                              /\ \E i \in shown : /\ audit[i].action = "fact.assert"
                                                  /\ audit[i].target = f
                                                  /\ audit[i].at = facts[f].recordedAt
                              /\ facts[f].decisionSeq # Null =>
                                   /\ facts[f].decisionSeq \in shown
                                   /\ Granted(facts[f]) =>
                                        /\ audit[facts[f].decisionSeq].grants
                                        /\ audit[facts[f].decisionSeq].at = facts[f].confirmedAt
    BY DEF HistoryAccounts, FactHistory
  <2> DEFINE shown == {i \in DOMAIN audit : audit[i].target \in K}
  <2>1. /\ K \subseteq Versions(c) /\ Versions(c) \subseteq DOMAIN facts
        /\ Cardinality(K) = SizeWithin(Versions(c), MaxVersions)
    BY DEF Oldest, Versions
  <2>2. \A f \in K : ClaimOf(facts[f]) = c
    BY <2>1 DEF Versions
  <2>3. Cardinality(Versions(c)) <= MaxVersions => Versions(c) = K
    <3>1. IsFiniteSet(Versions(c))
      BY <2>1, FS_Subset DEF Recorded
    <3>2. Cardinality(Versions(c)) <= MaxVersions => Cardinality(K) = Cardinality(Versions(c))
      BY <2>1 DEF SizeWithin
    <3> QED
      BY <2>1, <3>1, <3>2, FS_Subset
  <2>4. ASSUME NEW f \in K
        PROVE  \E i \in shown : /\ audit[i].action = "fact.assert"
                                /\ audit[i].target = f
                                /\ audit[i].at = facts[f].recordedAt
    BY <2>1, <2>4 DEF Recorded, Asserts
  <2>5. ASSUME NEW f \in K, facts[f].decisionSeq # Null
        PROVE  /\ facts[f].decisionSeq \in shown
               /\ Granted(facts[f]) =>
                    /\ audit[facts[f].decisionSeq].grants
                    /\ audit[facts[f].decisionSeq].at = facts[f].confirmedAt
    <3>1. f \in DOMAIN facts
      BY <2>1
    <3> QED
      BY <2>5, <3>1 DEF IInv, DecisionsAgree, Standing
  <2> QED
    BY <2>2, <2>3, <2>4, <2>5
<1> QED
  BY <1>1, Invariance, AlwaysRecorded, PTL
=============================================================================
