--------------------------- MODULE FactInvariance ---------------------------
(***************************************************************************)
(* The invariant of FactMemory, proved for every value of its constants:   *)
(* the facts table agrees with the audit log (IInv), and what follows.     *)
(* First what a decision writes to one row, then what each kind of step    *)
(* does to the table and to the standing decisions, then the handlers.     *)
(***************************************************************************)
EXTENDS FactRefinement, TLAPS, SequenceTheorems

-----------------------------------------------------------------------------
(* Rows *)

\* A trusted row is a row, and only its decision columns changed.
LEMMA TrustedRowFields ==
  ASSUME NEW r \in Fact, NEW by \in Granter, NEW now \in Nat, NEW seq \in Nat
  PROVE  /\ TrustedRow(r, by, now, seq) \in Fact
         /\ ClaimOf(TrustedRow(r, by, now, seq)) = ClaimOf(r)
         /\ TrustedRow(r, by, now, seq).status = "trusted"
         /\ TrustedRow(r, by, now, seq).decisionSeq = seq
         /\ TrustedRow(r, by, now, seq).confirmedAt = now
         /\ TrustedRow(r, by, now, seq).confirmedBy = by
         /\ TrustedRow(r, by, now, seq).rejectedAt = r.rejectedAt
         /\ TrustedRow(r, by, now, seq).supersededSeq = r.supersededSeq
         /\ TrustedRow(r, by, now, seq).supersededAt = r.supersededAt
         /\ TrustedRow(r, by, now, seq).supersededBy = r.supersededBy
         /\ TrustedRow(r, by, now, seq).validTo = r.validTo
         /\ TrustedRow(r, by, now, seq).validFrom = r.validFrom
BY DEF TrustedRow, Fact, Status, ClaimOf

\* The same of a superseded row.
LEMMA SupersededRowFields ==
  ASSUME NEW r \in Fact, NEW g \in FactId, NEW now \in Nat, NEW seq \in Nat
  PROVE  /\ SupersededRow(r, g, now, seq) \in Fact
         /\ ClaimOf(SupersededRow(r, g, now, seq)) = ClaimOf(r)
         /\ SupersededRow(r, g, now, seq).status = "superseded"
         /\ SupersededRow(r, g, now, seq).decisionSeq = r.decisionSeq
         /\ SupersededRow(r, g, now, seq).confirmedAt = r.confirmedAt
         /\ SupersededRow(r, g, now, seq).confirmedBy = r.confirmedBy
         /\ SupersededRow(r, g, now, seq).rejectedAt = r.rejectedAt
         /\ SupersededRow(r, g, now, seq).supersededSeq = seq
         /\ SupersededRow(r, g, now, seq).supersededAt = now
         /\ SupersededRow(r, g, now, seq).supersededBy = g
         /\ SupersededRow(r, g, now, seq).validTo = r.validTo
         /\ SupersededRow(r, g, now, seq).validFrom = r.validFrom
BY DEF SupersededRow, Fact, Status, ClaimOf

\* A rejected row.
LEMMA RejectedRowFields ==
  ASSUME NEW q \in Fact, NEW r \in Reviewer, NEW now \in Nat, NEW seq \in Nat
  PROVE  /\ RejectedRow(q, r, now, seq) \in Fact
         /\ ClaimOf(RejectedRow(q, r, now, seq)) = ClaimOf(q)
         /\ RejectedRow(q, r, now, seq).status = "rejected"
         /\ RejectedRow(q, r, now, seq).decisionSeq = seq
         /\ RejectedRow(q, r, now, seq).confirmedAt = q.confirmedAt
         /\ RejectedRow(q, r, now, seq).confirmedBy = q.confirmedBy
         /\ RejectedRow(q, r, now, seq).rejectedAt = now
         /\ RejectedRow(q, r, now, seq).supersededSeq = q.supersededSeq
         /\ RejectedRow(q, r, now, seq).supersededAt = q.supersededAt
         /\ RejectedRow(q, r, now, seq).supersededBy = q.supersededBy
         /\ RejectedRow(q, r, now, seq).validTo = q.validTo
         /\ RejectedRow(q, r, now, seq).validFrom = q.validFrom
BY DEF RejectedRow, Fact, Status, ClaimOf

\* A row whose supersession a rollback undoes.
LEMMA ReopenedRowFields ==
  ASSUME NEW q \in Fact
  PROVE  /\ ReopenedRow(q) \in Fact
         /\ ClaimOf(ReopenedRow(q)) = ClaimOf(q)
         /\ ReopenedRow(q).status = "trusted"
         /\ ReopenedRow(q).decisionSeq = q.decisionSeq
         /\ ReopenedRow(q).confirmedAt = q.confirmedAt
         /\ ReopenedRow(q).confirmedBy = q.confirmedBy
         /\ ReopenedRow(q).rejectedAt = q.rejectedAt
         /\ ReopenedRow(q).supersededSeq = Null
         /\ ReopenedRow(q).supersededAt = Null
         /\ ReopenedRow(q).supersededBy = NoFact
         /\ ReopenedRow(q).validTo = q.validTo
         /\ ReopenedRow(q).validFrom = q.validFrom
BY DEF ReopenedRow, Fact, Status, ClaimOf, Null

\* A row whose decision a rollback undoes.
LEMMA RevertedRowFields ==
  ASSUME NEW q \in Fact
  PROVE  /\ RevertedRow(q) \in Fact
         /\ ClaimOf(RevertedRow(q)) = ClaimOf(q)
         /\ RevertedRow(q).status = "proposed"
         /\ RevertedRow(q).decisionSeq = Null
         /\ RevertedRow(q).confirmedAt = Null
         /\ RevertedRow(q).confirmedBy[1] = "none"
         /\ RevertedRow(q).rejectedAt = Null
         /\ RevertedRow(q).supersededSeq = Null
         /\ RevertedRow(q).supersededAt = Null
         /\ RevertedRow(q).supersededBy = NoFact
         /\ RevertedRow(q).validTo = q.validTo
         /\ RevertedRow(q).validFrom = q.validFrom
BY DEF RevertedRow, Fact, Status, ClaimOf, Null, Granter

\* MarkTrusted row by row: g is trusted, what it closes is superseded by it,
\* every other row is left alone.
LEMMA MarkTrustedRows ==
  ASSUME NEW D \in SUBSET FactId, NEW fs \in [D -> Fact], NEW g \in D,
         NEW by \in Granter, NEW now \in Nat, NEW seq \in Nat
  PROVE  /\ MarkTrusted(fs, g, by, now, seq) \in [D -> Fact]
         /\ MarkTrusted(fs, g, by, now, seq)[g] = TrustedRow(fs[g], by, now, seq)
         /\ \A f \in D :
              fs[f].status = "trusted" /\ Closes(fs, g, f) =>
                MarkTrusted(fs, g, by, now, seq)[f] = SupersededRow(fs[f], g, now, seq)
         /\ \A f \in D :
              f # g /\ ~(fs[f].status = "trusted" /\ Closes(fs, g, f)) =>
                MarkTrusted(fs, g, by, now, seq)[f] = fs[f]
<1> DEFINE ts == [fs EXCEPT ![g] = TrustedRow(@, by, now, seq)]
           mt == MarkTrusted(fs, g, by, now, seq)
<1>1. /\ TrustedRow(fs[g], by, now, seq) \in Fact
      /\ ClaimOf(TrustedRow(fs[g], by, now, seq)) = ClaimOf(fs[g])
  BY TrustedRowFields
<1>2. /\ ts \in [D -> Fact]
      /\ ts[g] = TrustedRow(fs[g], by, now, seq)
      /\ \A f \in D \ {g} : ts[f] = fs[f]
  BY <1>1
<1>3. \A f \in D : Closes(ts, g, f) <=> Closes(fs, g, f)
  BY <1>1, <1>2 DEF Closes, ClaimOf
<1>4. mt = [f \in D |-> IF ts[f].status = "trusted" /\ Closes(ts, g, f)
                         THEN SupersededRow(ts[f], g, now, seq) ELSE ts[f]]
  BY <1>2 DEF MarkTrusted, ApplySupersession
<1>5. \A f \in D : SupersededRow(ts[f], g, now, seq) \in Fact
  BY <1>2, SupersededRowFields
<1>6. mt \in [D -> Fact]
  BY <1>2, <1>4, <1>5
<1>7. mt[g] = ts[g]
  BY <1>4 DEF Closes
<1>8. ASSUME NEW f \in D, fs[f].status = "trusted", Closes(fs, g, f)
      PROVE  mt[f] = SupersededRow(fs[f], g, now, seq)
  <2>1. f # g
    BY <1>8 DEF Closes
  <2>2. ts[f].status = "trusted" /\ Closes(ts, g, f)
    BY <1>2, <1>3, <1>8, <2>1
  <2>3. mt[f] = SupersededRow(ts[f], g, now, seq)
    BY <1>4, <2>2
  <2> QED
    BY <1>2, <2>1, <2>3
<1>9. ASSUME NEW f \in D, f # g, ~(fs[f].status = "trusted" /\ Closes(fs, g, f))
      PROVE  mt[f] = fs[f]
  <2>1. ~(ts[f].status = "trusted" /\ Closes(ts, g, f))
    BY <1>2, <1>3, <1>9
  <2> QED
    BY <1>2, <1>4, <1>9, <2>1
<1> QED
  BY <1>2, <1>6, <1>7, <1>8, <1>9

\* The same, read at one row.
LEMMA MarkTrustedAt ==
  ASSUME NEW fs, NEW g \in DOMAIN fs, NEW by, NEW now, NEW seq,
         NEW f \in DOMAIN fs,
         TrustedRow(fs[g], by, now, seq).subject = fs[g].subject,
         TrustedRow(fs[g], by, now, seq).predicate = fs[g].predicate,
         TrustedRow(fs[g], by, now, seq).object = fs[g].object
  PROVE  /\ f = g => MarkTrusted(fs, g, by, now, seq)[f]
                       = TrustedRow(fs[f], by, now, seq)
         /\ fs[f].status = "trusted" /\ Closes(fs, g, f) =>
              MarkTrusted(fs, g, by, now, seq)[f] = SupersededRow(fs[f], g, now, seq)
         /\ f # g /\ ~(fs[f].status = "trusted" /\ Closes(fs, g, f)) =>
              MarkTrusted(fs, g, by, now, seq)[f] = fs[f]
<1> DEFINE row == TrustedRow(fs[g], by, now, seq)
           ts == [fs EXCEPT ![g] = row]
<1>1. /\ DOMAIN ts = DOMAIN fs /\ ts[g] = row
      /\ \A h \in DOMAIN fs : h # g => ts[h] = fs[h]
  OBVIOUS
<1>2. MarkTrusted(fs, g, by, now, seq) =
        [h \in DOMAIN ts |-> IF ts[h].status = "trusted" /\ Closes(ts, g, h)
                             THEN SupersededRow(ts[h], g, now, seq) ELSE ts[h]]
  BY DEF MarkTrusted, ApplySupersession
<1>3. Closes(ts, g, f) <=> Closes(fs, g, f)
  BY <1>1 DEF Closes
<1>4. Closes(fs, g, f) => f # g
  BY DEF Closes
<1> HIDE DEF ts, row
<1> QED
  BY <1>1, <1>2, <1>3, <1>4 DEF row

\* What a grant leaves alone in the rows of the other facts.
SameDecision(r, q) ==
  /\ ClaimOf(r) = ClaimOf(q)
  /\ r.decisionSeq = q.decisionSeq
  /\ r.confirmedAt = q.confirmedAt
  /\ Granted(r) <=> Granted(q)
  /\ r.status = "rejected" <=> q.status = "rejected"

\* Marking a row trusted leaves every other row as it was.
LEMMA MarkTrustedOthers ==
  ASSUME NEW D \in SUBSET FactId, NEW fs \in [D -> Fact], NEW g \in D,
         NEW by \in Granter, NEW now \in Nat, NEW seq \in Nat
  PROVE  \A f \in D : f # g =>
           SameDecision(fs[f], MarkTrusted(fs, g, by, now, seq)[f])
<1> SUFFICES ASSUME NEW f \in D, f # g
             PROVE  SameDecision(fs[f], MarkTrusted(fs, g, by, now, seq)[f])
  OBVIOUS
<1>1. fs[g] \in Fact /\ fs[f] \in Fact /\ g \in FactId /\ g \in DOMAIN fs /\ f \in DOMAIN fs
  OBVIOUS
<1>2. /\ TrustedRow(fs[g], by, now, seq).subject = fs[g].subject
      /\ TrustedRow(fs[g], by, now, seq).predicate = fs[g].predicate
      /\ TrustedRow(fs[g], by, now, seq).object = fs[g].object
  BY <1>1 DEF TrustedRow, Fact
<1> DEFINE q == SupersededRow(fs[f], g, now, seq)
           mt == MarkTrusted(fs, g, by, now, seq)
<1>3. /\ fs[f].status = "trusted" /\ Closes(fs, g, f) => mt[f] = q
      /\ ~(fs[f].status = "trusted" /\ Closes(fs, g, f)) => mt[f] = fs[f]
  BY <1>1, <1>2, MarkTrustedAt
<1>4. /\ q.status = "superseded" /\ q.decisionSeq = fs[f].decisionSeq
      /\ q.confirmedAt = fs[f].confirmedAt /\ ClaimOf(q) = ClaimOf(fs[f])
  BY <1>1, SupersededRowFields
<1> HIDE DEF q
<1>5. CASE fs[f].status = "trusted" /\ Closes(fs, g, f)
  BY <1>3, <1>4, <1>5 DEF SameDecision, Granted
<1>6. CASE ~(fs[f].status = "trusted" /\ Closes(fs, g, f))
  BY <1>3, <1>6 DEF SameDecision
<1> QED
  BY <1>5, <1>6

-----------------------------------------------------------------------------
(* RowsAgree: what each kind of step does to the table alone *)

\* Rows that keep claim, verdict, decision number and time keep what they
\* say about each other.
LEMMA SameDecisionClosedLater ==
  ASSUME NEW D, NEW fs \in [D -> Fact], NEW gs \in [D -> Fact],
         NEW f \in D, NEW g \in D,
         SameDecision(fs[f], gs[f]), SameDecision(fs[g], gs[g])
  PROVE  ClosedLater(fs, f, g) <=> ClosedLater(gs, f, g)
BY DEF SameDecision, ClosedLater, Closes, ClaimOf

\* Trusting a proposal, whichever handler does it.
LEMMA GrantKeepsRows ==
  ASSUME NEW D \in SUBSET FactId, NEW fs \in [D -> Fact], NEW g \in D,
         NEW by \in Granter, by[1] # "none",
         NEW now \in Nat \ {0}, NEW seq \in Nat \ {0},
         RowsAgree(fs), fs[g].status = "proposed",
         \A f \in D : fs[f].decisionSeq < seq
  PROVE  RowsAgree(MarkTrusted(fs, g, by, now, seq))
<1> DEFINE mt == MarkTrusted(fs, g, by, now, seq)
<1>1. /\ mt \in [D -> Fact]
      /\ mt[g] = TrustedRow(fs[g], by, now, seq)
      /\ \A f \in D : fs[f].status = "trusted" /\ Closes(fs, g, f) =>
           mt[f] = SupersededRow(fs[f], g, now, seq)
      /\ \A f \in D : f # g /\ ~(fs[f].status = "trusted" /\ Closes(fs, g, f)) =>
           mt[f] = fs[f]
  BY MarkTrustedRows
<1>2. \A f \in D : f # g => SameDecision(fs[f], mt[f])
  BY MarkTrustedOthers
<1>3. /\ mt[g].status = "trusted"
      /\ mt[g].decisionSeq = seq
      /\ mt[g].confirmedAt = now
      /\ ClaimOf(mt[g]) = ClaimOf(fs[g])
      /\ Granted(mt[g])
  BY <1>1, TrustedRowFields DEF Granted
<1>4. \A f \in D : RowOK(fs[f]) /\ CloserOK(fs, f) /\ (\A h \in D : ClosedInTime(fs, f, h))
  BY DEF RowsAgree
<1>5. ~Granted(fs[g])
  BY DEF Granted
<1>6. \A f \in D : Closes(mt, g, f) <=> Closes(fs, g, f)
  BY <1>2, <1>3 DEF SameDecision, Closes, ClaimOf
<1> HIDE DEF mt
<1>7. /\ g \in FactId /\ now \in Nat /\ seq \in Nat
      /\ now # 0 /\ seq # 0 /\ g # NoFact
      /\ \A f \in D : fs[f] \in Fact
  BY ConstantsOK
<1>8. ASSUME NEW f \in D, fs[f].status = "trusted", Closes(fs, g, f)
      PROVE  /\ mt[f].status = "superseded"
             /\ mt[f].decisionSeq = fs[f].decisionSeq
             /\ mt[f].confirmedAt = fs[f].confirmedAt
             /\ mt[f].confirmedBy = fs[f].confirmedBy
             /\ mt[f].rejectedAt = fs[f].rejectedAt
             /\ mt[f].supersededSeq = seq /\ mt[f].supersededAt = now
             /\ mt[f].supersededBy = g
             /\ mt[f].validTo = fs[f].validTo /\ mt[f].validFrom = fs[f].validFrom
  <2>1. mt[f] = SupersededRow(fs[f], g, now, seq)
    BY <1>1, <1>8
  <2>2. fs[f] \in Fact
    BY <1>7
  <2>3. g \in FactId /\ now \in Nat /\ seq \in Nat
    BY <1>7
  <2> QED
    BY <2>1, <2>2, <2>3, SupersededRowFields
<1>9. ASSUME NEW f \in D
      PROVE  RowOK(mt[f])
  <2>0. RowOK(fs[f])
    BY <1>4
  <2>1. CASE f = g
    <3>1. mt[f] = TrustedRow(fs[f], by, now, seq)
      BY <1>1, <2>1
    <3>2. /\ mt[f].status = "trusted" /\ mt[f].decisionSeq = seq
          /\ mt[f].confirmedAt = now /\ mt[f].confirmedBy = by
          /\ mt[f].rejectedAt = fs[f].rejectedAt
          /\ mt[f].supersededSeq = fs[f].supersededSeq
          /\ mt[f].supersededAt = fs[f].supersededAt
          /\ mt[f].supersededBy = fs[f].supersededBy
          /\ mt[f].validTo = fs[f].validTo /\ mt[f].validFrom = fs[f].validFrom
      BY <1>7, <3>1, TrustedRowFields
    <3> QED
      BY <1>7, <2>0, <2>1, <3>2 DEF RowOK, Granted, Null
  <2>2. CASE fs[f].status = "trusted" /\ Closes(fs, g, f)
    BY <1>7, <1>8, <2>0, <2>2 DEF RowOK, Granted, Null
  <2>3. CASE f # g /\ ~(fs[f].status = "trusted" /\ Closes(fs, g, f))
    BY <1>1, <1>4, <2>3
  <2> QED
    BY <2>1, <2>2, <2>3
<1>10. ASSUME NEW f \in D
      PROVE  CloserOK(mt, f)
  <2>1. CASE f = g
    BY <1>3, <2>1 DEF CloserOK
  <2>2. CASE fs[f].status = "trusted" /\ Closes(fs, g, f)
    <3>1. ClosedLater(mt, f, g)
      BY <1>3, <1>6, <1>8, <2>2 DEF ClosedLater, Granted
    <3> QED
      BY <1>1, <1>3, <1>8, <2>2, <3>1 DEF CloserOK
  <2>3. CASE f # g /\ ~(fs[f].status = "trusted" /\ Closes(fs, g, f))
    <3> SUFFICES ASSUME mt[f].status = "superseded"
                 PROVE  CloserOK(mt, f)
      BY DEF CloserOK
    <3> DEFINE h == fs[f].supersededBy
    <3>1. mt[f] = fs[f]
      BY <1>1, <2>3
    <3>2. /\ h \in D /\ ClosedLater(fs, f, h)
          /\ fs[f].supersededSeq = fs[h].decisionSeq
          /\ fs[f].supersededAt = fs[h].confirmedAt
      BY <1>4, <3>1 DEF CloserOK
    <3>3. h # g
      BY <1>5, <3>2 DEF ClosedLater
    <3>4. ClosedLater(mt, f, h)
      BY <1>1, <1>2, <2>3, <3>2, <3>3, SameDecisionClosedLater
    <3> QED
      BY <1>1, <1>2, <3>1, <3>2, <3>3, <3>4 DEF CloserOK, SameDecision
  <2> QED
    BY <2>1, <2>2, <2>3
<1>11. ASSUME NEW f \in D, NEW h \in D, ClosedLater(mt, f, h)
      PROVE  mt[f].status = "superseded" /\ mt[f].supersededSeq <= mt[h].decisionSeq
  <2>1. CASE h = g
    <3>1. f # g /\ Closes(fs, g, f) /\ Granted(fs[f])
      BY <1>2, <1>6, <1>11, <2>1 DEF ClosedLater, Closes, SameDecision
    <3>2. CASE fs[f].status = "trusted"
      BY <1>3, <1>8, <1>7, <2>1, <3>1, <3>2
    <3>3. CASE fs[f].status = "superseded"
      <4>1. mt[f] = fs[f]
        BY <1>1, <3>1, <3>3
      <4>2. fs[f].supersededSeq < seq
        BY <1>4, <3>3 DEF CloserOK
      <4> QED
        BY <1>3, <2>1, <3>3, <4>1, <4>2 DEF Fact
    <3> QED
      BY <3>1, <3>2, <3>3 DEF Granted
  <2>2. CASE h # g
    <3>1. mt[h].decisionSeq < seq
      BY <1>2, <2>2 DEF SameDecision
    <3>2. f # g
      BY <1>1, <1>3, <1>11, <3>1 DEF ClosedLater, Fact
    <3>3. ClosedLater(fs, f, h)
      BY <1>1, <1>2, <1>11, <2>2, <3>2, SameDecisionClosedLater
    <3>4. fs[f].status = "superseded" /\ fs[f].supersededSeq <= fs[h].decisionSeq
      BY <1>4, <3>3 DEF ClosedInTime
    <3>5. mt[f] = fs[f]
      BY <1>1, <3>2, <3>4
    <3> QED
      BY <1>2, <2>2, <3>4, <3>5 DEF SameDecision
  <2> QED
    BY <2>1, <2>2
<1> QED
  BY <1>1, <1>9, <1>10, <1>11 DEF RowsAgree, ClosedInTime, mt

\* Rejecting a proposal.
LEMMA RejectKeepsRows ==
  ASSUME NEW D \in SUBSET FactId, NEW fs \in [D -> Fact], NEW g \in D,
         NEW r \in Reviewer, NEW now \in Nat \ {0}, NEW seq \in Nat \ {0},
         RowsAgree(fs), fs[g].status = "proposed"
  PROVE  RowsAgree([fs EXCEPT ![g] = RejectedRow(@, r, now, seq)])
<1> DEFINE gs == [fs EXCEPT ![g] = RejectedRow(@, r, now, seq)]
<1>1. fs[g] \in Fact /\ now \in Nat /\ seq \in Nat
  OBVIOUS
<1>2. /\ gs[g].status = "rejected" /\ gs[g].decisionSeq = seq
      /\ gs[g].confirmedAt = fs[g].confirmedAt
      /\ gs[g].confirmedBy = fs[g].confirmedBy
      /\ gs[g].rejectedAt = now
      /\ gs[g].supersededSeq = fs[g].supersededSeq
      /\ gs[g].supersededAt = fs[g].supersededAt
      /\ gs[g].supersededBy = fs[g].supersededBy
      /\ gs[g].validTo = fs[g].validTo /\ gs[g].validFrom = fs[g].validFrom
      /\ gs \in [D -> Fact]
  BY <1>1, RejectedRowFields
<1>3. \A f \in D : f # g => gs[f] = fs[f]
  OBVIOUS
<1>4. \A f \in D : RowOK(fs[f]) /\ CloserOK(fs, f) /\ (\A h \in D : ClosedInTime(fs, f, h))
  BY DEF RowsAgree
<1> HIDE DEF gs
<1>5. ~Granted(fs[g]) /\ ~Granted(gs[g])
  BY <1>2 DEF Granted
<1>6. ASSUME NEW f \in D, NEW h \in D
      PROVE  ClosedLater(gs, f, h) <=> f # g /\ h # g /\ ClosedLater(fs, f, h)
  BY <1>3, <1>5 DEF ClosedLater, Closes
<1>7. ASSUME NEW f \in D
      PROVE  RowOK(gs[f])
  <2>1. RowOK(fs[f])
    BY <1>4
  <2> QED
    BY <1>2, <1>3, <2>1 DEF RowOK, Granted, Null
<1>8. ASSUME NEW f \in D, gs[f].status = "superseded"
      PROVE  CloserOK(gs, f)
  <2>1. f # g /\ gs[f] = fs[f]
    BY <1>2, <1>3, <1>8
  <2>2. CloserOK(fs, f)
    BY <1>4
  <2>3. fs[f].supersededBy # g
    BY <1>5, <1>8, <2>1, <2>2 DEF CloserOK, ClosedLater
  <2> QED
    BY <1>2, <1>3, <1>6, <1>8, <2>1, <2>2, <2>3 DEF CloserOK
<1>9. ASSUME NEW f \in D, NEW h \in D
      PROVE  ClosedInTime(gs, f, h)
  <2>1. ClosedInTime(fs, f, h)
    BY <1>4
  <2> QED
    BY <1>3, <1>6, <2>1 DEF ClosedInTime
<1> QED
  BY <1>2, <1>7, <1>8, <1>9 DEF RowsAgree, CloserOK, gs

\* Rolling back, row by row: what it keeps, reopens and reverts.
LEMMA RolledBackRows ==
  ASSUME NEW D \in SUBSET FactId, NEW fs \in [D -> Fact], NEW t \in Nat,
         RowsAgree(fs), NEW f \in D
  PROVE  /\ RolledBack(fs, t)[f] \in Fact
         /\ RowOK(RolledBack(fs, t)[f])
         /\ fs[f].decisionSeq > t =>
              /\ RolledBack(fs, t)[f] = RevertedRow(fs[f])
              /\ RolledBack(fs, t)[f].status = "proposed"
              /\ ClaimOf(RolledBack(fs, t)[f]) = ClaimOf(fs[f])
         /\ fs[f].decisionSeq <= t =>
              SameDecision(fs[f], RolledBack(fs, t)[f])
         /\ fs[f].decisionSeq <= t /\ fs[f].supersededSeq > t =>
              /\ fs[f].status = "superseded"
              /\ RolledBack(fs, t)[f] = ReopenedRow(fs[f])
              /\ RolledBack(fs, t)[f].status = "trusted"
         /\ fs[f].decisionSeq <= t /\ fs[f].supersededSeq <= t =>
              RolledBack(fs, t)[f] = fs[f]
<1> DEFINE q == fs[f]
<1>1. q \in Fact /\ RowOK(q)
  BY DEF RowsAgree
<1>2. q.decisionSeq \in Nat /\ q.supersededSeq \in Nat
  BY <1>1 DEF Fact
<1>3. RolledBack(fs, t)[f] = IF ClosedAfter(q, t) THEN ReopenedRow(q)
                             ELSE IF DecidedAfter(q, t) THEN RevertedRow(q) ELSE q
  BY DEF RolledBack
<1> HIDE DEF q
<1>4. CASE q.decisionSeq > t
  <2>1. ~ClosedAfter(q, t) /\ DecidedAfter(q, t)
    BY <1>2, <1>4 DEF ClosedAfter, DecidedAfter, Null
  <2>2. RolledBack(fs, t)[f] = RevertedRow(q)
    BY <1>3, <2>1
  <2> QED
    BY <1>1, <1>2, <1>4, <2>2, RevertedRowFields DEF q, RowOK, Granted, Null
<1>5. CASE q.decisionSeq <= t /\ q.supersededSeq > t
  <2>1. q.status = "superseded" /\ q.decisionSeq # Null
    BY <1>1, <1>2, <1>5 DEF RowOK, Null
  <2>2. ClosedAfter(q, t)
    BY <1>2, <1>5, <2>1 DEF ClosedAfter, Null
  <2>3. RolledBack(fs, t)[f] = ReopenedRow(q)
    BY <1>3, <2>2
  <2>4. RowOK(ReopenedRow(q)) /\ SameDecision(q, ReopenedRow(q))
    BY <1>1, <2>1, ReopenedRowFields DEF RowOK, SameDecision, Granted, Null
  <2> QED
    BY <1>1, <1>2, <1>5, <2>1, <2>3, <2>4, ReopenedRowFields DEF q
<1>6. CASE q.decisionSeq <= t /\ q.supersededSeq <= t
  <2>1. ~ClosedAfter(q, t) /\ ~DecidedAfter(q, t)
    BY <1>2, <1>6 DEF ClosedAfter, DecidedAfter
  <2>2. RolledBack(fs, t)[f] = q
    BY <1>3, <2>1
  <2> QED
    BY <1>1, <1>2, <1>6, <2>2 DEF q, SameDecision
<1> QED
  BY <1>2, <1>4, <1>5, <1>6

\* A rollback keeps the set of rows and what identifies each of them.
LEMMA RollbackKeepsRows ==
  ASSUME NEW D \in SUBSET FactId, NEW fs \in [D -> Fact], NEW t \in Nat,
         RowsAgree(fs)
  PROVE  RolledBack(fs, t) \in [D -> Fact] /\ RowsAgree(RolledBack(fs, t))
<1> DEFINE gs == RolledBack(fs, t)
<1>1. gs \in [D -> Fact]
  <2>1. gs = [f \in D |-> gs[f]]
    BY DEF RolledBack
  <2>2. \A f \in D : gs[f] \in Fact
    BY RolledBackRows
  <2> HIDE DEF gs
  <2> QED
    BY <2>1, <2>2
<1>2. \A f \in D : fs[f].decisionSeq \in Nat /\ fs[f].supersededSeq \in Nat
  BY DEF Fact
<1>3. \A f \in D : CloserOK(fs, f) /\ (\A h \in D : ClosedInTime(fs, f, h))
  BY DEF RowsAgree
<1>4. \A f \in D :
        /\ RowOK(gs[f])
        /\ fs[f].decisionSeq > t => gs[f].status = "proposed"
        /\ fs[f].decisionSeq <= t => SameDecision(fs[f], gs[f])
        /\ fs[f].decisionSeq <= t /\ fs[f].supersededSeq > t => gs[f].status = "trusted"
        /\ fs[f].decisionSeq <= t /\ fs[f].supersededSeq <= t => gs[f] = fs[f]
  BY RolledBackRows
<1> HIDE DEF gs
<1>5. \A f \in D : Granted(gs[f]) => fs[f].decisionSeq <= t
  BY <1>2, <1>4 DEF Granted
<1>6. ASSUME NEW f \in D, gs[f].status = "superseded"
      PROVE  CloserOK(gs, f)
  <2>1. gs[f] = fs[f] /\ fs[f].decisionSeq <= t /\ fs[f].supersededSeq <= t
    BY <1>2, <1>4, <1>6
  <2> DEFINE h == fs[f].supersededBy
  <2>2. /\ h \in D /\ ClosedLater(fs, f, h)
        /\ fs[f].supersededSeq = fs[h].decisionSeq
        /\ fs[f].supersededAt = fs[h].confirmedAt
    BY <1>3, <1>6, <2>1 DEF CloserOK
  <2>3. SameDecision(fs[f], gs[f]) /\ SameDecision(fs[h], gs[h])
    BY <1>4, <2>1, <2>2
  <2>4. ClosedLater(gs, f, h)
    BY <1>1, <2>2, <2>3, SameDecisionClosedLater
  <2> QED
    BY <1>1, <2>1, <2>2, <2>3, <2>4 DEF CloserOK, SameDecision
<1>7. ASSUME NEW f \in D, NEW h \in D, ClosedLater(gs, f, h)
      PROVE  gs[f].status = "superseded" /\ gs[f].supersededSeq <= gs[h].decisionSeq
  <2>1. fs[f].decisionSeq <= t /\ fs[h].decisionSeq <= t
    BY <1>5, <1>7 DEF ClosedLater
  <2>2. SameDecision(fs[f], gs[f]) /\ SameDecision(fs[h], gs[h])
    BY <1>4, <2>1
  <2>3. ClosedLater(fs, f, h)
    BY <1>1, <1>7, <2>2, SameDecisionClosedLater
  <2>4. fs[f].status = "superseded" /\ fs[f].supersededSeq <= fs[h].decisionSeq
    BY <1>3, <2>3 DEF ClosedInTime
  <2>5. gs[f] = fs[f]
    BY <1>2, <1>4, <2>1, <2>4
  <2> QED
    BY <2>2, <2>4, <2>5 DEF SameDecision
<1> QED
  BY <1>1, <1>4, <1>6, <1>7 DEF RowsAgree, CloserOK, ClosedInTime, gs

\* A new proposal beside the rows there are.
LEMMA AddFactKeepsRows ==
  ASSUME NEW D \in SUBSET FactId, NEW fs \in [D -> Fact],
         NEW g \in FactId, g \notin D, NEW r \in Fact,
         RowsAgree(fs), RowOK(r), r.status = "proposed"
  PROVE  /\ AddFact(fs, g, r) \in [D \cup {g} -> Fact]
         /\ RowsAgree(AddFact(fs, g, r))
<1> DEFINE gs == AddFact(fs, g, r)
<1>1. gs \in [D \cup {g} -> Fact]
  BY DEF AddFact
<1>2. gs[g] = r /\ \A f \in D : gs[f] = fs[f]
  BY DEF AddFact
<1>3. \A f \in D : RowOK(fs[f]) /\ CloserOK(fs, f) /\ (\A h \in D : ClosedInTime(fs, f, h))
  BY DEF RowsAgree
<1> HIDE DEF gs
<1>4. ASSUME NEW f \in D \cup {g}, NEW h \in D \cup {g}
      PROVE  ClosedLater(gs, f, h) <=> f \in D /\ h \in D /\ ClosedLater(fs, f, h)
  <2>1. ~Granted(gs[g])
    BY <1>2 DEF Granted
  <2> QED
    BY <1>2, <2>1 DEF ClosedLater, Closes
<1>5. ASSUME NEW f \in D \cup {g}
      PROVE  RowOK(gs[f])
  BY <1>2, <1>3
<1>6. ASSUME NEW f \in D \cup {g}, gs[f].status = "superseded"
      PROVE  CloserOK(gs, f)
  <2>1. f \in D /\ CloserOK(fs, f) /\ gs[f] = fs[f]
    BY <1>2, <1>3, <1>6
  <2> QED
    BY <1>1, <1>2, <1>4, <1>6, <2>1 DEF CloserOK
<1>7. ASSUME NEW f \in D \cup {g}, NEW h \in D \cup {g}
      PROVE  ClosedInTime(gs, f, h)
  BY <1>2, <1>3, <1>4 DEF ClosedInTime
<1> QED
  BY <1>1, <1>5, <1>6, <1>7 DEF RowsAgree, CloserOK, gs

\* One more piece of evidence.
LEMMA AddEvidenceRows ==
  ASSUME NEW D \in SUBSET FactId, NEW fs \in [D -> Fact], NEW g \in D,
         NEW c \in Content
  PROVE  /\ AddEvidence(fs, g, c) \in [D -> Fact]
         /\ \A f \in D : f # g => AddEvidence(fs, g, c)[f] = fs[f]
         /\ ClaimOf(AddEvidence(fs, g, c)[g]) = ClaimOf(fs[g])
         /\ AddEvidence(fs, g, c)[g].status = fs[g].status
         /\ AddEvidence(fs, g, c)[g].decisionSeq = fs[g].decisionSeq
         /\ AddEvidence(fs, g, c)[g].confirmedAt = fs[g].confirmedAt
         /\ AddEvidence(fs, g, c)[g].confirmedBy = fs[g].confirmedBy
         /\ AddEvidence(fs, g, c)[g].rejectedAt = fs[g].rejectedAt
         /\ AddEvidence(fs, g, c)[g].supersededSeq = fs[g].supersededSeq
         /\ AddEvidence(fs, g, c)[g].supersededAt = fs[g].supersededAt
         /\ AddEvidence(fs, g, c)[g].supersededBy = fs[g].supersededBy
         /\ AddEvidence(fs, g, c)[g].validTo = fs[g].validTo
         /\ AddEvidence(fs, g, c)[g].validFrom = fs[g].validFrom
<1> DEFINE q == [fs[g] EXCEPT !.evidence = @ \cup {c}]
<1>1. AddEvidence(fs, g, c) = [fs EXCEPT ![g] = q]
  BY DEF AddEvidence
<1>2. fs[g] \in Fact
  OBVIOUS
<1>3. /\ q \in Fact
      /\ ClaimOf(q) = ClaimOf(fs[g])
      /\ q.status = fs[g].status /\ q.decisionSeq = fs[g].decisionSeq
      /\ q.confirmedAt = fs[g].confirmedAt /\ q.confirmedBy = fs[g].confirmedBy
      /\ q.rejectedAt = fs[g].rejectedAt
      /\ q.supersededSeq = fs[g].supersededSeq /\ q.supersededAt = fs[g].supersededAt
      /\ q.supersededBy = fs[g].supersededBy
      /\ q.validTo = fs[g].validTo /\ q.validFrom = fs[g].validFrom
  BY <1>2 DEF Fact, ClaimOf
<1> HIDE DEF q
<1> QED
  BY <1>1, <1>3

\* Another piece of evidence keeps the set of rows and what identifies each.
LEMMA AddEvidenceKeepsRows ==
  ASSUME NEW D \in SUBSET FactId, NEW fs \in [D -> Fact], NEW g \in D,
         NEW c \in Content, RowsAgree(fs)
  PROVE  RowsAgree(AddEvidence(fs, g, c))
<1> DEFINE gs == AddEvidence(fs, g, c)
<1>1. /\ gs \in [D -> Fact]
      /\ \A f \in D :
           /\ ClaimOf(gs[f]) = ClaimOf(fs[f])
           /\ gs[f].status = fs[f].status
           /\ gs[f].decisionSeq = fs[f].decisionSeq
           /\ gs[f].confirmedAt = fs[f].confirmedAt
           /\ gs[f].confirmedBy = fs[f].confirmedBy
           /\ gs[f].rejectedAt = fs[f].rejectedAt
           /\ gs[f].supersededSeq = fs[f].supersededSeq
           /\ gs[f].supersededAt = fs[f].supersededAt
           /\ gs[f].supersededBy = fs[f].supersededBy
           /\ gs[f].validTo = fs[f].validTo
           /\ gs[f].validFrom = fs[f].validFrom
  BY AddEvidenceRows
<1>2. \A f \in D : RowOK(fs[f]) /\ CloserOK(fs, f) /\ (\A h \in D : ClosedInTime(fs, f, h))
  BY DEF RowsAgree
<1> HIDE DEF gs
<1>3. \A f \in D : SameDecision(fs[f], gs[f])
  BY <1>1 DEF SameDecision, Granted
<1>4. \A f, h \in D : ClosedLater(fs, f, h) <=> ClosedLater(gs, f, h)
  BY <1>1, <1>3, SameDecisionClosedLater
<1>5. \A f \in D : RowOK(gs[f])
  BY <1>1, <1>2 DEF RowOK, Granted
<1>6. \A f \in D : CloserOK(gs, f)
  BY <1>1, <1>2, <1>4 DEF CloserOK
<1>7. \A f, h \in D : ClosedInTime(gs, f, h)
  BY <1>1, <1>2, <1>4 DEF ClosedInTime
<1> QED
  BY <1>1, <1>5, <1>6, <1>7 DEF RowsAgree, gs

-----------------------------------------------------------------------------
(* DecisionsAgree: what each kind of log entry does to the standing decisions *)

\* Appending an audit entry: the earlier entries stay where they are.
LEMMA AppendEntry ==
  ASSUME NEW log \in Seq(Entry), NEW e \in Entry
  PROVE  /\ Append(log, e) \in Seq(Entry)
         /\ Len(log) \in Nat /\ DOMAIN log = 1 .. Len(log)
         /\ Len(Append(log, e)) = Len(log) + 1
         /\ DOMAIN Append(log, e) = 1 .. Len(log) + 1
         /\ \A i \in 1 .. Len(log) : Append(log, e)[i] = log[i]
         /\ Append(log, e)[Len(log) + 1] = e
         /\ \A i \in 1 .. Len(log) : log[i] \in Entry
OBVIOUS

\* A new entry that is no rollback leaves every standing entry standing.
LEMMA StandingAppend ==
  ASSUME NEW log \in Seq(Entry), NEW e \in Entry
  PROVE  /\ \A i \in 1 .. Len(log) :
              Standing(Append(log, e), i)
                <=> Standing(log, i) /\ (IsRollback(e) => i <= e.toSeq)
         /\ Standing(Append(log, e), Len(log) + 1) <=> IsDecision(e)
<1> DEFINE n == Len(log)
           new == Append(log, e)
<1>1. /\ n \in Nat /\ DOMAIN log = 1 .. n /\ DOMAIN new = 1 .. n + 1
      /\ \A i \in 1 .. n : new[i] = log[i]
      /\ new[n + 1] = e
  BY AppendEntry
<1> HIDE DEF n, new
<1>2. ASSUME NEW i \in 1 .. n
      PROVE  Standing(new, i) <=> Standing(log, i) /\ (IsRollback(e) => i <= e.toSeq)
  <2>1. i \in DOMAIN log /\ i \in DOMAIN new /\ new[i] = log[i] /\ n + 1 > i
    BY <1>1, <1>2
  <2>2. (\A j \in DOMAIN new : j > i /\ IsRollback(new[j]) => i <= new[j].toSeq)
          <=> /\ \A j \in DOMAIN log : j > i /\ IsRollback(log[j]) => i <= log[j].toSeq
              /\ IsRollback(e) => i <= e.toSeq
    <3>1. \A j \in DOMAIN new : j = n + 1 \/ (j \in DOMAIN log /\ new[j] = log[j])
      BY <1>1
    <3>2. \A j \in DOMAIN log : j \in DOMAIN new /\ new[j] = log[j]
      BY <1>1
    <3>3. n + 1 \in DOMAIN new
      BY <1>1
    <3> QED
      BY <1>1, <2>1, <3>1, <3>2, <3>3
  <2> QED
    BY <2>1, <2>2 DEF Standing
<1>3. Standing(new, n + 1) <=> IsDecision(e)
  <2>1. n + 1 \in DOMAIN new /\ \A j \in DOMAIN new : ~(j > n + 1)
    BY <1>1
  <2> QED
    BY <1>1, <2>1 DEF Standing
<1> QED
  BY <1>2, <1>3 DEF n, new

\* An entry that decides nothing: assertions and corroborations that only
\* propose, and recorded episodes.
LEMMA QuietKeepsDecisions ==
  ASSUME NEW D, NEW fs \in [D -> Fact],
         NEW E, D \subseteq E, NEW gs \in [E -> Fact],
         \A f \in D : SameDecision(fs[f], gs[f]),
         \A f \in E : f \notin D => gs[f].decisionSeq = Null,
         NEW log \in Seq(Entry), NEW e \in Entry,
         ~IsDecision(e), ~IsRollback(e),
         DecisionsAgree(fs, log)
  PROVE  DecisionsAgree(gs, Append(log, e))
<1> DEFINE n == Len(log)
           new == Append(log, e)
<1>1. /\ n \in Nat /\ DOMAIN log = 1 .. n /\ DOMAIN new = 1 .. n + 1
      /\ \A i \in 1 .. n : new[i] = log[i]
  BY AppendEntry
<1>2. \A i \in DOMAIN new : Standing(new, i) => i \in 1 .. n /\ Standing(log, i)
  BY <1>1, StandingAppend
<1>3. \A i \in 1 .. n : Standing(log, i) => Standing(new, i)
  BY StandingAppend
<1> HIDE DEF n, new
<1>4. ASSUME NEW f \in E, gs[f].decisionSeq # Null
      PROVE  LET i == gs[f].decisionSeq
             IN /\ Standing(new, i)
                /\ new[i].target = f
                /\ Granted(gs[f]) => new[i].grants /\ new[i].at = gs[f].confirmedAt
                /\ gs[f].status = "rejected" => IsRejection(new[i])
  <2>1. f \in D /\ SameDecision(fs[f], gs[f])
    BY <1>4
  <2>2. Standing(log, gs[f].decisionSeq) /\ gs[f].decisionSeq \in 1 .. n
    BY <1>1, <1>4, <2>1 DEF DecisionsAgree, SameDecision, Standing
  <2> QED
    BY <1>1, <1>3, <1>4, <2>1, <2>2 DEF DecisionsAgree, SameDecision
<1>5. ASSUME NEW i \in DOMAIN new, Standing(new, i)
      PROVE  new[i].target \in E /\ gs[new[i].target].decisionSeq = i
  BY <1>1, <1>2, <1>5 DEF DecisionsAgree, SameDecision
<1> QED
  BY <1>4, <1>5 DEF DecisionsAgree, new

\* An entry that decides a proposal g.
LEMMA DecideKeepsDecisions ==
  ASSUME NEW D, NEW fs \in [D -> Fact], NEW gs \in [D -> Fact], NEW g \in D,
         \A f \in D : f # g => SameDecision(fs[f], gs[f]),
         NEW log \in Seq(Entry), NEW e \in Entry,
         fs[g].decisionSeq = Null, gs[g].decisionSeq = Len(log) + 1,
         IsDecision(e), ~IsRollback(e), e.target = g,
         Granted(gs[g]) => e.grants /\ e.at = gs[g].confirmedAt,
         gs[g].status = "rejected" => IsRejection(e),
         DecisionsAgree(fs, log)
  PROVE  DecisionsAgree(gs, Append(log, e))
<1> DEFINE n == Len(log)
           new == Append(log, e)
<1>1. /\ n \in Nat /\ DOMAIN log = 1 .. n /\ DOMAIN new = 1 .. n + 1
      /\ \A i \in 1 .. n : new[i] = log[i]
      /\ new[n + 1] = e
  BY AppendEntry
<1>2. \A i \in 1 .. n : Standing(log, i) <=> Standing(new, i)
  BY StandingAppend
<1>3. Standing(new, n + 1)
  BY StandingAppend
<1> HIDE DEF n, new
<1>4. ASSUME NEW f \in D, gs[f].decisionSeq # Null
      PROVE  LET i == gs[f].decisionSeq
             IN /\ Standing(new, i)
                /\ new[i].target = f
                /\ Granted(gs[f]) => new[i].grants /\ new[i].at = gs[f].confirmedAt
                /\ gs[f].status = "rejected" => IsRejection(new[i])
  <2>1. CASE f = g
    BY <1>1, <1>3, <2>1 DEF n
  <2>2. CASE f # g
    <3>1. SameDecision(fs[f], gs[f])
      BY <2>2
    <3>2. Standing(log, gs[f].decisionSeq) /\ gs[f].decisionSeq \in 1 .. n
      BY <1>1, <1>4, <3>1 DEF DecisionsAgree, SameDecision, Standing
    <3> QED
      BY <1>1, <1>2, <1>4, <3>1, <3>2 DEF DecisionsAgree, SameDecision
  <2> QED
    BY <2>1, <2>2
<1>5. ASSUME NEW i \in DOMAIN new, Standing(new, i)
      PROVE  new[i].target \in D /\ gs[new[i].target].decisionSeq = i
  <2>1. CASE i = n + 1
    BY <1>1, <2>1 DEF n
  <2>2. CASE i \in 1 .. n
    <3>1. /\ new[i] = log[i] /\ Standing(log, i)
          /\ log[i].target \in D /\ fs[log[i].target].decisionSeq = i
      BY <1>1, <1>2, <1>5, <2>2 DEF DecisionsAgree
    <3>2. log[i].target # g
      BY <2>2, <3>1 DEF Null
    <3> QED
      BY <3>1, <3>2 DEF SameDecision
  <2> QED
    BY <1>1, <2>1, <2>2
<1> QED
  BY <1>4, <1>5 DEF DecisionsAgree, new

\* A rollback to entry t.
LEMMA RollbackKeepsDecisions ==
  ASSUME NEW D \in SUBSET FactId, NEW fs \in [D -> Fact],
         NEW log \in Seq(Entry), NEW e \in Entry, NEW t \in Nat,
         ~IsDecision(e), IsRollback(e), e.toSeq = t,
         RowsAgree(fs), DecisionsAgree(fs, log)
  PROVE  DecisionsAgree(RolledBack(fs, t), Append(log, e))
<1> DEFINE n == Len(log)
           new == Append(log, e)
           gs == RolledBack(fs, t)
<1>1. /\ n \in Nat /\ DOMAIN log = 1 .. n /\ DOMAIN new = 1 .. n + 1
      /\ \A i \in 1 .. n : new[i] = log[i]
  BY AppendEntry
<1>2. \A i \in 1 .. n : Standing(new, i) <=> Standing(log, i) /\ i <= t
  BY StandingAppend
<1>3. ~Standing(new, n + 1)
  BY StandingAppend
<1>4. gs \in [D -> Fact]
  BY RollbackKeepsRows
<1>5. \A f \in D :
        /\ RowOK(gs[f])
        /\ fs[f].decisionSeq > t => gs[f].status = "proposed"
        /\ fs[f].decisionSeq <= t => SameDecision(fs[f], gs[f])
  BY RolledBackRows
<1>6. \A f \in D : fs[f].decisionSeq \in Nat
  BY DEF Fact
<1> HIDE DEF n, new, gs
<1>7. ASSUME NEW f \in D, gs[f].decisionSeq # Null
      PROVE  LET i == gs[f].decisionSeq
             IN /\ Standing(new, i)
                /\ new[i].target = f
                /\ Granted(gs[f]) => new[i].grants /\ new[i].at = gs[f].confirmedAt
                /\ gs[f].status = "rejected" => IsRejection(new[i])
  <2>1. fs[f].decisionSeq <= t /\ SameDecision(fs[f], gs[f])
    BY <1>5, <1>6, <1>7 DEF RowOK
  <2>2. Standing(log, gs[f].decisionSeq) /\ gs[f].decisionSeq \in 1 .. n
    BY <1>1, <1>7, <2>1 DEF DecisionsAgree, SameDecision, Standing
  <2>3. Standing(new, gs[f].decisionSeq)
    BY <1>2, <2>1, <2>2 DEF SameDecision
  <2> QED
    BY <1>1, <1>7, <2>1, <2>2, <2>3 DEF DecisionsAgree, SameDecision
<1>8. ASSUME NEW i \in DOMAIN new, Standing(new, i)
      PROVE  new[i].target \in D /\ gs[new[i].target].decisionSeq = i
  <2>1. i \in 1 .. n
    BY <1>1, <1>3, <1>8
  <2>2. /\ new[i] = log[i] /\ Standing(log, i) /\ i <= t
        /\ log[i].target \in D /\ fs[log[i].target].decisionSeq = i
    BY <1>1, <1>2, <1>8, <2>1 DEF DecisionsAgree
  <2> QED
    BY <1>5, <2>2 DEF SameDecision
<1> QED
  BY <1>4, <1>7, <1>8 DEF DecisionsAgree, gs, new

-----------------------------------------------------------------------------
(* What the handlers share *)

\* An entry made now keeps the log running forward.
LEMMA AppendKeepsForward ==
  ASSUME NEW log \in Seq(Entry), NEW e \in Entry, NEW now \in Nat \ {0},
         LogForward(log, now), e.at = now,
         IsRollback(e) => e.toSeq < Len(log) + 1 /\ ~IsDecision(e),
         ~(e.grants /\ IsRejection(e))
  PROVE  LogForward(Append(log, e), now)
<1> DEFINE n == Len(log)
           new == Append(log, e)
<1>1. /\ n \in Nat /\ DOMAIN log = 1 .. n /\ DOMAIN new = 1 .. n + 1
      /\ \A i \in 1 .. n : new[i] = log[i]
      /\ new[n + 1] = e
  BY AppendEntry
<1> HIDE DEF n, new
<1>2. ASSUME NEW i \in 1 .. n
      PROVE  /\ new[i].at \in 1 .. now
             /\ IsRollback(new[i]) => new[i].toSeq < i /\ ~IsDecision(new[i])
             /\ ~(new[i].grants /\ IsRejection(new[i]))
             /\ \A j \in DOMAIN new : i < j => new[i].at <= new[j].at
  <2>1. /\ log[i].at \in 1 .. now
        /\ IsRollback(log[i]) => log[i].toSeq < i /\ ~IsDecision(log[i])
        /\ ~(log[i].grants /\ IsRejection(log[i]))
        /\ \A j \in DOMAIN log : i < j => log[i].at <= log[j].at
    BY <1>1 DEF LogForward
  <2> QED
    BY <1>1, <2>1
<1>3. \A j \in DOMAIN new : ~(n + 1 < j)
  BY <1>1
<1> QED
  BY <1>1, <1>2, <1>3 DEF LogForward, new, n

\* The limit counts in naturals.
LEMMA WindowIsNat ==
  ASSUME NEW t \in Nat
  PROVE  WindowAt(t) \in Nat
BY ConstantsOK DEF WindowAt

\* Counting a write keeps the counters typed.
LEMMA ConsumeWriteType ==
  ASSUME TypeOK, NEW p \in Principal, ConsumeWrite(p)
  PROVE  /\ DOMAIN counters' \subseteq Principal
         /\ counters' \in [DOMAIN counters' -> [window: Nat, count: Nat]]
<1>1. WindowAt(clock) \in Nat
  BY WindowIsNat DEF TypeOK
<1>2. CountedNow(p) \in Nat
  BY DEF TypeOK, CountedNow
<1> DEFINE row == [window |-> WindowAt(clock), count |-> CountedNow(p) + 1]
<1>3. row \in [window: Nat, count: Nat]
  BY <1>1, <1>2
<1>4. counters' = [q \in DOMAIN counters \cup {p} |->
                     IF q = p THEN row ELSE counters[q]]
  BY DEF ConsumeWrite
<1> HIDE DEF row
<1> QED
  BY <1>3, <1>4 DEF TypeOK

\* Under the invariant a decision is numbered below the next entry, and a
\* proposal has no number.
LEMMA Numbered ==
  ASSUME IInv, NEW f \in DOMAIN facts
  PROVE  /\ facts[f] \in Fact
         /\ facts[f].decisionSeq \in 0 .. Len(audit)
         /\ facts[f].status = "proposed" => facts[f].decisionSeq = Null
<1>1. facts[f] \in Fact /\ facts[f].decisionSeq \in Nat
  BY DEF IInv, TypeOK, Fact
<1>2. DOMAIN audit = 1 .. Len(audit) /\ Len(audit) \in Nat
  BY DEF IInv, TypeOK
<1>3. facts[f].decisionSeq # Null => facts[f].decisionSeq \in DOMAIN audit
  BY DEF IInv, DecisionsAgree, Standing
<1>4. RowOK(facts[f])
  BY DEF IInv, RowsAgree
<1> QED
  BY <1>1, <1>2, <1>3, <1>4 DEF RowOK, Null

-----------------------------------------------------------------------------
(* The steps that change facts *)

\* Trusting a proposal, in a table fs that agrees with the log: by a review,
\* or by an allowlisted source.
LEMMA GrantKeepsIInv ==
  ASSUME NEW D \in SUBSET FactId, NEW fs \in [D -> Fact], NEW g \in D,
         NEW by \in Granter, by[1] # "none",
         RowsAgree(fs), DecisionsAgree(fs, audit),
         \A f \in D : fs[f].decisionSeq \in 0 .. Len(audit),
         fs[g].status = "proposed", fs[g].decisionSeq = Null,
         audit \in Seq(Entry), clock \in Nat \ {0},
         NEW e \in Entry, audit' = Append(audit, e),
         e.grants, ~IsRollback(e), e.target = g, e.at = clock,
         facts' = MarkTrusted(fs, g, by, clock, NextSeq)
  PROVE  /\ facts' \in [D -> Fact]
         /\ RowsAgree(facts')
         /\ DecisionsAgree(facts', audit')
<1>1. /\ NextSeq \in Nat \ {0}
      /\ \A f \in D : fs[f].decisionSeq < NextSeq
      /\ Len(audit) \in Nat
  BY DEF NextSeq
<1>2. fs[g] \in Fact /\ clock \in Nat /\ NextSeq \in Nat /\ g \in DOMAIN fs
  BY <1>1
<1>3. /\ TrustedRow(fs[g], by, clock, NextSeq).subject = fs[g].subject
       /\ TrustedRow(fs[g], by, clock, NextSeq).predicate = fs[g].predicate
       /\ TrustedRow(fs[g], by, clock, NextSeq).object = fs[g].object
  BY <1>2 DEF TrustedRow, Fact
<1>4. facts' \in [D -> Fact] /\ facts'[g] = TrustedRow(fs[g], by, clock, NextSeq)
  <2>1. facts' \in [D -> Fact]
    BY <1>1, MarkTrustedRows
  <2>2. facts'[g] = TrustedRow(fs[g], by, clock, NextSeq)
    BY <1>2, <1>3, MarkTrustedAt
  <2> QED
    BY <2>1, <2>2
<1>5. /\ TrustedRow(fs[g], by, clock, NextSeq).status = "trusted"
       /\ TrustedRow(fs[g], by, clock, NextSeq).decisionSeq = NextSeq
       /\ TrustedRow(fs[g], by, clock, NextSeq).confirmedAt = clock
  BY <1>2, TrustedRowFields
<1>6. /\ facts'[g].status = "trusted" /\ facts'[g].decisionSeq = Len(audit) + 1
      /\ facts'[g].confirmedAt = clock
  BY <1>4, <1>5 DEF NextSeq
<1>7. RowsAgree(facts')
  BY <1>1, GrantKeepsRows
<1>8. \A f \in D : f # g => SameDecision(fs[f], facts'[f])
  BY <1>1, MarkTrustedOthers
<1>9. DecisionsAgree(facts', Append(audit, e))
  BY <1>4, <1>6, <1>8, DecideKeepsDecisions DEF IsDecision
<1> QED
  BY <1>4, <1>7, <1>9

\* Steps that leave the facts alone: they log nothing, or a quiet entry.
LEMMA QuietKeepsIInv ==
  ASSUME IInv, facts' = facts, clock' = clock,
         NEW e \in Entry, audit' = Append(audit, e),
         ~IsDecision(e), ~IsRollback(e), e.at = clock
  PROVE  /\ audit' \in Seq(Entry)
         /\ LogForward(audit', clock')
         /\ RowsAgree(facts')
         /\ DecisionsAgree(facts', audit')
<1>1. /\ facts \in [DOMAIN facts -> Fact] /\ audit \in Seq(Entry)
      /\ clock \in Nat \ {0}
      /\ LogForward(audit, clock) /\ RowsAgree(facts)
      /\ DecisionsAgree(facts, audit)
  BY DEF IInv, TypeOK
<1>2. LogForward(Append(audit, e), clock)
  BY <1>1, AppendKeepsForward DEF IsDecision
<1>3. \A f \in DOMAIN facts : SameDecision(facts[f], facts[f])
  BY DEF SameDecision
<1>4. DecisionsAgree(facts, Append(audit, e))
  BY <1>1, <1>3, QuietKeepsDecisions
<1> QED
  BY <1>1, <1>2, <1>4

\* A new episode keeps the invariant.
LEMMA EpisodeKeepsIInv ==
  ASSUME IInv, NEW p \in Principal, NEW c \in Content, NEW src \in Source,
         RecordEpisode(p, c, src)
  PROVE  IInv'
<1>1. TypeOK
  BY DEF IInv
<1> DEFINE e == [at |-> clock, action |-> "episode.record", actor |-> p,
                 target |-> c, grants |-> FALSE, toSeq |-> Null]
<1>2. /\ e \in Entry
      /\ audit' = Append(audit, e) /\ e.at = clock
      /\ e.action = "episode.record" /\ e.grants = FALSE
  BY <1>1 DEF RecordEpisode, Log, TypeOK, Entry, Action, Null
<1> HIDE DEF e
<1>3. facts' = facts /\ clock' = clock /\ entities' = entities
  BY DEF RecordEpisode
<1>4. ~IsDecision(e) /\ ~IsRollback(e)
  BY <1>2 DEF IsDecision, IsRejection, IsRollback
<1>5. /\ audit' \in Seq(Entry) /\ LogForward(audit', clock')
      /\ RowsAgree(facts') /\ DecisionsAgree(facts', audit')
  BY <1>2, <1>3, <1>4, QuietKeepsIInv
<1>6. /\ DOMAIN counters' \subseteq Principal
      /\ counters' \in [DOMAIN counters' -> [window: Nat, count: Nat]]
  BY <1>1, ConsumeWriteType DEF RecordEpisode
<1>7. DOMAIN episodes' \subseteq Content /\ episodes' \in [DOMAIN episodes' -> Episode]
  <2> DEFINE row == [principal |-> p, source |-> src, parts |-> PartsOf[c]]
  <2>1. row \in Episode
    BY ConstantsOK DEF Episode
  <2>2. episodes' = [d \in DOMAIN episodes \cup {c} |->
                       IF d = c THEN row ELSE episodes[d]]
    BY DEF RecordEpisode
  <2> HIDE DEF row
  <2> QED
    BY <1>1, <2>1, <2>2 DEF TypeOK
<1> QED
  BY <1>1, <1>3, <1>5, <1>6, <1>7 DEF IInv, TypeOK

\* An episode that is stored already keeps it.
LEMMA DuplicateKeepsIInv ==
  ASSUME IInv, NEW p \in Principal, NEW c \in Content, RecordDuplicate(p, c)
  PROVE  IInv'
<1>1. /\ DOMAIN counters' \subseteq Principal
      /\ counters' \in [DOMAIN counters' -> [window: Nat, count: Nat]]
  BY ConsumeWriteType DEF RecordDuplicate, IInv
<1>2. UNCHANGED <<facts, episodes, entities, fts, queue, audit, clock>>
  BY DEF RecordDuplicate
<1> QED
  BY <1>1, <1>2 DEF IInv, TypeOK

\* The assertion of a new claim adds a row that agrees with its columns.
LEMMA NewFactRow ==
  ASSUME NEW s \in Key, NEW p \in Predicate, NEW o \in Key,
         NEW vf \in Nat, NEW vt \in Nat, NEW c \in Content,
         NEW origin \in FactOrigin, NEW who \in Principal,
         ClaimOk(s, p, o, vf, vt), clock \in Nat
  PROVE  /\ NewFact(s, p, o, vf, vt, c, origin, who) \in Fact
         /\ RowOK(NewFact(s, p, o, vf, vt, c, origin, who))
         /\ NewFact(s, p, o, vf, vt, c, origin, who).status = "proposed"
         /\ NewFact(s, p, o, vf, vt, c, origin, who).decisionSeq = Null
BY DEF NewFact, Fact, RowOK, Granted, Granter, Status, ClaimOk, Null

\* Confirming a proposal keeps it.
LEMMA ConfirmKeepsIInv ==
  ASSUME IInv, NEW r \in Reviewer, NEW f \in FactId, ConfirmFact(r, f)
  PROVE  IInv'
<1>1. TypeOK /\ f \in DOMAIN facts /\ facts[f].status = "proposed"
  BY DEF IInv, ConfirmFact
<1> DEFINE e == [at |-> clock, action |-> "fact.confirm", actor |-> r,
                 target |-> f, grants |-> TRUE, toSeq |-> Null]
<1>2. /\ e \in Entry
      /\ audit' = Append(audit, e) /\ e.at = clock
      /\ e.action = "fact.confirm" /\ e.grants = TRUE
      /\ e.target = f
  BY <1>1 DEF ConfirmFact, Log, TypeOK, Entry, Action, Null
<1> HIDE DEF e
<1>3. ~IsRollback(e) /\ ~IsRejection(e)
  BY <1>2 DEF IsRejection, IsRollback
<1>4. /\ <<"review", r>> \in Granter /\ <<"review", r>>[1] # "none"
      /\ DOMAIN facts \in SUBSET FactId /\ facts \in [DOMAIN facts -> Fact]
      /\ audit \in Seq(Entry) /\ clock \in Nat \ {0}
  BY <1>1 DEF Granter, TypeOK
<1>5. \A h \in DOMAIN facts : facts[h].decisionSeq \in 0 .. Len(audit)
  BY Numbered
<1>6. facts[f].decisionSeq = Null
  BY <1>1, Numbered
<1>7. facts' = MarkTrusted(facts, f, <<"review", r>>, clock, NextSeq)
  BY DEF ConfirmFact
<1>8. /\ facts' \in [DOMAIN facts -> Fact] /\ RowsAgree(facts')
      /\ DecisionsAgree(facts', audit')
  BY <1>1, <1>2, <1>3, <1>4, <1>5, <1>6, <1>7, GrantKeepsIInv DEF IInv
<1>9. LogForward(audit', clock) /\ audit' \in Seq(Entry)
  BY <1>2, <1>3, <1>4, AppendKeepsForward DEF IInv
<1>10. UNCHANGED <<episodes, entities, fts, queue, counters, clock>>
  BY DEF ConfirmFact
<1> QED
  BY <1>1, <1>8, <1>9, <1>10 DEF IInv, TypeOK

\* A rejection marks one proposal and closes nothing.
LEMMA RejectKeepsIInv ==
  ASSUME IInv, NEW r \in Reviewer, NEW f \in FactId, RejectFact(r, f)
  PROVE  IInv'
<1>1. TypeOK /\ f \in DOMAIN facts /\ facts[f].status = "proposed"
  BY DEF IInv, RejectFact
<1> DEFINE e == [at |-> clock, action |-> "fact.reject", actor |-> r,
                 target |-> f, grants |-> FALSE, toSeq |-> Null]
<1>2. /\ e \in Entry
      /\ audit' = Append(audit, e) /\ e.at = clock
      /\ e.action = "fact.reject" /\ e.grants = FALSE
      /\ e.target = f
  BY <1>1 DEF RejectFact, Log, TypeOK, Entry, Action, Null
<1> HIDE DEF e
<1>3. ~IsRollback(e) /\ IsRejection(e) /\ IsDecision(e)
  BY <1>2 DEF IsRejection, IsRollback, IsDecision
<1>4. /\ DOMAIN facts \in SUBSET FactId /\ facts \in [DOMAIN facts -> Fact]
      /\ audit \in Seq(Entry) /\ clock \in Nat \ {0} /\ clock \in Nat
      /\ facts[f] \in Fact /\ NextSeq = Len(audit) + 1 /\ NextSeq \in Nat \ {0}
      /\ NextSeq \in Nat
  BY <1>1 DEF TypeOK, NextSeq
<1>5. facts[f].decisionSeq = Null
  BY <1>1, Numbered
<1> DEFINE row == RejectedRow(facts[f], r, clock, NextSeq)
<1>6. /\ row \in Fact /\ row.status = "rejected" /\ row.decisionSeq = NextSeq
  BY <1>4, RejectedRowFields
<1>7. facts' = [facts EXCEPT ![f] = row]
  BY DEF RejectFact
<1>8. RowsAgree(facts')
  BY <1>1, <1>4, <1>7, RejectKeepsRows DEF IInv
<1> HIDE DEF row
<1>9. /\ facts' \in [DOMAIN facts -> Fact] /\ facts'[f] = row
      /\ \A h \in DOMAIN facts : h # f => facts'[h] = facts[h]
  BY <1>1, <1>4, <1>6, <1>7
<1>10. \A h \in DOMAIN facts : h # f => SameDecision(facts[h], facts'[h])
  BY <1>9 DEF SameDecision
<1>11. DecisionsAgree(facts', Append(audit, e))
  <2>1. ~Granted(facts'[f])
    BY <1>6, <1>9 DEF Granted
  <2> QED
    BY <1>1, <1>2, <1>3, <1>4, <1>5, <1>6, <1>9, <1>10, <2>1,
       DecideKeepsDecisions DEF IInv
<1>12. LogForward(audit', clock) /\ audit' \in Seq(Entry)
  BY <1>2, <1>3, <1>4, AppendKeepsForward DEF IInv
<1>13. UNCHANGED <<episodes, entities, fts, queue, counters, clock>>
  BY DEF RejectFact
<1> QED
  BY <1>1, <1>2, <1>8, <1>9, <1>11, <1>12, <1>13 DEF IInv, TypeOK

\* A rollback keeps it.
LEMMA RollbackKeepsIInv ==
  ASSUME IInv, NEW r \in Reviewer, NEW t \in 0 .. Len(audit), RollbackTo(r, t)
  PROVE  IInv'
<1>1. /\ TypeOK /\ t \in Nat /\ t < Len(audit) + 1
      /\ facts' = RolledBack(facts, t)
  BY DEF IInv, TypeOK, RollbackTo
<1> DEFINE e == [at |-> clock, action |-> "audit.rollback", actor |-> r,
                 target |-> NoFact, grants |-> FALSE, toSeq |-> t]
<1>2. /\ e \in Entry
      /\ audit' = Append(audit, e) /\ e.at = clock
      /\ e.action = "audit.rollback" /\ e.grants = FALSE
      /\ e.toSeq = t
  BY <1>1 DEF RollbackTo, Log, TypeOK, Entry, Action, Null
<1> HIDE DEF e
<1>3. IsRollback(e) /\ ~IsRejection(e) /\ ~IsDecision(e)
  BY <1>2 DEF IsRejection, IsRollback, IsDecision
<1>4. /\ DOMAIN facts \in SUBSET FactId /\ facts \in [DOMAIN facts -> Fact]
      /\ audit \in Seq(Entry) /\ clock \in Nat \ {0}
      /\ RowsAgree(facts) /\ DecisionsAgree(facts, audit)
  BY <1>1 DEF TypeOK, IInv
<1>5. facts' \in [DOMAIN facts -> Fact] /\ RowsAgree(facts')
  BY <1>1, <1>4, RollbackKeepsRows
<1>6. DecisionsAgree(facts', audit')
  BY <1>1, <1>2, <1>3, <1>4, RollbackKeepsDecisions
<1>7. LogForward(audit', clock) /\ audit' \in Seq(Entry)
  BY <1>1, <1>2, <1>3, <1>4, AppendKeepsForward DEF IInv
<1>8. UNCHANGED <<episodes, entities, fts, queue, counters, clock>>
  BY DEF RollbackTo
<1> QED
  BY <1>1, <1>5, <1>6, <1>7, <1>8 DEF IInv, TypeOK

\* A new claim: a proposal, or a row trusted in the step that adds it.
LEMMA AssertNewKeepsIInv ==
  ASSUME IInv, NEW who \in Principal, NEW origin \in FactOrigin,
         NEW s \in Key, NEW p \in Predicate, NEW o \in Key,
         NEW vf \in Nat, NEW vt \in Nat, NEW c \in Content, NEW f \in FactId,
         AssertNew(who, origin, s, p, o, vf, vt, c, f)
  PROVE  IInv'
<1> DEFINE trusts == InitialStatus(origin) = "trusted"
           row == NewFact(s, p, o, vf, vt, c, origin, who)
           added == AddFact(facts, f, row)
           D == DOMAIN facts \cup {f}
           e == [at |-> clock, action |-> "fact.assert", actor |-> who,
                 target |-> f, grants |-> trusts, toSeq |-> Null]
<1>1. TypeOK /\ f \notin DOMAIN facts
  BY DEF IInv, AssertNew
<1>2. /\ e \in Entry
      /\ audit' = Append(audit, e) /\ e.at = clock
      /\ e.action = "fact.assert" /\ e.target = f
      /\ e.grants <=> trusts
  BY <1>1 DEF AssertNew, Log, TypeOK, Entry, Action, Null
<1>3. /\ trusts => facts' = MarkTrusted(added, f, <<"allowlist", who>>, clock, NextSeq)
      /\ ~trusts => facts' = added
  BY DEF AssertNew
<1>4. row \in Fact /\ RowOK(row) /\ row.status = "proposed" /\ row.decisionSeq = Null
  BY <1>1, NewFactRow DEF AssertNew, TypeOK
<1> HIDE DEF e, row, trusts
<1>5. ~IsRollback(e) /\ ~IsRejection(e) /\ (IsDecision(e) <=> trusts)
  BY <1>2 DEF IsRejection, IsRollback, IsDecision
<1>6. /\ DOMAIN facts \in SUBSET FactId /\ D \in SUBSET FactId /\ f \in D
      /\ facts \in [DOMAIN facts -> Fact]
      /\ audit \in Seq(Entry) /\ clock \in Nat \ {0}
      /\ RowsAgree(facts) /\ DecisionsAgree(facts, audit)
  BY <1>1 DEF IInv, TypeOK
<1>7. added \in [D -> Fact] /\ RowsAgree(added)
  BY <1>1, <1>4, <1>6, AddFactKeepsRows
<1>8. added[f] = row /\ \A h \in DOMAIN facts : added[h] = facts[h]
  BY <1>1 DEF AddFact
<1> HIDE DEF added
<1>9. DecisionsAgree(added, audit)
  <2>1. \A h \in D : added[h].decisionSeq # Null => h \in DOMAIN facts
    BY <1>4, <1>8
  <2> QED
    BY <1>6, <1>7, <1>8, <2>1 DEF DecisionsAgree
<1>10. \A h \in D : added[h].decisionSeq \in 0 .. Len(audit)
  <2>1. \A h \in DOMAIN facts : added[h].decisionSeq \in 0 .. Len(audit)
    BY <1>8, Numbered
  <2>2. added[f].decisionSeq \in 0 .. Len(audit)
    BY <1>4, <1>6, <1>8 DEF Null
  <2> QED
    BY <2>1, <2>2
<1>11. /\ facts' \in [D -> Fact] /\ RowsAgree(facts')
       /\ DecisionsAgree(facts', audit')
  <2>1. CASE trusts
    <3>1. <<"allowlist", who>> \in Granter /\ <<"allowlist", who>>[1] # "none"
      BY DEF Granter
    <3>2. facts' = MarkTrusted(added, f, <<"allowlist", who>>, clock, NextSeq)
      BY <1>3, <2>1
    <3>3. e.grants
      BY <1>2, <2>1
    <3>4. added[f].status = "proposed" /\ added[f].decisionSeq = Null
      BY <1>4, <1>8
    <3> HIDE DEF D
    <3> QED
      BY <1>2, <1>5, <1>6, <1>7, <1>9, <1>10, <3>1, <3>2, <3>3, <3>4, GrantKeepsIInv
  <2>2. CASE ~trusts
    <3>1. facts' = added
      BY <1>3, <2>2
    <3>2. \A h \in DOMAIN facts : SameDecision(facts[h], added[h])
      BY <1>8 DEF SameDecision
    <3>3. \A h \in D : h \notin DOMAIN facts => added[h].decisionSeq = Null
      BY <1>4, <1>8
    <3>4. ~IsDecision(e) /\ DOMAIN facts \subseteq D
      BY <1>5, <2>2
    <3> HIDE DEF D
    <3>5. DecisionsAgree(added, Append(audit, e))
      BY <1>2, <1>5, <1>6, <1>7, <3>2, <3>3, <3>4, QuietKeepsDecisions
    <3> QED
      BY <1>2, <1>7, <3>1, <3>5
  <2> QED
    BY <2>1, <2>2
<1>12. LogForward(audit', clock) /\ audit' \in Seq(Entry)
  BY <1>2, <1>5, <1>6, AppendKeepsForward DEF IInv
<1>13. /\ DOMAIN counters' \subseteq Principal
       /\ counters' \in [DOMAIN counters' -> [window: Nat, count: Nat]]
  BY <1>1, ConsumeWriteType DEF AssertNew
<1>14. UNCHANGED <<episodes, clock>> /\ entities' \subseteq Key
  BY <1>1 DEF AssertNew, UpsertEntities, TypeOK
<1>15. DOMAIN facts' = D /\ facts' \in [DOMAIN facts' -> Fact]
  BY <1>11
<1> HIDE DEF D
<1> QED
  BY <1>1, <1>6, <1>11, <1>12, <1>13, <1>14, <1>15 DEF IInv, TypeOK

\* A claim made again: evidence, and perhaps the promotion of a proposal.
LEMMA CorroborateKeepsIInv ==
  ASSUME IInv, NEW who \in Principal, NEW origin \in FactOrigin,
         NEW s \in Key, NEW p \in Predicate, NEW o \in Key,
         NEW vf \in Nat, NEW vt \in Nat, NEW c \in Content, NEW f \in FactId,
         Corroborate(who, origin, s, p, o, vf, vt, c, f)
  PROVE  IInv'
<1> DEFINE promote == /\ facts[f].status = "proposed"
                      /\ InitialStatus(origin) = "trusted"
           seen == AddEvidence(facts, f, c)
           D == DOMAIN facts
           e == [at |-> clock, action |-> "fact.corroborate", actor |-> who,
                 target |-> f, grants |-> promote, toSeq |-> Null]
<1>1. TypeOK /\ f \in D
  BY DEF IInv, Corroborate, Existing, Matching
<1>2. /\ e \in Entry
      /\ audit' = Append(audit, e) /\ e.at = clock
      /\ e.action = "fact.corroborate" /\ e.target = f
      /\ e.grants <=> promote
  BY <1>1 DEF Corroborate, Log, TypeOK, Entry, Action, Null
<1>3. /\ promote => facts' = MarkTrusted(seen, f, <<"allowlist", who>>, clock, NextSeq)
      /\ ~promote => facts' = seen
  BY DEF Corroborate
<1>4. promote => facts[f].status = "proposed"
  OBVIOUS
<1> HIDE DEF e, promote
<1>5. ~IsRollback(e) /\ ~IsRejection(e) /\ (IsDecision(e) <=> promote)
  BY <1>2 DEF IsRejection, IsRollback, IsDecision
<1>6. /\ D \in SUBSET FactId /\ facts \in [D -> Fact]
      /\ audit \in Seq(Entry) /\ clock \in Nat \ {0}
      /\ RowsAgree(facts) /\ DecisionsAgree(facts, audit)
  BY <1>1 DEF IInv, TypeOK
<1>7. seen \in [D -> Fact] /\ RowsAgree(seen)
  BY <1>1, <1>6, AddEvidenceRows, AddEvidenceKeepsRows
<1>8. \A h \in D : /\ SameDecision(facts[h], seen[h])
                   /\ seen[h].status = facts[h].status
                   /\ seen[h].decisionSeq = facts[h].decisionSeq
  <2>1. /\ \A h \in D : h # f => seen[h] = facts[h]
        /\ ClaimOf(seen[f]) = ClaimOf(facts[f])
        /\ seen[f].status = facts[f].status
        /\ seen[f].decisionSeq = facts[f].decisionSeq
        /\ seen[f].confirmedAt = facts[f].confirmedAt
    BY <1>1, <1>6, AddEvidenceRows
  <2> HIDE DEF seen
  <2> QED
    BY <1>1, <2>1 DEF SameDecision, Granted
<1> HIDE DEF seen
<1>9. DecisionsAgree(seen, audit)
  BY <1>6, <1>7, <1>8 DEF DecisionsAgree, SameDecision
<1>10. \A h \in D : seen[h].decisionSeq \in 0 .. Len(audit)
  BY <1>8, Numbered
<1>11. /\ facts' \in [D -> Fact] /\ RowsAgree(facts')
       /\ DecisionsAgree(facts', audit')
  <2>1. CASE promote
    <3>1. <<"allowlist", who>> \in Granter /\ <<"allowlist", who>>[1] # "none"
      BY DEF Granter
    <3>2. facts' = MarkTrusted(seen, f, <<"allowlist", who>>, clock, NextSeq)
      BY <1>3, <2>1
    <3>3. e.grants
      BY <1>2, <2>1
    <3>4. seen[f].status = "proposed" /\ seen[f].decisionSeq = Null
      BY <1>1, <1>4, <1>8, <2>1, Numbered
    <3> HIDE DEF D
    <3> QED
      BY <1>1, <1>2, <1>5, <1>6, <1>7, <1>9, <1>10, <3>1, <3>2, <3>3, <3>4, GrantKeepsIInv
  <2>2. CASE ~promote
    <3>1. facts' = seen /\ ~IsDecision(e)
      BY <1>3, <1>5, <2>2
    <3> HIDE DEF D
    <3>2. DecisionsAgree(seen, Append(audit, e))
      BY <1>2, <1>5, <1>6, <1>7, <1>8, <3>1, QuietKeepsDecisions
    <3> QED
      BY <1>2, <1>7, <3>1, <3>2
  <2> QED
    BY <2>1, <2>2
<1>12. LogForward(audit', clock) /\ audit' \in Seq(Entry)
  BY <1>2, <1>5, <1>6, AppendKeepsForward DEF IInv
<1>13. /\ DOMAIN counters' \subseteq Principal
       /\ counters' \in [DOMAIN counters' -> [window: Nat, count: Nat]]
  BY <1>1, ConsumeWriteType DEF Corroborate
<1>14. UNCHANGED <<episodes, clock>> /\ entities' \subseteq Key
  BY <1>1 DEF Corroborate, UpsertEntities, TypeOK
<1>15. DOMAIN facts' = D /\ facts' \in [DOMAIN facts' -> Fact]
  BY <1>11
<1> HIDE DEF D
<1> QED
  BY <1>1, <1>6, <1>11, <1>12, <1>13, <1>14, <1>15 DEF IInv, TypeOK

\* Time passing keeps it.
LEMMA TickKeepsIInv ==
  ASSUME IInv, Tick
  PROVE  IInv'
<1>1. /\ clock \in Nat \ {0} /\ clock' = clock + 1
      /\ UNCHANGED <<facts, episodes, entities, fts, queue, audit, counters>>
  BY DEF Tick, IInv, TypeOK
<1>2. LogForward(audit', clock')
  BY <1>1 DEF IInv, LogForward
<1> QED
  BY <1>1, <1>2 DEF IInv, TypeOK

-----------------------------------------------------------------------------
(* The invariant *)

\* The empty database satisfies it.
LEMMA InitIInv == Init => IInv
<1> SUFFICES ASSUME Init PROVE IInv
  OBVIOUS
<1>1. /\ facts = << >> /\ episodes = << >> /\ counters = << >> /\ audit = << >>
      /\ entities = {} /\ clock = 1
  BY DEF Init
<1>2. DOMAIN << >> = {} /\ << >> \in Seq(Entry)
  OBVIOUS
<1>3. TypeOK
  BY <1>1, <1>2 DEF TypeOK
<1>4. LogForward(audit, clock) /\ RowsAgree(facts) /\ DecisionsAgree(facts, audit)
  BY <1>1, <1>2 DEF LogForward, RowsAgree, DecisionsAgree
<1> QED
  BY <1>3, <1>4 DEF IInv

\* Every step keeps it.
LEMMA NextIInv == IInv /\ [Next]_vars => IInv'
<1> SUFFICES ASSUME IInv, [Next]_vars PROVE IInv'
  OBVIOUS
<1>1. CASE \E p \in Principal, c \in Content, src \in Source : RecordEpisode(p, c, src)
  BY <1>1, EpisodeKeepsIInv
<1>2. CASE \E p \in Principal, c \in Content : RecordDuplicate(p, c)
  BY <1>2, DuplicateKeepsIInv
<1>3. CASE AssertFact
  <2>1. PICK who \in Principal, origin \in Origin, s \in Key, p \in Asserted,
             o \in Key, vf \in ValidFrom \cup {clock}, vt \in ValidTo \cup {Null},
             c \in Content, f \in FactId :
               \/ AssertNew(who, origin, s, p, o, vf, vt, c, f)
               \/ Corroborate(who, origin, s, p, o, vf, vt, c, f)
    BY <1>3 DEF AssertFact
  <2>2. origin \in FactOrigin /\ p \in Predicate /\ vf \in Nat /\ vt \in Nat
    BY ConstantsOK DEF IInv, TypeOK, Null
  <2>3. CASE AssertNew(who, origin, s, p, o, vf, vt, c, f)
    BY <2>2, <2>3, AssertNewKeepsIInv
  <2>4. CASE Corroborate(who, origin, s, p, o, vf, vt, c, f)
    BY <2>2, <2>4, CorroborateKeepsIInv
  <2> QED
    BY <2>1, <2>3, <2>4
<1>4. CASE \E r \in Reviewer, f \in FactId : ConfirmFact(r, f)
  BY <1>4, ConfirmKeepsIInv
<1>5. CASE \E r \in Reviewer, f \in FactId : RejectFact(r, f)
  BY <1>5, RejectKeepsIInv
<1>6. CASE \E r \in Reviewer, t \in 0 .. Len(audit) : RollbackTo(r, t)
  BY <1>6, RollbackKeepsIInv
<1>7. CASE Tick
  BY <1>7, TickKeepsIInv
<1>8. CASE UNCHANGED vars
  BY <1>8 DEF vars, IInv, TypeOK
<1> QED
  BY <1>1, <1>2, <1>3, <1>4, <1>5, <1>6, <1>7, <1>8 DEF Next

\* Whatever the calls, their order and the reviewers' decisions, the facts
\* table agrees with the audit log: rows of the schema, columns that agree
\* with each other, one standing decision per decided fact, and every
\* contradicted fact closed by the first decision that contradicts it.
THEOREM Invariance == Spec => []IInv
<1>1. Init => IInv
  BY InitIInv
<1>2. IInv /\ [Next]_vars => IInv'
  BY NextIInv
<1> QED
  BY <1>1, <1>2, PTL DEF Spec

\* Every table always holds rows of its schema.
THEOREM TypeCorrect == Spec => []TypeOK
<1>1. IInv => TypeOK
  BY DEF IInv
<1> QED
  BY <1>1, Invariance, PTL

\* Decision numbers tell decided facts apart.
LEMMA OneDecisionEach ==
  ASSUME IInv, NEW f \in DOMAIN facts, NEW g \in DOMAIN facts,
         facts[f].decisionSeq # Null, facts[f].decisionSeq = facts[g].decisionSeq
  PROVE  f = g
BY DEF IInv, DecisionsAgree

\* Of two facts trusted together, the later decision never closes the other.
THEOREM NeverContradicts == Spec => []NoContradiction
<1>1. IInv => NoContradiction
  <2> SUFFICES ASSUME IInv, NEW f \in DOMAIN facts, NEW g \in DOMAIN facts,
                      facts[f].status = "trusted", facts[g].status = "trusted",
                      Closes(facts, g, f)
               PROVE  facts[g].decisionSeq < facts[f].decisionSeq
    BY DEF NoContradiction
  <2>1. /\ facts[f].decisionSeq \in Nat /\ facts[f].decisionSeq # Null
        /\ facts[g].decisionSeq \in Nat
    BY Numbered DEF IInv, RowsAgree, RowOK
  <2>2. facts[f].decisionSeq # facts[g].decisionSeq
    BY <2>1, OneDecisionEach DEF Closes
  <2>3. ~ClosedLater(facts, f, g)
    BY DEF IInv, RowsAgree, ClosedInTime
  <2> QED
    BY <2>1, <2>2, <2>3 DEF ClosedLater, Granted
<1> QED
  BY <1>1, Invariance, PTL

\* A claim never has two trusted facts.
THEOREM OneTrusted == Spec => []OneTrustedPerClaim
<1>1. IInv => OneTrustedPerClaim
  <2> SUFFICES ASSUME IInv, NEW f \in DOMAIN facts, NEW g \in DOMAIN facts,
                      facts[f].status = "trusted", facts[g].status = "trusted",
                      ClaimOf(facts[f]) = ClaimOf(facts[g]), f # g
               PROVE  FALSE
    BY DEF OneTrustedPerClaim
  <2>1. /\ facts[f].decisionSeq \in Nat /\ facts[f].decisionSeq # Null
        /\ facts[g].decisionSeq \in Nat
    BY Numbered DEF IInv, RowsAgree, RowOK
  <2>2. Closes(facts, f, g) /\ Closes(facts, g, f)
    BY DEF Closes, ClaimOf, ClosedBy
  <2>3. facts[f].decisionSeq # facts[g].decisionSeq
    BY <2>1, OneDecisionEach
  <2>4. ~ClosedLater(facts, f, g) /\ ~ClosedLater(facts, g, f)
    BY DEF IInv, RowsAgree, ClosedInTime
  <2> QED
    BY <2>1, <2>2, <2>3, <2>4 DEF ClosedLater, Granted
<1> QED
  BY <1>1, Invariance, PTL

-----------------------------------------------------------------------------
(* The table is a view of the log *)

\* A standing grant is the decision of a granted fact.
LEMMA GrantInLog ==
  ASSUME IInv, NEW i \in DOMAIN audit, Standing(audit, i), audit[i].grants
  PROVE  /\ audit[i].target \in DOMAIN facts
         /\ facts[audit[i].target].decisionSeq = i
         /\ Granted(facts[audit[i].target])
<1> DEFINE g == audit[i].target
<1>1. g \in DOMAIN facts /\ facts[g].decisionSeq = i
  BY DEF IInv, DecisionsAgree
<1>2. i # Null
  BY DEF IInv, TypeOK, Null
<1>3. ~IsRejection(audit[i])
  BY DEF IInv, LogForward
<1>4. facts[g].status # "rejected" /\ facts[g].status # "proposed"
  BY <1>1, <1>2, <1>3, Numbered DEF IInv, DecisionsAgree
<1>5. facts[g] \in Fact
  BY <1>1 DEF IInv, TypeOK
<1> QED
  BY <1>1, <1>4, <1>5 DEF Granted, Fact, Status

\* The standing decision of a granted fact.
LEMMA GrantOfFact ==
  ASSUME IInv, NEW f \in DOMAIN facts, Granted(facts[f])
  PROVE  /\ facts[f].decisionSeq \in DOMAIN audit
         /\ facts[f].decisionSeq \in Nat
         /\ Standing(audit, facts[f].decisionSeq)
         /\ audit[facts[f].decisionSeq].target = f
         /\ audit[facts[f].decisionSeq].grants
         /\ audit[facts[f].decisionSeq].at = facts[f].confirmedAt
<1>1. facts[f].decisionSeq # Null /\ facts[f].decisionSeq \in Nat
  BY Numbered DEF IInv, RowsAgree, RowOK, Granted
<1> QED
  BY <1>1 DEF IInv, DecisionsAgree, Standing

\* What closes a granted fact, read in the log and read in the table.
LEMMA ClosersAgree ==
  ASSUME IInv, NEW f \in DOMAIN facts, Granted(facts[f])
  PROVE  /\ \A j \in ClosersInLog(audit, facts[f].decisionSeq) :
              \E g \in DOMAIN facts :
                ClosedLater(facts, f, g) /\ facts[g].decisionSeq = j
         /\ \A g \in DOMAIN facts : ClosedLater(facts, f, g) =>
              facts[g].decisionSeq \in ClosersInLog(audit, facts[f].decisionSeq)
<1> DEFINE i == facts[f].decisionSeq
<1>1. i \in DOMAIN audit /\ audit[i].target = f
  BY GrantOfFact
<1>2. ASSUME NEW j \in ClosersInLog(audit, i)
      PROVE  \E g \in DOMAIN facts : ClosedLater(facts, f, g) /\ facts[g].decisionSeq = j
  <2>1. /\ j \in DOMAIN audit /\ j > i /\ Standing(audit, j) /\ audit[j].grants
        /\ Closes(facts, audit[j].target, f)
    BY <1>1 DEF ClosersInLog
  <2>2. /\ audit[j].target \in DOMAIN facts
        /\ facts[audit[j].target].decisionSeq = j
        /\ Granted(facts[audit[j].target])
    BY <2>1, GrantInLog
  <2>3. i < j
    BY <1>1, <2>1 DEF IInv, TypeOK
  <2> QED
    BY <2>1, <2>2, <2>3 DEF ClosedLater
<1>3. ASSUME NEW g \in DOMAIN facts, ClosedLater(facts, f, g)
      PROVE  facts[g].decisionSeq \in ClosersInLog(audit, i)
  <2>1. Granted(facts[g]) /\ Closes(facts, g, f) /\ i < facts[g].decisionSeq
    BY <1>3 DEF ClosedLater
  <2>2. /\ facts[g].decisionSeq \in DOMAIN audit /\ facts[g].decisionSeq \in Nat
        /\ Standing(audit, facts[g].decisionSeq)
        /\ audit[facts[g].decisionSeq].target = g
        /\ audit[facts[g].decisionSeq].grants
    BY <2>1, GrantOfFact
  <2>3. i \in Nat
    BY GrantOfFact
  <2> QED
    BY <1>1, <2>1, <2>2, <2>3 DEF ClosersInLog
<1> QED
  BY <1>2, <1>3

\* The status of each fact is the one its log entries give it, and it was
\* closed by the first of the decisions that close it.
LEMMA TableIsView == IInv => TrustFromLog
<1> SUFFICES ASSUME IInv, NEW f \in DOMAIN facts
             PROVE  /\ facts[f].status = StatusInLog(audit, f)
                    /\ facts[f].status = "superseded" =>
                         /\ facts[f].supersededSeq
                              \in ClosersInLog(audit, facts[f].decisionSeq)
                         /\ \A j \in ClosersInLog(audit, facts[f].decisionSeq) :
                              facts[f].supersededSeq <= j
  BY DEF TrustFromLog
<1> DEFINE i == facts[f].decisionSeq
<1>1. facts[f].status \in Status
  BY DEF IInv, TypeOK, Fact
<1>2. \A k \in DOMAIN audit : Standing(audit, k) /\ audit[k].target = f => k = i
  BY DEF IInv, DecisionsAgree
<1>3. CASE facts[f].status = "proposed"
  <2>1. i \notin DOMAIN audit
    BY <1>3, Numbered DEF Null, IInv, TypeOK
  <2>2. \A k \in DOMAIN audit : ~(Standing(audit, k) /\ audit[k].target = f)
    BY <1>2, <2>1
  <2> QED
    BY <1>3, <2>2 DEF StatusInLog
<1>4. CASE facts[f].status = "rejected"
  <2>1. i # Null
    BY <1>4 DEF IInv, RowsAgree, RowOK
  <2>2. /\ i \in DOMAIN audit /\ Standing(audit, i) /\ audit[i].target = f
        /\ IsRejection(audit[i])
    BY <1>4, <2>1 DEF IInv, DecisionsAgree, Standing
  <2> QED
    BY <1>4, <2>2 DEF StatusInLog
<1>5. CASE Granted(facts[f])
  <2>1. /\ i \in DOMAIN audit /\ Standing(audit, i) /\ audit[i].target = f
        /\ audit[i].grants
    BY <1>5, GrantOfFact
  <2>2. \A k \in DOMAIN audit :
          ~(Standing(audit, k) /\ audit[k].target = f /\ IsRejection(audit[k]))
    BY <1>2, <2>1 DEF IInv, LogForward
  <2>3. CASE facts[f].status = "trusted"
    <3>1. \A g \in DOMAIN facts : ~ClosedLater(facts, f, g)
      BY <2>3 DEF IInv, RowsAgree, ClosedInTime
    <3>2. ClosersInLog(audit, i) = {}
      BY <1>5, <3>1, ClosersAgree
    <3> QED
      BY <2>1, <2>2, <2>3, <3>2 DEF StatusInLog
  <2>4. CASE facts[f].status = "superseded"
    <3> DEFINE h == facts[f].supersededBy
    <3>1. /\ h \in DOMAIN facts /\ ClosedLater(facts, f, h)
          /\ facts[f].supersededSeq = facts[h].decisionSeq
      BY <2>4 DEF IInv, RowsAgree, CloserOK
    <3>2. facts[f].supersededSeq \in ClosersInLog(audit, i)
      BY <1>5, <3>1, ClosersAgree
    <3>3. ASSUME NEW j \in ClosersInLog(audit, i)
          PROVE  facts[f].supersededSeq <= j
      <4>1. PICK g \in DOMAIN facts : ClosedLater(facts, f, g) /\ facts[g].decisionSeq = j
        BY <1>5, ClosersAgree
      <4> QED
        BY <4>1 DEF IInv, RowsAgree, ClosedInTime
    <3>4. \A k \in DOMAIN audit :
            Standing(audit, k) /\ audit[k].target = f /\ audit[k].grants
              => ClosersInLog(audit, k) # {}
      BY <1>2, <3>2
    <3> QED
      BY <2>1, <2>2, <2>4, <3>2, <3>3, <3>4 DEF StatusInLog
  <2> QED
    BY <1>5, <2>3, <2>4 DEF Granted
<1> QED
  BY <1>1, <1>3, <1>4, <1>5 DEF Status, Granted

\* After any calls in any order, the facts table is what replaying the
\* standing decisions of the audit log gives.
THEOREM TableFromLog == Spec => []TrustFromLog
BY TableIsView, Invariance, PTL
=============================================================================
