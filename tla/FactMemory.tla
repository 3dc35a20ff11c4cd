----------------------------- MODULE FactMemory -----------------------------
(***************************************************************************)
(* The database of one client: the ClientMemory durable object and the     *)
(* files of memory/ it calls.  Every write handler runs in one storage     *)
(* transaction (transactionSync), so every handler is one action here, and *)
(* a call that throws changes nothing and has no action.  What happens     *)
(* between the transactions, on the search queue's side, is module         *)
(* VectorQueue; here the queue only records what was handed to it.         *)
(*                                                                         *)
(* Abstractions of data.  An episode row is named by its redacted content, *)
(* which the code makes unique by its hash, and a part of it by its        *)
(* index; an entity by its canonical key; a point in time by a natural     *)
(* number.  Free text (reasons, attributes, display names, the model that  *)
(* suggested a fact) is left out, with the columns nothing decides on: an  *)
(* episode's recorded_at, last_seen_at, added_at, observed_at.             *)
(***************************************************************************)
EXTENDS Predicates, Sequences, FiniteSets

CONSTANTS
  FactId,           \* the identifiers randomUUID can return for a fact
  NoFact,           \* SQL NULL in a column that names a fact
  Content,          \* redacted texts of episodes
  PartsOf,          \* how many parts splitParts cuts each text into
  Source,           \* sources an episode may declare
  Principal,        \* pairs of an email and an OAuth client
  Reviewer,         \* emails signed in to the review page
  Nobody,           \* SQL NULL in a column that names a person
  Key,              \* canonical entity keys
  KindOf,           \* the entity kind each key was parsed to
  Asserted,         \* the predicates that callers use
  Origin,           \* the origins that calls arrive with
  ValidFrom,        \* explicit validFrom inputs (the default is the clock)
  ValidTo,          \* explicit validTo inputs
  WritesPerMinute,  \* the write limit of this client
  Minute,           \* clock ticks in a rate-limit window
  MaxTime,          \* bound: the clock stops here
  MaxAudit          \* bound: no operation after this many audit entries

Null == 0  \* SQL NULL in a timestamp or sequence column: both start at 1

ASSUME ConstantsOK ==
  /\ NoFact \notin FactId
  /\ PartsOf \in [Content -> Nat \ {0}]
  /\ KindOf \in [Key -> EntityKind]
  /\ Nobody \notin Reviewer
  /\ Asserted \subseteq Predicate
  /\ Origin \subseteq FactOrigin
  /\ ValidFrom \subseteq Nat \ {0}
  /\ ValidTo \subseteq Nat \ {0}
  /\ WritesPerMinute \in Nat \ {0}
  /\ Minute \in Nat \ {0}
  /\ MaxTime \in Nat \ {0}
  /\ MaxAudit \in Nat

VARIABLES
  facts,     \* table facts, with fact_evidence: a function on the ids in use
  episodes,  \* table episodes: a function on the contents recorded
  entities,  \* table entities: the keys that have a row
  fts,       \* table fts: the rows that have searchable text
  queue,     \* every row enqueue put into vector_queue
  audit,     \* table audit_log: seq is the position in the sequence
  counters,  \* table write_counters: a function on the principals with a row
  clock      \* Date.now()

vars == <<facts, episodes, entities, fts, queue, audit, counters, clock>>

-----------------------------------------------------------------------------
(* Rows *)

Status == {"proposed", "trusted", "rejected", "superseded"}

\* confirmed_by holds a reviewer's email, or "allowlist:" and the writer's.
Granter == ({"review"} \X Reviewer) \cup ({"allowlist"} \X Principal)
             \cup {<<"none", Nobody>>}

Fact == [subject: Key, predicate: Predicate, object: Key,
         validFrom: Nat, validTo: Nat, evidence: SUBSET Content,
         status: Status, origin: FactOrigin, proposedBy: Principal,
         recordedAt: Nat,
         confirmedBy: Granter, confirmedAt: Nat,
         rejectedBy: Reviewer \cup {Nobody}, rejectedAt: Nat,
         decisionSeq: Nat,
         supersededBy: FactId \cup {NoFact}, supersededAt: Nat,
         supersededSeq: Nat]

Episode == [principal: Principal, source: Source, parts: Nat]

Action == {"episode.record", "fact.assert", "fact.corroborate",
           "fact.confirm", "fact.reject", "audit.rollback"}

\* grants stands for what the detail column says of the decision: the status
\* of an assertion, the promotion by a corroboration; toSeq is the number in
\* the "seq:n" target of a rollback.
Entry == [at: Nat, action: Action,
          actor: Principal \cup Reviewer,
          target: FactId \cup Content \cup {NoFact},
          grants: BOOLEAN, toSeq: Nat]

Rows(kind, refs) == {[kind |-> kind, ref |-> r] : r \in refs}

PartRefs(c) == {<<c, i>> : i \in 0 .. PartsOf[c] - 1}

-----------------------------------------------------------------------------
(* Helpers of the handlers *)

\* appendAudit: the new row takes the next sequence number.
NextSeq == Len(audit) + 1

Log(action, actor, target, grants, toSeq) ==
  /\ Len(audit) < MaxAudit
  /\ audit' = Append(audit, [at |-> clock, action |-> action,
                             actor |-> actor, target |-> target,
                             grants |-> grants, toSeq |-> toSeq])

\* The start of the window a time falls in.
WindowAt(t) == t \div Minute

\* The count that matters: a row of an older window counts as none.
CountedNow(p) ==
  IF p \in DOMAIN counters /\ counters[p].window = WindowAt(clock)
  THEN counters[p].count ELSE 0

LateRefusal(p) ==  \* mutated ConsumeWrite: one write too many
  /\ CountedNow(p) <= WritesPerMinute
  /\ counters' = [q \in DOMAIN counters \cup {p} |->
                    IF q = p
                    THEN [window |-> WindowAt(clock), count |-> CountedNow(p) + 1]
                    ELSE counters[q]]

\* consumeWrite: refused at the limit, otherwise one more in this window.
ConsumeWrite(p) ==
  /\ CountedNow(p) < WritesPerMinute
  /\ counters' =
       [q \in DOMAIN counters \cup {p} |->
          IF q = p
          THEN [window |-> WindowAt(clock), count |-> CountedNow(p) + 1]
          ELSE counters[q]]

\* A trusted g closes f: same subject and object, a predicate g's closes.
Closes(fs, g, f) ==
  /\ f # g
  /\ fs[f].subject = fs[g].subject
  /\ fs[f].object = fs[g].object
  /\ fs[f].predicate \in ClosedBy(fs[g].predicate)

UnnumberedClosing(r, by, now, seq) ==  \* mutated: superseded_audit_seq not set
  [r EXCEPT !.status = "superseded", !.supersededBy = by, !.supersededAt = now]

SupersededRow(r, by, now, seq) ==
  [r EXCEPT !.status = "superseded", !.supersededBy = by,
            !.supersededAt = now, !.supersededSeq = seq]

BackdatedTrust(r, by, now, seq) ==  \* mutated: trusted from validFrom on
  [r EXCEPT !.status = "trusted", !.confirmedBy = by,
            !.confirmedAt = r.validFrom, !.decisionSeq = seq]

TrustedRow(r, by, now, seq) ==
  [r EXCEPT !.status = "trusted", !.confirmedBy = by,
            !.confirmedAt = now, !.decisionSeq = seq]

RejectedRow(r, by, now, seq) ==
  [r EXCEPT !.status = "rejected", !.rejectedBy = by,
            !.rejectedAt = now, !.decisionSeq = seq]

\* The first UPDATE of rollbackTo: an undone supersession reopens the fact.
ReopenedRow(r) ==
  [r EXCEPT !.status = "trusted", !.supersededBy = NoFact,
            !.supersededAt = Null, !.supersededSeq = Null]

\* The second: an undone decision returns the fact to the review queue.
RevertedRow(r) ==
  [r EXCEPT !.status = "proposed",
            !.confirmedBy = <<"none", Nobody>>, !.confirmedAt = Null,
            !.rejectedBy = Nobody, !.rejectedAt = Null,
            !.decisionSeq = Null, !.supersededBy = NoFact,
            !.supersededAt = Null, !.supersededSeq = Null]

CloseSameClaim(fs, g, now, seq) ==  \* mutated: only the same predicate is closed
  [f \in DOMAIN fs |->
     IF /\ fs[f].status = "trusted" /\ Closes(fs, g, f)
        /\ fs[f].predicate = fs[g].predicate
     THEN SupersededRow(fs[f], g, now, seq) ELSE fs[f]]

ApplySupersession(fs, g, now, seq) ==
  [f \in DOMAIN fs |->
     IF fs[f].status = "trusted" /\ Closes(fs, g, f)
     THEN SupersededRow(fs[f], g, now, seq) ELSE fs[f]]

TrustWithoutClosing(fs, g, by, now, seq) ==  \* mutated: no supersession
  [fs EXCEPT ![g] = TrustedRow(@, by, now, seq)]

MarkTrusted(fs, g, by, now, seq) ==
  ApplySupersession([fs EXCEPT ![g] = TrustedRow(@, by, now, seq)],
                    g, now, seq)

MatchingTrusted(s, p, o, vt) ==  \* mutated: open proposals are not looked for
  {f \in DOMAIN facts :
     /\ facts[f].subject = s /\ facts[f].predicate = p /\ facts[f].object = o
     /\ facts[f].validTo = vt /\ facts[f].status = "trusted"}

\* Facts an assertion of the same claim would corroborate.
Matching(s, p, o, vt) ==
  {f \in DOMAIN facts :
     /\ facts[f].subject = s
     /\ facts[f].predicate = p
     /\ facts[f].object = o
     /\ facts[f].validTo = vt
     /\ facts[f].status \in {"proposed", "trusted"}}

\* The SELECT takes one of them, a trusted one if there is one.
Existing(f, s, p, o, vt) ==
  /\ f \in Matching(s, p, o, vt)
  /\ \/ facts[f].status = "trusted"
     \/ \A g \in Matching(s, p, o, vt) : facts[g].status = "proposed"

\* The input checks of assertFact.  A reason may always be given, and
\* nothing but the shape rule reads it.
ClaimOk(s, p, o, vf, vt) ==
  /\ vt # Null => vt > vf
  /\ ShapeOk(p, KindOf[s], KindOf[o], vt # Null, TRUE)

NewFact(s, p, o, vf, vt, c, origin, who) ==
  [subject |-> s, predicate |-> p, object |-> o, validFrom |-> vf,
   validTo |-> vt, evidence |-> {c}, status |-> "proposed",
   origin |-> origin, proposedBy |-> who, recordedAt |-> clock,
   confirmedBy |-> <<"none", Nobody>>, confirmedAt |-> Null,
   rejectedBy |-> Nobody, rejectedAt |-> Null, decisionSeq |-> Null,
   supersededBy |-> NoFact, supersededAt |-> Null, supersededSeq |-> Null]

SubjectOnly(s, o) == entities \cup {s}  \* mutated UpsertEntities

UpsertEntities(s, o) == entities \cup {s, o}

AddFact(fs, f, r) == [g \in DOMAIN fs \cup {f} |-> IF g = f THEN r ELSE fs[g]]

AddEvidence(fs, f, c) == [fs EXCEPT ![f].evidence = @ \cup {c}]

-----------------------------------------------------------------------------
(* The handlers *)

Init ==
  /\ facts = << >>
  /\ episodes = << >>
  /\ entities = {}
  /\ fts = {}
  /\ queue = {}
  /\ audit = << >>
  /\ counters = << >>
  /\ clock = 1

\* recordEpisode, new text: one row, one fts row and one queue row per part.
RecordEpisode(p, c, src) ==
  /\ c \notin DOMAIN episodes
  /\ ConsumeWrite(p)
  /\ Log("episode.record", p, c, FALSE, Null)
  /\ episodes' = [d \in DOMAIN episodes \cup {c} |->
                    IF d = c THEN [principal |-> p, source |-> src,
                                   parts |-> PartsOf[c]]
                    ELSE episodes[d]]
  /\ fts' = fts \cup Rows("episode", PartRefs(c))
  /\ queue' = queue \cup Rows("episode", PartRefs(c))
  /\ UNCHANGED <<facts, entities, clock>>

\* recordEpisode, text seen before: the write is counted and nothing stored.
RecordDuplicate(p, c) ==
  /\ c \in DOMAIN episodes
  /\ ConsumeWrite(p)
  /\ UNCHANGED <<facts, episodes, entities, fts, queue, audit, clock>>

\* assertFact, no open fact makes this claim: a new row, which an
\* allowlisted source makes trusted at once.
AssertNew(who, origin, s, p, o, vf, vt, c, f) ==
  LET trusts == InitialStatus(origin) = "trusted"
      added  == AddFact(facts, f, NewFact(s, p, o, vf, vt, c, origin, who))
  IN /\ ClaimOk(s, p, o, vf, vt)
     /\ ConsumeWrite(who)
     /\ c \in DOMAIN episodes
     /\ Matching(s, p, o, vt) = {}
     /\ f \notin DOMAIN facts
     /\ entities' = UpsertEntities(s, o)
     /\ fts' = fts \cup Rows("entity", {s, o}) \cup Rows("fact", {f})
     /\ queue' = queue \cup Rows("fact", {f})
     /\ Log("fact.assert", who, f, trusts, Null)
     /\ facts' = IF trusts
                 THEN MarkTrusted(added, f, <<"allowlist", who>>, clock, NextSeq)
                 ELSE added
     /\ UNCHANGED <<episodes, clock>>

\* assertFact, an open fact f makes this claim: it gains the evidence, and a
\* proposal asserted again by an allowlisted source is promoted.
Corroborate(who, origin, s, p, o, vf, vt, c, f) ==
  LET promote == /\ facts[f].status = "proposed"
                 /\ InitialStatus(origin) = "trusted"
      seen    == AddEvidence(facts, f, c)
  IN /\ ClaimOk(s, p, o, vf, vt)
     /\ ConsumeWrite(who)
     /\ c \in DOMAIN episodes
     /\ Existing(f, s, p, o, vt)
     /\ entities' = UpsertEntities(s, o)
     /\ fts' = fts \cup Rows("entity", {s, o})
     /\ Log("fact.corroborate", who, f, promote, Null)
     /\ facts' = IF promote
                 THEN MarkTrusted(seen, f, <<"allowlist", who>>, clock, NextSeq)
                 ELSE seen
     /\ UNCHANGED <<episodes, queue, clock>>

AssertFact ==
  \E who \in Principal, origin \in Origin, s \in Key, p \in Asserted,
     o \in Key, vf \in ValidFrom \cup {clock}, vt \in ValidTo \cup {Null},
     c \in Content, f \in FactId :
       \/ AssertNew(who, origin, s, p, o, vf, vt, c, f)
       \/ Corroborate(who, origin, s, p, o, vf, vt, c, f)

ConfirmFact(r, f) ==
  /\ f \in DOMAIN facts
  /\ facts[f].status = "proposed"
  /\ Log("fact.confirm", r, f, TRUE, Null)
  /\ facts' = MarkTrusted(facts, f, <<"review", r>>, clock, NextSeq)
  /\ UNCHANGED <<episodes, entities, fts, queue, counters, clock>>

RejectFact(r, f) ==
  /\ f \in DOMAIN facts
  /\ facts[f].status = "proposed"
  /\ Log("fact.reject", r, f, FALSE, Null)
  /\ facts' = [facts EXCEPT ![f] = RejectedRow(@, r, clock, NextSeq)]
  /\ UNCHANGED <<episodes, entities, fts, queue, counters, clock>>

DecidedFrom(r, t) == r.decisionSeq # Null /\ r.decisionSeq >= t  \* mutated

ClosedFrom(r, t) ==  \* mutated: also reopens what entry t itself closed
  /\ r.supersededSeq # Null /\ r.supersededSeq >= t
  /\ r.decisionSeq # Null /\ r.decisionSeq <= t

\* The WHERE clauses of rollbackTo; a comparison with NULL is never true.
DecidedAfter(r, t) == r.decisionSeq # Null /\ r.decisionSeq > t

ClosedAfter(r, t) ==
  /\ r.supersededSeq # Null /\ r.supersededSeq > t
  /\ r.decisionSeq # Null /\ r.decisionSeq <= t

RolledBack(fs, t) ==
  [f \in DOMAIN fs |-> IF ClosedAfter(fs[f], t) THEN ReopenedRow(fs[f])
                       ELSE IF DecidedAfter(fs[f], t) THEN RevertedRow(fs[f])
                       ELSE fs[f]]

RollbackTo(r, t) ==
  /\ t \in 0 .. Len(audit)
  /\ Log("audit.rollback", r, NoFact, FALSE, t)
  /\ facts' = RolledBack(facts, t)
  /\ UNCHANGED <<episodes, entities, fts, queue, counters, clock>>

\* Time passes between calls; within a handler it is read once.
Tick ==
  /\ clock < MaxTime
  /\ clock' = clock + 1
  /\ UNCHANGED <<facts, episodes, entities, fts, queue, audit, counters>>

Next ==
  \/ \E p \in Principal, c \in Content, src \in Source : RecordEpisode(p, c, src)
  \/ \E p \in Principal, c \in Content : RecordDuplicate(p, c)
  \/ AssertFact
  \/ \E r \in Reviewer, f \in FactId : ConfirmFact(r, f)
  \/ \E r \in Reviewer, f \in FactId : RejectFact(r, f)
  \/ \E r \in Reviewer, t \in 0 .. Len(audit) : RollbackTo(r, t)
  \/ Tick

Spec == Init /\ [][Next]_vars
=============================================================================
