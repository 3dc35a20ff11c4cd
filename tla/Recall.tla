------------------------------- MODULE Recall -------------------------------
(***************************************************************************)
(* One hybrid search over a client's memory: search/recall.ts and          *)
(* search/rrf.ts.  The keyword search runs when the question arrives; the  *)
(* model and the vector index are then awaited, and decisions go on in the *)
(* meantime.  When they have answered or failed, the two rankings are      *)
(* fused, the facts they lead to are looked up, and trust is judged, as of *)
(* the time the question named or arrived.                                 *)
(*                                                                         *)
(* Facts are numbers in the order of their ids.  What the searches rank is *)
(* external: any list of items.  Scores are exact fractions.               *)
(***************************************************************************)
EXTENDS Integers, Sequences, FiniteSets

CONSTANTS
  Fact,         \* fact ids
  Episode, Entity,
  Evidence,     \* table fact_evidence: the episodes that support a fact
  Primary,      \* facts.evidence_episode_id
  Ends,         \* facts.subject_id and object_id, a pair for each fact
  ValidFrom, ValidTo,
  Findable,     \* bound: the items the searches may return
  Settled,      \* bound: the facts that may be trusted before the first question
  RRF_K, PerLeg, MaxFused, MaxLookup, MaxFactIds, MaxKeys, MaxRelated,
  Limit,        \* the limit the question asks for
  MaxNow,       \* bound: the last time
  MaxWrites     \* bound: decisions in all, while a question waits

Item == {"fact"} \X Fact \cup {"episode"} \X Episode \cup {"entity"} \X Entity

ASSUME RecallConstants ==
  /\ Fact \subseteq Nat /\ IsFiniteSet(Fact)
  /\ Evidence \in [Fact -> SUBSET Episode]
  /\ \A f \in Fact : Primary[f] \in Evidence[f]
  /\ Ends \in [Fact -> Entity \X Entity]
  /\ ValidFrom \in [Fact -> Nat] /\ ValidTo \in [Fact -> Nat]
  /\ Findable \subseteq Item /\ IsFiniteSet(Findable) /\ Settled \subseteq Fact
  /\ MaxLookup \in Nat /\ MaxKeys \in Nat /\ MaxRelated \in Nat
  /\ Limit \in Nat \ {0} /\ MaxNow \in Nat /\ MaxWrites \in Nat

\* What the sizes of the code's constants must satisfy: RRF_K is 60, a leg
\* has at most 50 items, and 60 fused items fit in 60 fact ids.
ASSUME RankingSizes ==
  /\ RRF_K \in Nat /\ PerLeg \in Nat
  /\ RRF_K + PerLeg < 2 * (RRF_K + 1)
  /\ MaxFused \in Nat /\ MaxFactIds \in Nat /\ MaxFused <= MaxFactIds

VARIABLES
  facts,   \* the decision columns of table facts
  now,     \* the time
  asked,   \* the question that waits or was answered
  views,   \* history: what was settled as of the question's time
  answer   \* its answer

vars == <<facts, now, asked, views, answer>>

Time == 0 .. MaxNow
Row == [status : {"proposed", "rejected", "trusted", "superseded"},
        confirmed : Time, closed : Time]

\* An undecided row; the stamps of a row mean nothing unless its status says so.
Undecided == [status |-> "proposed", confirmed |-> 0, closed |-> 0]

SmallerOf(a, b) == IF a < b THEN a ELSE b
FirstOf(s, n) == SubSeq(s, 1, SmallerOf(Len(s), n))
Members(s) == {s[i] : i \in DOMAIN s}
NoRepeat(s) == \A i, j \in DOMAIN s : s[i] = s[j] => i = j

\* The ways to list a set without repeating.
Listings(S) == {s \in [1 .. Cardinality(S) -> S] : NoRepeat(s)}

\* What one search may return: ids are unique, in the index as in table fts.
Leg == {s \in UNION {[1 .. n -> Findable] : n \in 0 .. PerLeg} : NoRepeat(s)}

-----------------------------------------------------------------------------
\* Reciprocal rank fusion.

At(leg, x) == CHOOSE i \in DOMAIN leg : leg[i] = x

\* The score of an item found at a and b, of its place a in one list only.
SumOf(a, b) == [num |-> a + b, den |-> a * b]
OneOver(a) == [num |-> 1, den |-> a]

\* Score, mutated: places count without the constant.
ScoreByPlace(kw, sem, x) ==
  IF x \in Members(kw)
  THEN IF x \in Members(sem) THEN SumOf(At(kw, x), At(sem, x)) ELSE OneOver(At(kw, x))
  ELSE OneOver(At(sem, x))

\* What fuse adds up for an item of either list.
Score(kw, sem, x) ==
  IF x \in Members(kw)
  THEN IF x \in Members(sem)
       THEN SumOf(RRF_K + At(kw, x), RRF_K + At(sem, x))
       ELSE OneOver(RRF_K + At(kw, x))
  ELSE OneOver(RRF_K + At(sem, x))

Higher(s, t) == s.num * t.den > t.num * s.den
Same(s, t) == s.num * t.den = t.num * s.den

\* The order in which the lists first mention an item.
FirstSeen(kw, sem, x) ==
  IF x \in Members(kw) THEN At(kw, x) ELSE Len(kw) + At(sem, x)

Ahead(kw, sem, x, y) ==
  \/ Higher(Score(kw, sem, x), Score(kw, sem, y))
  \/ /\ Same(Score(kw, sem, x), Score(kw, sem, y))
     /\ FirstSeen(kw, sem, x) < FirstSeen(kw, sem, y)

\* The fused list of two rankings, a set of one list.
Fused(kw, sem) ==
  LET found == Members(kw) \cup Members(sem)
  IN {s \in Listings(found) :
        \A i, j \in DOMAIN s : i < j => Ahead(kw, sem, s[i], s[j])}

-----------------------------------------------------------------------------
\* From fused items to facts.

\* The ids of one kind that the fused items hold, in their order: refs[n] are
\* those of the first n items.
RefsOf(fused, kind) ==
  LET refs[n \in 0 .. Len(fused)] ==
        IF n = 0 THEN << >>
        ELSE IF fused[n][1] = kind THEN Append(refs[n - 1], fused[n][2]) ELSE refs[n - 1]
  IN refs[Len(fused)]

SupportedBy(es) == {f \in Fact : Evidence[f] \cap Members(es) # {}}
TakingPart(ns) == {f \in Fact : Members(Ends[f]) \cap Members(ns) # {}}

\* The second query reads at most MaxFactIds rows, in no stated order.
ReadOf(S) ==
  {T \in SUBSET S : Cardinality(T) = SmallerOf(Cardinality(S), MaxFactIds)}

\* The lists of facts that episodes and entities can add to those in had.
Indirect(fused, had) ==
  LET byEpisode == SupportedBy(FirstOf(RefsOf(fused, "episode"), MaxLookup)) \ had
  IN {lists[1] \o lists[2] : lists \in
        UNION {Listings(byEpisode) \X Listings(T \ (had \cup byEpisode)) :
               T \in ReadOf(TakingPart(FirstOf(RefsOf(fused, "entity"), MaxLookup)))}}

\* rankedFactIds, mutated: the facts found indirectly take their places first.
IndirectFirst(fused) ==
  {FirstOf(s \o SelectSeq(RefsOf(fused, "fact"), LAMBDA f : f \notin Members(s)),
           MaxFactIds) : s \in Indirect(fused, {})}

\* rankedFactIds: the facts found themselves, then those found through
\* episodes, then through entities, up to MaxFactIds.
RankedFactIds(fused) ==
  LET direct == RefsOf(fused, "fact")
  IN {FirstOf(direct \o s, MaxFactIds) : s \in Indirect(fused, Members(direct))}

\* The score a fact is sorted by: its own, its main evidence's, or one made
\* from its place among the facts that were reached.
FinalScore(kw, sem, fused, ids, f) ==
  CASE <<"fact", f>> \in Members(fused) -> Score(kw, sem, <<"fact", f>>)
    [] /\ <<"fact", f>> \notin Members(fused)
       /\ <<"episode", Primary[f]>> \in Members(fused) ->
         Score(kw, sem, <<"episode", Primary[f]>>)
    [] OTHER -> OneOver(1 + Len(fused) + At(ids, f) - 1)

\* The order of the results; in one answer every fact has one score.
Above(kw, sem, fused, ids, f, g) ==
  LET s == FinalScore(kw, sem, fused, ids, f)
      t == FinalScore(kw, sem, fused, ids, g)
  IN Higher(s, t) \/ (Same(s, t) /\ f < g)

Sorted(kw, sem, fused, ids, S) ==
  {s \in Listings(S) :
     \A i, j \in DOMAIN s : i < j => Above(kw, sem, fused, ids, s[i], s[j])}

-----------------------------------------------------------------------------
\* CURRENT_AT, mutated: when a fact was confirmed does not matter.
CurrentWhenever(f, t) ==
  /\ \/ facts[f].status = "trusted"
     \/ facts[f].status = "superseded" /\ facts[f].closed > t
  /\ ValidFrom[f] <= t /\ t < ValidTo[f]

\* CURRENT_AT: settled as of t, read from the rows as they are now.
CurrentAt(f, t) ==
  /\ \/ facts[f].status = "trusted"
     \/ facts[f].status = "superseded" /\ facts[f].closed > t
  /\ facts[f].confirmed <= t
  /\ ValidFrom[f] <= t /\ t < ValidTo[f]

Current(t) == {f \in Fact : CurrentAt(f, t)}

\* The filter recall puts on the facts it reads.
Visible(f) ==
  \/ asked.includeProposed /\ facts[f].status = "proposed"
  \/ CurrentAt(f, asked.asOf)

\* The facts recall reads: those reached that pass the filter.
Read(ids) == {f \in Fact : f \in Members(ids) /\ Visible(f)}

\* The entities of the results, subject before object, at most MaxKeys.
KeyOf(results, i) == Ends[results[(i + 1) \div 2]][IF i % 2 = 1 THEN 1 ELSE 2]
Keys(results) ==
  {KeyOf(results, i) : i \in {j \in 1 .. 2 * Len(results) :
      Cardinality({KeyOf(results, h) : h \in 1 .. j}) <= MaxKeys}}

\* neighboursOf: at most MaxRelated settled facts around the results, the
\* latest recorded first, which may be any; those already found are dropped
\* after the limit.
Neighbours(results) ==
  LET near == {f \in Current(asked.asOf) : Members(Ends[f]) \cap Keys(results) # {}}
  IN {T \ Members(results) : T \in
        {R \in SUBSET near : Cardinality(R) = SmallerOf(Cardinality(near), MaxRelated)}}

-----------------------------------------------------------------------------
NotAsked == [phase |-> "none", asOf |-> 0, includeProposed |-> FALSE,
             keyword |-> << >>, writes |-> 0]
NoAnswer == [keyword |-> << >>, semantic |-> << >>, fused |-> << >>, ids |-> << >>,
             results |-> << >>, related |-> {}, proposed |-> {}]

Init ==
  /\ \E T \in SUBSET Settled :
       facts = [f \in Fact |-> [Undecided EXCEPT !.status =
                                  IF f \in T THEN "trusted" ELSE "proposed"]]
  /\ now = 0
  /\ asked = NotAsked
  /\ views = {}
  /\ answer = NoAnswer

\* recall up to its first await: the time is taken and the keywords searched.
Ask ==
  /\ asked.phase = "none"
  /\ \E kw \in Leg, t \in Time, p \in BOOLEAN :
       /\ asked' = [phase |-> "waiting", asOf |-> t, includeProposed |-> p,
                    keyword |-> kw, writes |-> asked.writes]
       /\ views' = {Current(t)}
  /\ UNCHANGED <<facts, now, answer>>

\* recall from its last await on; no semantic hits when the model or the
\* index failed, is not configured, or found nothing.
Answer ==
  /\ asked.phase = "waiting"
  /\ \E sem \in Leg : \E full \in Fused(asked.keyword, sem) :
       LET fused == FirstOf(full, MaxFused)
       IN \E ids \in RankedFactIds(fused) :
          \E sorted \in Sorted(asked.keyword, sem, fused, ids, Read(ids)) :
          LET results == FirstOf(sorted, Limit)
          IN \E related \in IF ids = << >> THEN {{}} ELSE Neighbours(results) :
               answer' = [keyword |-> asked.keyword, semantic |-> sem,
                          fused |-> fused, ids |-> ids,
                          results |-> results, related |-> related,
                          proposed |-> {f \in Members(results) :
                                          facts[f].status = "proposed"}]
  /\ asked' = [asked EXCEPT !.phase = "answered"]
  /\ UNCHANGED <<facts, now, views>>

\* The answer is sent, and another question can be asked.
Deliver ==
  /\ asked.phase = "answered"
  /\ asked' = [NotAsked EXCEPT !.writes = asked.writes]
  /\ views' = {} /\ answer' = NoAnswer
  /\ UNCHANGED <<facts, now>>

\* Bound: decisions are taken only while a question waits.
MayWrite == asked.phase = "waiting" /\ asked.writes < MaxWrites

Write(f, row) ==
  /\ facts' = [facts EXCEPT ![f] = row]
  /\ asked' = [asked EXCEPT !.writes = @ + 1]
  /\ UNCHANGED <<now, answer>>

\* A decision stamps its time: a view of the question if the question's time
\* is not yet over.
Decide(f, row) ==
  /\ MayWrite
  /\ Write(f, row)
  /\ views' = IF now <= asked.asOf THEN views \cup {Current(asked.asOf)'} ELSE views

\* Confirm, mutated: the row carries the time the fact began to hold.
ConfirmBackdated(f) ==
  /\ facts[f].status = "proposed"
  /\ Decide(f, [facts[f] EXCEPT !.status = "trusted", !.confirmed = ValidFrom[f]])

Confirm(f) ==
  /\ facts[f].status = "proposed"
  /\ Decide(f, [facts[f] EXCEPT !.status = "trusted", !.confirmed = now])

Reject(f) ==
  /\ facts[f].status = "proposed"
  /\ Decide(f, [facts[f] EXCEPT !.status = "rejected"])

Supersede(f) ==
  /\ facts[f].status = "trusted"
  /\ Decide(f, [facts[f] EXCEPT !.status = "superseded", !.closed = now])

\* A rollback rewrites the past: what it leaves is a view of any question.
Rollback(f) ==
  /\ MayWrite
  /\ \/ facts[f].status \in {"trusted", "superseded", "rejected"} /\ Write(f, Undecided)
     \/ /\ facts[f].status = "superseded"
        /\ Write(f, [facts[f] EXCEPT !.status = "trusted", !.closed = 0])
  /\ views' = views \cup {Current(asked.asOf)'}

\* Bound: time stands still while an answer is sent.
Tick ==
  /\ now < MaxNow /\ asked.phase # "answered"
  /\ now' = now + 1
  /\ UNCHANGED <<facts, asked, views, answer>>

Next ==
  \/ Ask \/ Answer \/ Deliver \/ Tick
  \/ \E f \in Fact : Confirm(f) \/ Reject(f) \/ Supersede(f) \/ Rollback(f)

Spec == Init /\ [][Next]_vars

-----------------------------------------------------------------------------
\* The type of the store and of the question that waits, and that the store is
\* always a view of that question: what lets recall read the facts only after
\* the model has answered (recall.ts:195-205).
RecallInv ==
  /\ facts \in [Fact -> Row]
  /\ now \in Time
  /\ asked.asOf \in Time
  /\ asked.phase \in {"none", "waiting", "answered"}
  /\ asked.keyword \in Leg
  /\ asked.phase = "waiting" => Current(asked.asOf) \in views
  /\ asked.writes \in 0 .. MaxWrites

\* Whatever happens between the question and the answer, the facts an answer
\* gives as settled, its neighbours included, are facts that were settled
\* together as of the question's time, before it ended or after a rollback: a
\* confirmation that comes while the model is awaited does not slip in, and
\* only a fact the answer marks proposed may be unsettled (recall.ts:151-156).
SettledAsAsked ==
  asked.phase = "answered" =>
    \E v \in views :
      (Members(answer.results) \ answer.proposed) \cup answer.related \subseteq v

\* A fact that a search itself found among the fused items and that stays
\* settled throughout is in the answer, unless the answer is full: the facts
\* that episodes and entities lead to do not crowd it out (recall.ts:88-92).
FoundIsShown ==
  asked.phase = "answered" =>
    \A f \in Fact :
      <<"fact", f>> \in Members(answer.fused) /\ (\A v \in views : f \in v) =>
        f \in Members(answer.results) \/ Len(answer.results) = Limit

\* What both searches found comes before what only one found (rrf.ts:6-10).
BothOutrankOne ==
  LET both == Members(answer.keyword) \cap Members(answer.semantic)
  IN \A i, j \in DOMAIN answer.fused :
       answer.fused[i] \in both /\ answer.fused[j] \notin both => i < j

\* The comment of rankedFactIds: facts come in the order of the fused items
\* that point at them (recall.ts:66-70).  A fact that was found itself, ahead of
\* every item that points at another fact, comes before that fact.
Pointers(f) ==
  {<<"fact", f>>} \cup ({"episode"} \X Evidence[f]) \cup ({"entity"} \X Members(Ends[f]))
FusedOrderKept ==
  \A i, j \in DOMAIN answer.results : \A k \in DOMAIN answer.fused :
    /\ answer.fused[k] = <<"fact", answer.results[i]>>
    /\ \A h \in DOMAIN answer.fused :
         answer.fused[h] \in Pointers(answer.results[j]) => k < h
    => i <= j
=============================================================================
