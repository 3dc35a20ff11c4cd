---------------------------- MODULE RecallProofs ----------------------------
(***************************************************************************)
(* Four results about a search, for every set of facts, every ranking and  *)
(* every run of decisions: what the answer gives as settled was settled as *)
(* of the question's time; an item that both searches found comes before   *)
(* an item that one found; a settled fact that a search found is shown,    *)
(* unless the answer is full; and every question has an answer, in an      *)
(* order that what was found and read fixes.                               *)
(***************************************************************************)
EXTENDS Recall, NumberedSteps, FiniteSetTheorems, FunctionTheorems

\* ab < c(a+b): two places down to M outweigh one place from K + 1 on, as long
\* as M < 2(K + 1).
LEMMA TwoPlacesOutweighOne ==
  ASSUME NEW a \in Nat, NEW b \in Nat, NEW c \in Nat, NEW M \in Nat,
         0 < a, 0 < b, a <= M, b <= M, M < 2 * c
  PROVE  a * b < (a + b) * c
<1>1. a * b <= M * b
  BY SMT
<1>2. a * b <= a * M
  BY SMT
<1>3. 2 * (a * b) <= M * (a + b)
  BY <1>1, <1>2, SMT
<1>4. M * (a + b) < (2 * c) * (a + b)
  BY SMT
<1>5. (2 * c) * (a + b) = 2 * ((a + b) * c)
  BY SMT
<1>6. a * b \in Int /\ (a + b) * c \in Int /\ M * (a + b) \in Int
  BY SMT
<1> QED
  BY <1>3, <1>4, <1>5, <1>6, SMT

\* A place in a leg is between 1 and PerLeg.
LEMMA PlaceInLeg ==
  ASSUME NEW leg \in Leg, NEW x \in Members(leg)
  PROVE  At(leg, x) \in 1 .. PerLeg
<1>1. PICK n \in 0 .. PerLeg : leg \in [1 .. n -> Findable]
  BY DEF Leg
<1>2. \E i \in DOMAIN leg : leg[i] = x
  BY DEF Members
<1>3. At(leg, x) \in 1 .. n
  BY <1>1, <1>2 DEF At
<1> QED
  BY <1>3, RankingSizes

\* The members of a leg are findable items.
LEMMA LegMembers ==
  ASSUME NEW leg \in Leg
  PROVE  Members(leg) \subseteq Findable
  BY DEF Leg, Members

\* An item of both legs is never behind, nor level with, an item of one.
LEMMA BothScoreHigher ==
  ASSUME NEW kw \in Leg, NEW sem \in Leg,
         NEW x \in Members(kw) \cap Members(sem),
         NEW y \in Members(kw) \cup Members(sem),
         y \notin Members(kw) \cap Members(sem)
  PROVE  ~Ahead(kw, sem, y, x)
<1> DEFINE a == RRF_K + At(kw, x)
           b == RRF_K + At(sem, x)
           M == RRF_K + PerLeg
<1>1. Score(kw, sem, x) = SumOf(a, b)
  BY DEF Score
<1>2. PICK c \in (RRF_K + 1) .. M : Score(kw, sem, y) = OneOver(c)
  <2>1. CASE y \in Members(kw)
    <3>1. Score(kw, sem, y) = OneOver(RRF_K + At(kw, y))
      BY <2>1 DEF Score
    <3>2. At(kw, y) \in 1 .. PerLeg
      BY <2>1, PlaceInLeg
    <3> QED
      BY <3>1, <3>2, RankingSizes
  <2>2. CASE y \in Members(sem) /\ y \notin Members(kw)
    <3>1. Score(kw, sem, y) = OneOver(RRF_K + At(sem, y))
      BY <2>2 DEF Score
    <3>2. At(sem, y) \in 1 .. PerLeg
      BY <2>2, PlaceInLeg
    <3> QED
      BY <3>1, <3>2, RankingSizes
  <2> QED
    BY <2>1, <2>2
<1>3. /\ a \in Nat /\ b \in Nat /\ c \in Nat /\ M \in Nat
      /\ 0 < a /\ 0 < b /\ a <= M /\ b <= M
      /\ M < 2 * c
  <2>1. At(kw, x) \in 1 .. PerLeg /\ At(sem, x) \in 1 .. PerLeg
    BY PlaceInLeg
  <2> QED
    BY <2>1, RankingSizes
<1> HIDE DEF a, b, M
<1>4. a * b < (a + b) * c
  BY <1>3, TwoPlacesOutweighOne
<1>5. a * b \in Int /\ (a + b) * c \in Int /\ 1 * (a * b) = a * b
  BY <1>3, SMT
<1>6. ~Higher(OneOver(c), SumOf(a, b))
  BY <1>4, <1>5 DEF Higher, OneOver, SumOf
<1>7. ~Same(OneOver(c), SumOf(a, b))
  BY <1>4, <1>5 DEF Same, OneOver, SumOf
<1> QED
  BY <1>1, <1>2, <1>6, <1>7 DEF Ahead

\* A listing of a finite set is a sequence over it.
LEMMA ListingIsSequence ==
  ASSUME NEW S, IsFiniteSet(S), NEW s \in Listings(S)
  PROVE  s \in Seq(S) /\ Len(s) \in Nat
<1>1. Cardinality(S) \in Nat
  BY FS_CardinalityType
<1>2. s \in [1 .. Cardinality(S) -> S]
  BY DEF Listings
<1> QED
  BY <1>1, <1>2

\* The start of a sequence: where it agrees with the sequence.
LEMMA StartOfSequence ==
  ASSUME NEW S, NEW s \in Seq(S), NEW n \in Nat
  PROVE  /\ FirstOf(s, n) \in Seq(S)
         /\ DOMAIN FirstOf(s, n) \subseteq DOMAIN s
         /\ DOMAIN FirstOf(s, n) \subseteq Nat
         /\ \A i \in DOMAIN FirstOf(s, n) : FirstOf(s, n)[i] = s[i]
<1>1. SmallerOf(Len(s), n) \in Nat /\ SmallerOf(Len(s), n) <= Len(s)
  BY DEF SmallerOf
<1> QED
  BY <1>1 DEF FirstOf

\* The fused list puts what both legs found before what one found.
LEMMA FusedOrder ==
  ASSUME NEW kw \in Leg, NEW sem \in Leg, NEW full \in Fused(kw, sem),
         NEW i \in DOMAIN FirstOf(full, MaxFused),
         NEW j \in DOMAIN FirstOf(full, MaxFused),
         FirstOf(full, MaxFused)[i] \in Members(kw) \cap Members(sem),
         FirstOf(full, MaxFused)[j] \notin Members(kw) \cap Members(sem)
  PROVE  i < j
<1> DEFINE found == Members(kw) \cup Members(sem)
<1>1. IsFiniteSet(found)
  <2>1. found \subseteq Findable
    BY LegMembers
  <2> QED
    BY <2>1, RecallConstants, FS_Subset
<1>2. /\ full \in Listings(found)
      /\ \A g, h \in DOMAIN full : g < h => Ahead(kw, sem, full[g], full[h])
  BY DEF Fused
<1>3. full \in Seq(found)
  BY <1>1, <1>2, ListingIsSequence
<1>4. /\ i \in DOMAIN full /\ j \in DOMAIN full /\ i \in Nat /\ j \in Nat
      /\ FirstOf(full, MaxFused)[i] = full[i]
      /\ FirstOf(full, MaxFused)[j] = full[j]
  BY <1>3, StartOfSequence, RankingSizes
<1>5. full[i] \in found /\ full[j] \in found
  BY <1>3, <1>4
<1>6. ~Ahead(kw, sem, full[j], full[i])
  BY <1>4, <1>5, BothScoreHigher
<1>7. ~(j < i)
  BY <1>2, <1>4, <1>6
<1>8. i # j
  BY <1>4
<1> QED
  BY <1>4, <1>7, <1>8

-----------------------------------------------------------------------------
\* A decision at a later time than t leaves what is settled as of t alone.
LEMMA LaterDecision ==
  ASSUME RecallInv, NEW f \in Fact, NEW t \in Time, t < now,
         \/ Confirm(f) \/ Reject(f) \/ Supersede(f)
  PROVE  Current(t)' = Current(t)
<1>1. PICK row \in Row : facts' = [facts EXCEPT ![f] = row]
                         /\ (CurrentAt(f, t)' <=> CurrentAt(f, t))
  <2>1. /\ facts \in [Fact -> Row] /\ facts[f] \in Row
        /\ now \in Int /\ t \in Int /\ now \in Time
    BY DEF RecallInv, Time
  <2>2. CASE Confirm(f)
    <3> DEFINE row == [facts[f] EXCEPT !.status = "trusted", !.confirmed = now]
    <3>1. facts' = [facts EXCEPT ![f] = row] /\ facts[f].status = "proposed"
      BY <2>2 DEF Confirm, Decide, Write
    <3>2. row \in Row
      BY <2>1 DEF Row
    <3>3. facts'[f] = row /\ row.confirmed = now
      BY <2>1, <3>1 DEF Row
    <3>4. ~CurrentAt(f, t)' /\ ~CurrentAt(f, t)
      BY <2>1, <3>1, <3>3 DEF CurrentAt
    <3> QED
      BY <3>1, <3>2, <3>4
  <2>3. CASE Reject(f)
    <3> DEFINE row == [facts[f] EXCEPT !.status = "rejected"]
    <3>1. facts' = [facts EXCEPT ![f] = row] /\ facts[f].status = "proposed"
      BY <2>3 DEF Reject, Decide, Write
    <3>2. row \in Row
      BY <2>1 DEF Row
    <3>3. facts'[f] = row /\ row.status = "rejected"
      BY <2>1, <3>1 DEF Row
    <3>4. ~CurrentAt(f, t)' /\ ~CurrentAt(f, t)
      BY <3>1, <3>3 DEF CurrentAt
    <3> QED
      BY <3>1, <3>2, <3>4
  <2>4. CASE Supersede(f)
    <3> DEFINE row == [facts[f] EXCEPT !.status = "superseded", !.closed = now]
    <3>1. facts' = [facts EXCEPT ![f] = row] /\ facts[f].status = "trusted"
      BY <2>4 DEF Supersede, Decide, Write
    <3>2. row \in Row
      BY <2>1 DEF Row
    <3>3. /\ facts'[f] = row /\ row.closed = now /\ row.status = "superseded"
          /\ row.confirmed = facts[f].confirmed
      BY <2>1, <3>1 DEF Row
    <3>4. (CurrentAt(f, t)' <=> CurrentAt(f, t))
      BY <2>1, <3>1, <3>3 DEF CurrentAt
    <3> QED
      BY <3>1, <3>2, <3>4
  <2> QED
    BY <2>2, <2>3, <2>4
<1>2. \A g \in Fact : (CurrentAt(g, t)' <=> CurrentAt(g, t))
  <2> SUFFICES ASSUME NEW g \in Fact, g # f
               PROVE  (CurrentAt(g, t)' <=> CurrentAt(g, t))
    BY <1>1
  <2>1. facts'[g] = facts[g]
    BY <1>1 DEF RecallInv
  <2> QED
    BY <2>1 DEF CurrentAt
<1> QED
  BY <1>2 DEF Current

\* The rows a decision or a rollback writes are rows, and it counts as one.
LEMMA WriteTypes ==
  ASSUME RecallInv, NEW f \in Fact, MayWrite, NEW row \in Row, Write(f, row)
  PROVE  /\ facts' \in [Fact -> Row] /\ now' \in Time
         /\ asked'.asOf \in Time /\ asked'.keyword \in Leg
         /\ asked'.phase = "waiting" /\ asked'.asOf = asked.asOf
         /\ asked'.writes \in 0 .. MaxWrites
  BY RecallConstants DEF RecallInv, MayWrite, Write

-----------------------------------------------------------------------------
\* The empty ranking is a leg, and no time and no decision are within bounds.
LEMMA Nothing == << >> \in Leg /\ 0 \in Time /\ 0 \in 0 .. MaxWrites
<1>1. << >> \in [1 .. 0 -> Findable] /\ 0 \in 0 .. PerLeg
  BY RankingSizes
<1>2. << >> \in UNION {[1 .. n -> Findable] : n \in 0 .. PerLeg}
  BY <1>1
<1>3. NoRepeat(<< >>)
  BY DEF NoRepeat
<1>4. << >> \in Leg
  BY <1>2, <1>3 DEF Leg
<1>5. 0 \in Time /\ 0 \in 0 .. MaxWrites
  BY RecallConstants DEF Time
<1> QED
  BY <1>4, <1>5

LEMMA InitInv == Init => RecallInv
<1> SUFFICES ASSUME Init PROVE RecallInv
  OBVIOUS
<1>1. facts \in [Fact -> Row]
  BY Nothing DEF Init, Undecided, Row
<1> QED
  BY <1>1, Nothing DEF Init, NotAsked, RecallInv

\* The question's time while decisions are taken.
LEMMA Decided ==
  ASSUME RecallInv, NEW f \in Fact, Confirm(f) \/ Reject(f) \/ Supersede(f)
  PROVE  RecallInv'
<1>1. PICK row \in Row : Decide(f, row)
  <2>1. facts[f] \in Row /\ now \in Time
    BY DEF RecallInv
  <2>2. CASE Confirm(f)
    <3> DEFINE row == [facts[f] EXCEPT !.status = "trusted", !.confirmed = now]
    <3>1. row \in Row
      BY <2>1 DEF Row
    <3> QED
      BY <2>2, <3>1 DEF Confirm
  <2>3. CASE Reject(f)
    <3> DEFINE row == [facts[f] EXCEPT !.status = "rejected"]
    <3>1. row \in Row
      BY <2>1 DEF Row
    <3> QED
      BY <2>3, <3>1 DEF Reject
  <2>4. CASE Supersede(f)
    <3> DEFINE row == [facts[f] EXCEPT !.status = "superseded", !.closed = now]
    <3>1. row \in Row
      BY <2>1 DEF Row
    <3> QED
      BY <2>4, <3>1 DEF Supersede
  <2> QED
    BY <2>2, <2>3, <2>4
<1>2. MayWrite /\ Write(f, row) /\ asked.phase = "waiting"
  BY <1>1 DEF Decide, MayWrite
<1>3. PICK t \in Time : t = asked.asOf
  BY DEF RecallInv
<1>4. t = asked'.asOf
  BY <1>2, <1>3, WriteTypes
<1>5. views' = IF now <= t THEN views \cup {Current(t)'} ELSE views
  BY <1>1, <1>3, <1>4 DEF Decide, Current, CurrentAt
<1>6. Current(t)' \in views'
  <2>1. CASE now <= t
    BY <1>5, <2>1
  <2>2. CASE t < now
    <3>1. Current(t)' = Current(t)
      BY <2>2, LaterDecision
    <3>2. Current(t) \in views
      BY <1>2, <1>3 DEF RecallInv
    <3>3. ~(now <= t)
      BY <2>2 DEF RecallInv, Time
    <3> QED
      BY <1>5, <3>1, <3>2, <3>3
  <2> QED
    BY <2>1, <2>2 DEF RecallInv, Time
<1>7. Current(asked.asOf)' \in views'
  BY <1>4, <1>6 DEF Current, CurrentAt
<1> QED
  BY <1>2, <1>7, WriteTypes DEF RecallInv

LEMMA RolledBack ==
  ASSUME RecallInv, NEW f \in Fact, Rollback(f)
  PROVE  RecallInv'
<1>1. PICK row \in Row : MayWrite /\ Write(f, row)
  <2>1. facts[f] \in Row
    BY DEF RecallInv
  <2>2. Undecided \in Row
    BY Nothing DEF Undecided, Row
  <2>3. [facts[f] EXCEPT !.status = "trusted", !.closed = 0] \in Row
    BY <2>1, Nothing DEF Row
  <2> QED
    BY <2>2, <2>3 DEF Rollback
<1>2. Current(asked.asOf)' \in views'
  BY DEF Rollback
<1> QED
  BY <1>1, <1>2, WriteTypes DEF RecallInv

LEMMA StepInv == RecallInv /\ [Next]_vars => RecallInv'
<1> SUFFICES ASSUME RecallInv, [Next]_vars PROVE RecallInv'
  OBVIOUS
<1>1. CASE Ask
  <2>1. PICK kw \in Leg, t \in Time, p \in BOOLEAN :
          /\ asked' = [phase |-> "waiting", asOf |-> t, includeProposed |-> p,
                       keyword |-> kw, writes |-> asked.writes]
          /\ views' = {Current(t)}
    BY <1>1 DEF Ask
  <2>2. facts' = facts /\ now' = now
    BY <1>1 DEF Ask
  <2>3. Current(asked.asOf)' = Current(t)
    BY <2>1, <2>2 DEF Current, CurrentAt
  <2> QED
    BY <2>1, <2>2, <2>3 DEF RecallInv
<1>2. CASE Answer
  BY <1>2 DEF Answer, RecallInv
<1>3. CASE Deliver
  BY <1>3, Nothing DEF Deliver, NotAsked, RecallInv
<1>4. CASE Tick
  <2>1. now' \in Time
    BY <1>4, RecallConstants DEF Tick, Time, RecallInv
  <2>2. Current(asked.asOf)' = Current(asked.asOf)
    BY <1>4 DEF Tick, Current, CurrentAt
  <2> QED
    BY <1>4, <2>1, <2>2 DEF Tick, RecallInv
<1>5. CASE UNCHANGED vars
  <2>1. Current(asked.asOf)' = Current(asked.asOf)
    BY <1>5 DEF vars, Current, CurrentAt
  <2> QED
    BY <1>5, <2>1 DEF vars, RecallInv
<1> QED
  BY <1>1, <1>2, <1>3, <1>4, <1>5, Decided, RolledBack DEF Next

\* The question and the store keep their types, and what the store shows as of
\* the question's time is one of its views as long as it waits
\* (recall.ts:195-205).
THEOREM AskedIsInView == Spec => []RecallInv
<1> QED
  BY InitInv, StepInv, PTL DEF Spec

-----------------------------------------------------------------------------
\* The facts of an answer come from what is settled when it is given, or are
\* marked proposed.
LEMMA AnswerFromView ==
  ASSUME RecallInv, Answer
  PROVE  SettledAsAsked'
<1>1. PICK sem \in Leg : \E full \in Fused(asked.keyword, sem) :
        \E ids \in RankedFactIds(FirstOf(full, MaxFused)) :
        \E sorted \in Sorted(asked.keyword, sem, FirstOf(full, MaxFused), ids, Read(ids)) :
        \E related \in IF ids = << >> THEN {{}} ELSE Neighbours(FirstOf(sorted, Limit)) :
          answer' = [keyword |-> asked.keyword, semantic |-> sem,
                     fused |-> FirstOf(full, MaxFused), ids |-> ids,
                     results |-> FirstOf(sorted, Limit), related |-> related,
                     proposed |-> {f \in Members(FirstOf(sorted, Limit)) :
                                     facts[f].status = "proposed"}]
  BY DEF Answer
<1>2. PICK full : \E ids \in RankedFactIds(FirstOf(full, MaxFused)) :
        \E sorted \in Sorted(asked.keyword, sem, FirstOf(full, MaxFused), ids, Read(ids)) :
        \E related \in IF ids = << >> THEN {{}} ELSE Neighbours(FirstOf(sorted, Limit)) :
          /\ answer'.results = FirstOf(sorted, Limit) /\ answer'.related = related
          /\ answer'.proposed = {f \in Members(FirstOf(sorted, Limit)) :
                                   facts[f].status = "proposed"}
  BY <1>1
<1>3. PICK ids, sorted :
        /\ sorted \in Sorted(asked.keyword, sem, FirstOf(full, MaxFused), ids, Read(ids))
        /\ \E related \in IF ids = << >> THEN {{}} ELSE Neighbours(FirstOf(sorted, Limit)) :
             /\ answer'.results = FirstOf(sorted, Limit) /\ answer'.related = related
             /\ answer'.proposed = {f \in Members(FirstOf(sorted, Limit)) :
                                      facts[f].status = "proposed"}
  BY <1>2
<1>4. Members(answer'.results) \subseteq Read(ids)
  <2>1. IsFiniteSet(Read(ids))
    BY RecallConstants, FS_Subset DEF Read
  <2>2. sorted \in Seq(Read(ids))
    BY <1>3, <2>1, ListingIsSequence DEF Sorted
  <2>3. FirstOf(sorted, Limit) \in Seq(Read(ids))
    BY <2>2, StartOfSequence, RecallConstants
  <2> QED
    BY <1>3, <2>3 DEF Members
<1>5. Members(answer'.results) \ answer'.proposed \subseteq Current(asked.asOf)
  <2> SUFFICES ASSUME NEW f \in Members(answer'.results), f \notin answer'.proposed
               PROVE  f \in Current(asked.asOf)
    OBVIOUS
  <2>1. f \in Fact /\ Visible(f)
    BY <1>4 DEF Read
  <2>2. facts[f].status # "proposed"
    BY <1>3
  <2> QED
    BY <2>1, <2>2 DEF Visible, Current
<1>6. answer'.related \subseteq Current(asked.asOf)
  BY <1>3 DEF Neighbours
<1>7. Current(asked.asOf) \in views'
  BY DEF Answer, RecallInv
<1> QED
  BY <1>5, <1>6, <1>7 DEF SettledAsAsked

\* A step that is not an answer gives none, and keeps none that it would change.
LEMMA OnlyAnswerAnswers ==
  ASSUME RecallInv, [Next]_vars, ~Answer
  PROVE  /\ asked'.phase = "answered" => /\ asked' = asked /\ views' = views
         /\ answer' = answer \/ answer' = NoAnswer
<1>1. CASE Ask
  BY <1>1 DEF Ask
<1>2. CASE Deliver
  BY <1>2 DEF Deliver, NotAsked
<1>3. CASE Tick
  BY <1>3 DEF Tick
<1>4. ASSUME NEW f \in Fact, Confirm(f) \/ Reject(f) \/ Supersede(f) \/ Rollback(f)
      PROVE  asked'.phase = "waiting" /\ answer' = answer
  <2>1. PICK row : MayWrite /\ Write(f, row)
    BY <1>4 DEF Confirm, Reject, Supersede, Rollback, Decide
  <2> QED
    BY <2>1 DEF MayWrite, Write, RecallInv
<1>5. CASE UNCHANGED vars
  BY <1>5 DEF vars
<1> QED
  BY <1>1, <1>2, <1>3, <1>4, <1>5 DEF Next

\* What an answer gives as settled was settled as of the question's time,
\* whatever was decided while the model was awaited (recall.ts:151-156).
THEOREM SettledAnswers == Spec => []SettledAsAsked
<1> DEFINE Inv == RecallInv /\ SettledAsAsked
<1>1. Init => Inv
  <2>1. Init => asked.phase # "answered"
    BY DEF Init, NotAsked
  <2> QED
    BY <2>1, InitInv DEF SettledAsAsked
<1>2. Inv /\ [Next]_vars => Inv'
  <2> SUFFICES ASSUME Inv, [Next]_vars PROVE SettledAsAsked'
    BY StepInv
  <2>1. CASE Answer
    BY <2>1, AnswerFromView
  <2>2. CASE ~Answer
    <3>1. CASE asked'.phase = "answered"
      <4>1. asked' = asked /\ views' = views /\ (answer' = answer \/ answer' = NoAnswer)
        BY <2>2, <3>1, OnlyAnswerAnswers
      <4>2. CASE answer' = answer
        BY <4>1, <4>2 DEF SettledAsAsked
      <4>3. CASE answer' = NoAnswer
        <5>1. \E v \in views : TRUE
          BY <3>1, <4>1 DEF SettledAsAsked
        <5>2. Members(answer'.results) = {} /\ answer'.related = {}
          BY <4>3 DEF NoAnswer, Members
        <5> QED
          BY <4>1, <5>1, <5>2 DEF SettledAsAsked
      <4> QED
        BY <4>1, <4>2, <4>3
    <3> QED
      BY <3>1 DEF SettledAsAsked
  <2> QED
    BY <2>1, <2>2
<1>3. Inv => SettledAsAsked
  OBVIOUS
<1> QED
  BY <1>1, <1>2, <1>3, PTL DEF Spec

\* The fused list of every answer has what both searches found before what one
\* found, for every pair of rankings (rrf.ts:6-10).
THEOREM BothComeFirst == Spec => []BothOutrankOne
<1> DEFINE Inv == RecallInv /\ BothOutrankOne
<1>1. answer = NoAnswer => BothOutrankOne
  BY DEF NoAnswer, BothOutrankOne
<1>2. Init => Inv
  BY InitInv, <1>1 DEF Init
<1>3. Inv /\ [Next]_vars => Inv'
  <2> SUFFICES ASSUME Inv, [Next]_vars PROVE BothOutrankOne'
    BY StepInv
  <2>1. CASE Answer
    <3>1. PICK sem \in Leg : \E full \in Fused(asked.keyword, sem) :
            /\ answer'.keyword = asked.keyword /\ answer'.semantic = sem
            /\ answer'.fused = FirstOf(full, MaxFused)
      BY <2>1 DEF Answer
    <3>2. PICK kw \in Leg : kw = asked.keyword
      BY DEF RecallInv
    <3> QED
      BY <3>1, <3>2, FusedOrder DEF BothOutrankOne
  <2>2. CASE ~Answer
    <3>1. answer' = answer \/ answer' = NoAnswer
      BY <2>2, OnlyAnswerAnswers
    <3>2. CASE answer' = answer
      BY <3>2 DEF BothOutrankOne
    <3>3. CASE answer' = NoAnswer
      BY <3>3 DEF NoAnswer, BothOutrankOne
    <3> QED
      BY <3>1, <3>2, <3>3
  <2> QED
    BY <2>1, <2>2
<1>4. Inv => BothOutrankOne
  OBVIOUS
<1> QED
  BY <1>2, <1>3, <1>4, PTL DEF Spec

-----------------------------------------------------------------------------
(* What the searches found themselves *)

\* r lists the references of the first items, after each of them.
Collects(r, fused, kind, end) ==
  r = [n \in 0 .. end |->
         IF n = 0 THEN << >>
         ELSE IF fused[n][1] = kind THEN Append(r[n - 1], fused[n][2]) ELSE r[n - 1]]

LEMMA CollectsExists ==
  ASSUME NEW fused, NEW kind
  PROVE  \A end \in Nat : \E r : Collects(r, fused, kind, end)
<1> DEFINE S == {n \in Nat : \E r : Collects(r, fused, kind, n)}
           next(r, n) == IF fused[n][1] = kind THEN Append(r, fused[n][2]) ELSE r
<1>1. 0 \in S
  <2> DEFINE f == [m \in 0 .. 0 |-> << >>]
  <2>1. Collects(f, fused, kind, 0)
    BY DEF Collects
  <2> QED
    BY <2>1
<1>2. ASSUME NEW n \in Nat, n \in S
      PROVE  n + 1 \in S
  <2>1. PICK f : Collects(f, fused, kind, n)
    BY <1>2
  <2>2. \A m \in 0 .. n : f[m] = IF m = 0 THEN << >> ELSE next(f[m - 1], m)
    BY <2>1, Zenon DEF Collects
  <2> DEFINE x == next(f[n], n + 1)
             g == [m \in 0 .. n + 1 |-> IF m = n + 1 THEN x ELSE f[m]]
             G == [m \in 0 .. n + 1 |-> IF m = 0 THEN << >> ELSE next(g[m - 1], m)]
  <2> HIDE DEF next
  <2>3. ASSUME NEW m \in 0 .. n + 1
        PROVE  g[m] = IF m = 0 THEN << >> ELSE next(g[m - 1], m)
    <3>1. CASE m = n + 1
      <4>1. g[m] = x /\ m # 0 /\ g[m - 1] = f[n]
        BY <3>1
      <4> QED
        BY <3>1, <4>1
    <3>2. CASE m # n + 1
      <4>1. m \in 0 .. n /\ g[m] = f[m] /\ (m # 0 => g[m - 1] = f[m - 1])
        BY <3>2
      <4> QED
        BY <2>2, <4>1
    <3> QED
      BY <3>1, <3>2
  <2>4. DOMAIN g = DOMAIN G /\ \A m \in 0 .. n + 1 : g[m] = G[m]
    BY <2>3
  <2>5. g = G
    BY <2>4
  <2> HIDE DEF g
  <2>6. Collects(g, fused, kind, n + 1)
    BY <2>5 DEF Collects, next
  <2> QED
    BY <2>6
<1> HIDE DEF S
<1>3. Nat \subseteq S
  BY <1>1, <1>2, EveryNumber
<1> QED
  BY <1>3 DEF S

\* The references to facts hold every fact among the items, and are no more
\* than the items.
LEMMA FactRefs ==
  ASSUME NEW fused \in Seq(Item)
  PROVE  /\ RefsOf(fused, "fact") \in Seq(Fact)
         /\ Len(RefsOf(fused, "fact")) <= Len(fused)
         /\ \A f : <<"fact", f>> \in Members(fused) => f \in Members(RefsOf(fused, "fact"))
<1> DEFINE end == Len(fused)
           r == CHOOSE h : Collects(h, fused, "fact", end)
<1>0. end \in Nat /\ DOMAIN fused = 1 .. end
  OBVIOUS
<1>1. RefsOf(fused, "fact") = r[end]
  BY DEF RefsOf, Collects
<1>2. Collects(r, fused, "fact", end)
  BY <1>0, CollectsExists
<1> HIDE DEF r
<1>3. \A n \in 0 .. end :
        r[n] = IF n = 0 THEN << >>
               ELSE IF fused[n][1] = "fact" THEN Append(r[n - 1], fused[n][2]) ELSE r[n - 1]
  BY <1>2, Zenon DEF Collects
<1> HIDE DEF end
<1> DEFINE Good(n) ==
             /\ r[n] \in Seq(Fact) /\ Len(r[n]) <= n
             /\ \A i \in 1 .. n : fused[i][1] = "fact" => fused[i][2] \in Members(r[n])
           S == {n \in Nat : n <= end => Good(n)}
<1>4. 0 \in S
  <2>1. r[0] = << >>
    BY <1>0, <1>3
  <2>2. r[0] \in Seq(Fact) /\ Len(r[0]) <= 0
    BY <2>1
  <2>3. \A i \in 1 .. 0 : fused[i][1] = "fact" => fused[i][2] \in Members(r[0])
    OBVIOUS
  <2> QED
    BY <2>2, <2>3
<1>5. ASSUME NEW n \in Nat, n \in S
      PROVE  n + 1 \in S
  <2> SUFFICES ASSUME n + 1 <= end PROVE Good(n + 1)
    OBVIOUS
  <2>1. Good(n) /\ n + 1 \in 1 .. end
    BY <1>0, <1>5
  <2>2. r[n + 1] = IF fused[n + 1][1] = "fact" THEN Append(r[n], fused[n + 1][2]) ELSE r[n]
    <3>1. n + 1 \in 0 .. end /\ n + 1 # 0 /\ (n + 1) - 1 = n
      BY <2>1
    <3> QED
      BY <1>3, <3>1
  <2>3. CASE fused[n + 1][1] = "fact"
    <3> DEFINE x == fused[n + 1][2]
    <3>1. x \in Fact
      <4>1. fused[n + 1] \in Item
        BY <1>0, <2>1
      <4> QED
        BY <2>3, <4>1 DEF Item
    <3>2. r[n + 1] = Append(r[n], x)
      BY <2>2, <2>3
    <3> HIDE DEF x
    <3>3. /\ r[n + 1] \in Seq(Fact) /\ Len(r[n + 1]) = Len(r[n]) + 1
          /\ r[n + 1][Len(r[n]) + 1] = x
          /\ \A i \in 1 .. Len(r[n]) : r[n + 1][i] = r[n][i]
      BY <2>1, <3>1, <3>2
    <3>4. Members(r[n]) \subseteq Members(r[n + 1]) /\ x \in Members(r[n + 1])
      <4>1. /\ DOMAIN r[n] = 1 .. Len(r[n]) /\ DOMAIN r[n + 1] = 1 .. Len(r[n]) + 1
            /\ Len(r[n]) \in Nat
        BY <2>1, <3>3
      <4>2. Len(r[n]) + 1 \in DOMAIN r[n + 1] /\ DOMAIN r[n] \subseteq DOMAIN r[n + 1]
        BY <4>1
      <4> QED
        BY <3>3, <4>1, <4>2 DEF Members
    <3>5. ASSUME NEW i \in 1 .. n + 1, fused[i][1] = "fact"
          PROVE  fused[i][2] \in Members(r[n + 1])
      <4>1. i \in 1 .. n \/ i = n + 1
        OBVIOUS
      <4> QED
        BY <2>1, <3>4, <3>5, <4>1 DEF x
    <3>6. Len(r[n + 1]) <= n + 1
      BY <2>1, <3>3
    <3> QED
      BY <3>3, <3>5, <3>6
  <2>4. CASE fused[n + 1][1] # "fact"
    <3>1. r[n + 1] = r[n]
      BY <2>2, <2>4
    <3>2. ASSUME NEW i \in 1 .. n + 1, fused[i][1] = "fact"
          PROVE  i \in 1 .. n
      BY <2>4, <3>2
    <3>3. Len(r[n]) <= n + 1
      BY <2>1
    <3> QED
      BY <2>1, <3>1, <3>2, <3>3
  <2> QED
    BY <2>3, <2>4
<1> HIDE DEF S, Good
<1>6. Good(end)
  <2>1. end \in S
    BY <1>0, <1>4, <1>5, EveryNumber
  <2> QED
    BY <2>1 DEF S
<1>7. ASSUME NEW f, <<"fact", f>> \in Members(fused)
      PROVE  f \in Members(r[end])
  <2>1. PICK i \in 1 .. end : fused[i] = <<"fact", f>>
    BY <1>0, <1>7 DEF Members
  <2>2. fused[i][1] = "fact" /\ fused[i][2] = f
    BY <2>1
  <2> QED
    BY <1>6, <2>2 DEF Good
<1> QED
  BY <1>1, <1>6, <1>7 DEF Good, end

\* The start of a sequence is as long as it can be.
LEMMA StartLength ==
  ASSUME NEW S, NEW s \in Seq(S), NEW n \in Nat
  PROVE  /\ FirstOf(s, n) \in Seq(S)
         /\ Len(FirstOf(s, n)) = SmallerOf(Len(s), n)
         /\ \A i \in 1 .. SmallerOf(Len(s), n) : FirstOf(s, n)[i] = s[i]
<1>1. SmallerOf(Len(s), n) \in Nat /\ SmallerOf(Len(s), n) <= Len(s)
  BY DEF SmallerOf
<1> QED
  BY <1>1 DEF FirstOf

\* A listing leaves nothing out.
LEMMA ListsAll ==
  ASSUME NEW S, IsFiniteSet(S), NEW s \in Listings(S)
  PROVE  Members(s) = S
<1> DEFINE n == Cardinality(S)
<1>1. n \in Nat
  BY FS_CardinalityType
<1>2. s \in [1 .. n -> S] /\ \A i, j \in 1 .. n : s[i] = s[j] => i = j
  BY DEF Listings, NoRepeat
<1>3. s \in Injection(1 .. n, S)
  BY <1>2 DEF Injection, IsInjective
<1>4. Cardinality(1 .. n) = n
  BY <1>1, FS_Interval
<1>5. s \in Surjection(1 .. n, S)
  BY <1>3, <1>4, FS_Injection
<1> QED
  BY <1>2, <1>5 DEF Surjection, Members

\* The facts found indirectly are a sequence of facts.
LEMMA IndirectFacts ==
  ASSUME NEW fused, NEW had, NEW s \in Indirect(fused, had)
  PROVE  s \in Seq(Fact)
<1> DEFINE byEpisode == SupportedBy(FirstOf(RefsOf(fused, "episode"), MaxLookup)) \ had
<1>1. PICK T \in ReadOf(TakingPart(FirstOf(RefsOf(fused, "entity"), MaxLookup))) :
        \E lists \in Listings(byEpisode) \X Listings(T \ (had \cup byEpisode)) :
          s = lists[1] \o lists[2]
  BY DEF Indirect
<1>2. T \subseteq Fact
  BY DEF ReadOf, TakingPart
<1>3. byEpisode \subseteq Fact
  BY DEF SupportedBy
<1> HIDE DEF byEpisode
<1>4. ASSUME NEW S \in SUBSET Fact, NEW a \in Listings(S)
      PROVE  a \in Seq(Fact)
  <2>1. IsFiniteSet(S)
    BY RecallConstants, FS_Subset
  <2>2. a \in Seq(S)
    BY <2>1, ListingIsSequence
  <2> QED
    BY <2>2
<1>5. T \ (had \cup byEpisode) \in SUBSET Fact /\ byEpisode \in SUBSET Fact
  BY <1>2, <1>3
<1>6. PICK lists \in Listings(byEpisode) \X Listings(T \ (had \cup byEpisode)) :
        s = lists[1] \o lists[2]
  BY <1>1
<1>7. lists[1] \in Seq(Fact) /\ lists[2] \in Seq(Fact)
  <2>1. /\ lists[1] \in Listings(byEpisode)
        /\ lists[2] \in Listings(T \ (had \cup byEpisode))
    BY <1>6
  <2> QED
    BY <1>4, <1>5, <2>1
<1> QED
  BY <1>6, <1>7

\* Every fact among the fused items is looked up: MaxFused of them fit in
\* MaxFactIds.
LEMMA FoundIsLookedUp ==
  ASSUME NEW kw \in Leg, NEW sem \in Leg, NEW full \in Fused(kw, sem),
         NEW ids \in RankedFactIds(FirstOf(full, MaxFused)),
         NEW f, <<"fact", f>> \in Members(FirstOf(full, MaxFused))
  PROVE  f \in Members(ids)
<1> DEFINE found == Members(kw) \cup Members(sem)
           fused == FirstOf(full, MaxFused)
           direct == RefsOf(fused, "fact")
<1>1. IsFiniteSet(found) /\ found \subseteq Item
  <2>1. found \subseteq Findable
    BY LegMembers
  <2> QED
    BY <2>1, RecallConstants, FS_Subset
<1>2. full \in Seq(found)
  BY <1>1, ListingIsSequence DEF Fused
<1>3. full \in Seq(Item)
  <2> HIDE DEF found
  <2> QED
    BY <1>1, <1>2
<1>4. fused \in Seq(Item) /\ Len(fused) \in Nat /\ Len(fused) <= MaxFused
  <2>1. fused \in Seq(Item) /\ Len(fused) = SmallerOf(Len(full), MaxFused)
    BY <1>3, StartLength, RankingSizes
  <2> QED
    BY <1>3, <2>1, RankingSizes DEF SmallerOf
<1>5. PICK s \in Indirect(fused, Members(direct)) : ids = FirstOf(direct \o s, MaxFactIds)
  BY DEF RankedFactIds
<1>6. f \in Members(direct) /\ direct \in Seq(Fact) /\ Len(direct) <= Len(fused)
  <2> HIDE DEF fused
  <2> QED
    BY <1>4, FactRefs DEF fused
<1> HIDE DEF fused, direct
<1>7. s \in Seq(Fact)
  BY IndirectFacts
<1>8. PICK i \in 1 .. Len(direct) : direct[i] = f
  BY <1>6 DEF Members
<1>9. /\ direct \o s \in Seq(Fact) /\ (direct \o s)[i] = f
      /\ i \in 1 .. SmallerOf(Len(direct \o s), MaxFactIds)
  BY <1>4, <1>6, <1>7, <1>8, RankingSizes DEF SmallerOf
<1>10. i \in DOMAIN ids /\ ids[i] = f
  <2> DEFINE all == direct \o s
  <2>1. all \in Seq(Fact) /\ MaxFactIds \in Nat /\ ids = FirstOf(all, MaxFactIds)
    BY <1>5, <1>9, RankingSizes
  <2>2. i \in 1 .. SmallerOf(Len(all), MaxFactIds) /\ all[i] = f
    BY <1>9
  <2> HIDE DEF all
  <2>3. /\ ids \in Seq(Fact) /\ Len(ids) = SmallerOf(Len(all), MaxFactIds)
        /\ \A j \in 1 .. SmallerOf(Len(all), MaxFactIds) : ids[j] = all[j]
    BY <2>1, StartLength
  <2> QED
    BY <2>2, <2>3
<1> QED
  BY <1>10 DEF Members

\* A fact that is looked up and settled is a result, or the answer is full.
LEMMA AnswerShowsFound ==
  ASSUME RecallInv, Answer
  PROVE  FoundIsShown'
<1>1. PICK sem \in Leg : \E full \in Fused(asked.keyword, sem) :
        \E ids \in RankedFactIds(FirstOf(full, MaxFused)) :
        \E sorted \in Sorted(asked.keyword, sem, FirstOf(full, MaxFused), ids, Read(ids)) :
          answer'.fused = FirstOf(full, MaxFused) /\ answer'.results = FirstOf(sorted, Limit)
  BY DEF Answer
<1>2. PICK full \in Fused(asked.keyword, sem) :
        \E ids \in RankedFactIds(FirstOf(full, MaxFused)) :
        \E sorted \in Sorted(asked.keyword, sem, FirstOf(full, MaxFused), ids, Read(ids)) :
          answer'.fused = FirstOf(full, MaxFused) /\ answer'.results = FirstOf(sorted, Limit)
  BY <1>1
<1>3. PICK ids \in RankedFactIds(FirstOf(full, MaxFused)) :
        \E sorted \in Sorted(asked.keyword, sem, FirstOf(full, MaxFused), ids, Read(ids)) :
          answer'.fused = FirstOf(full, MaxFused) /\ answer'.results = FirstOf(sorted, Limit)
  BY <1>2
<1>4. PICK sorted \in Listings(Read(ids)) :
        answer'.fused = FirstOf(full, MaxFused) /\ answer'.results = FirstOf(sorted, Limit)
  BY <1>3 DEF Sorted
<1>5. views' = views /\ Current(asked.asOf) \in views /\ asked.keyword \in Leg
  BY DEF Answer, RecallInv
<1> SUFFICES ASSUME NEW f \in Fact, <<"fact", f>> \in Members(answer'.fused),
                    \A v \in views : f \in v
             PROVE  f \in Members(answer'.results) \/ Len(answer'.results) = Limit
  BY <1>5 DEF FoundIsShown
<1>6. f \in Members(ids)
  BY <1>4, <1>5, FoundIsLookedUp
<1>7. f \in Read(ids)
  <2>1. CurrentAt(f, asked.asOf)
    BY <1>5 DEF Current
  <2> QED
    BY <1>6, <2>1 DEF Read, Visible
<1>8. IsFiniteSet(Read(ids))
  BY RecallConstants, FS_Subset DEF Read
<1>9. f \in Members(sorted) /\ sorted \in Seq(Read(ids))
  BY <1>7, <1>8, ListsAll, ListingIsSequence
<1>10. PICK i \in 1 .. Len(sorted) : sorted[i] = f
  BY <1>9 DEF Members
<1>11. PICK results : results = FirstOf(sorted, Limit) /\ answer'.results = results
  BY <1>4
<1>12. Limit \in Nat /\ Len(sorted) \in Nat
  BY <1>9, RecallConstants
<1>13. /\ results \in Seq(Read(ids)) /\ Len(results) = SmallerOf(Len(sorted), Limit)
       /\ \A j \in 1 .. SmallerOf(Len(sorted), Limit) : results[j] = sorted[j]
  BY <1>9, <1>11, <1>12, StartLength
<1>14. f \in Members(results) \/ Len(results) = Limit
  <2>1. CASE Len(sorted) <= Limit
    <3>1. SmallerOf(Len(sorted), Limit) = Len(sorted)
      BY <1>12, <2>1 DEF SmallerOf
    <3>2. i \in DOMAIN results /\ results[i] = f
      BY <1>10, <1>13, <3>1
    <3> QED
      BY <3>2 DEF Members
  <2>2. CASE ~(Len(sorted) <= Limit)
    BY <1>12, <1>13, <2>2 DEF SmallerOf
  <2> QED
    BY <2>1, <2>2
<1> QED
  BY <1>11, <1>14

\* A fact that a search itself found and that stays settled is in the answer,
\* unless the answer is full, for any rankings and any limits that fit
\* (recall.ts:88-92).
THEOREM FoundIsAnswered == Spec => []FoundIsShown
<1> DEFINE Inv == RecallInv /\ FoundIsShown
<1>1. Init => Inv
  <2>1. Init => asked.phase # "answered"
    BY DEF Init, NotAsked
  <2> QED
    BY <2>1, InitInv DEF FoundIsShown
<1>2. Inv /\ [Next]_vars => Inv'
  <2> SUFFICES ASSUME Inv, [Next]_vars PROVE FoundIsShown'
    BY StepInv
  <2>1. CASE Answer
    BY <2>1, AnswerShowsFound
  <2>2. CASE ~Answer /\ asked'.phase = "answered"
    <3>1. asked' = asked /\ views' = views /\ (answer' = answer \/ answer' = NoAnswer)
      BY <2>2, OnlyAnswerAnswers
    <3>2. CASE answer' = answer
      BY <3>1, <3>2 DEF FoundIsShown
    <3>3. CASE answer' = NoAnswer
      <4>1. Members(answer'.fused) = {}
        BY <3>3 DEF NoAnswer, Members
      <4> QED
        BY <4>1 DEF FoundIsShown
    <3> QED
      BY <3>1, <3>2, <3>3
  <2>3. CASE asked'.phase # "answered"
    BY <2>3 DEF FoundIsShown
  <2> QED
    BY <2>1, <2>2, <2>3
<1>3. Inv => FoundIsShown
  OBVIOUS
<1> QED
  BY <1>1, <1>2, <1>3, PTL DEF Spec

-----------------------------------------------------------------------------
(* Every question has an answer *)

StrictOrder(R, S) ==
  /\ \A x, y \in S : <<x, y>> \in R => <<y, x>> \notin R
  /\ \A x, y \in S : x # y => <<x, y>> \in R \/ <<y, x>> \in R
  /\ \A x, y, z \in S : <<x, y>> \in R /\ <<y, z>> \in R => <<x, z>> \in R

InOrder(s, R) == \A i, j \in DOMAIN s : i < j => <<s[i], s[j]>> \in R

\* A finite set that is not empty has a last member.
LEMMA LastExists ==
  ASSUME NEW S, NEW R, StrictOrder(R, S)
  PROVE  \A n \in Nat : \A T \in SUBSET S :
           IsFiniteSet(T) /\ Cardinality(T) = n + 1 =>
             \E x \in T : \A y \in T : y # x => <<y, x>> \in R
<1> DEFINE Last(x, T) == \A y \in T : y # x => <<y, x>> \in R
           K == {n \in Nat : \A T \in SUBSET S :
                   IsFiniteSet(T) /\ Cardinality(T) = n + 1 => \E x \in T : Last(x, T)}
<1>1. 0 \in K
  <2> SUFFICES ASSUME NEW T \in SUBSET S, IsFiniteSet(T), Cardinality(T) = 0 + 1
               PROVE  \E x \in T : Last(x, T)
    OBVIOUS
  <2>1. PICK x : T = {x}
    BY FS_Singleton
  <2> QED
    BY <2>1
<1>2. ASSUME NEW n \in Nat, n \in K
      PROVE  n + 1 \in K
  <2> SUFFICES ASSUME NEW T \in SUBSET S, IsFiniteSet(T), Cardinality(T) = (n + 1) + 1
               PROVE  \E x \in T : Last(x, T)
    OBVIOUS
  <2>1. PICK z : z \in T
    <3>1. T # {}
      BY FS_EmptySet
    <3> QED
      BY <3>1
  <2> DEFINE U == T \ {z}
  <2>2. U \in SUBSET S /\ IsFiniteSet(U) /\ Cardinality(U) = n + 1
    BY <2>1, FS_RemoveElement
  <2>3. PICK x \in U : Last(x, U)
    BY <1>2, <2>2
  <2>4. x \in S /\ z \in S /\ x # z /\ x \in T
    BY <2>1, <2>3
  <2>5. CASE <<x, z>> \in R
    <3>1. Last(z, T)
      <4> SUFFICES ASSUME NEW y \in T, y # z PROVE <<y, z>> \in R
        OBVIOUS
      <4>1. CASE y = x
        BY <2>5, <4>1
      <4>2. CASE y # x
        <5>1. <<y, x>> \in R
          BY <2>3, <4>2
        <5> QED
          BY <2>4, <2>5, <5>1 DEF StrictOrder
      <4> QED
        BY <4>1, <4>2
    <3> QED
      BY <2>1, <3>1
  <2>6. CASE <<z, x>> \in R
    <3>1. Last(x, T)
      BY <2>3, <2>6
    <3> QED
      BY <2>4, <3>1
  <2> QED
    BY <2>4, <2>5, <2>6 DEF StrictOrder
<1> HIDE DEF K
<1>3. Nat \subseteq K
  BY <1>1, <1>2, EveryNumber
<1> QED
  BY <1>3 DEF K

\* A finite set can be listed in order.
LEMMA OrderExists ==
  ASSUME NEW S, IsFiniteSet(S), NEW R, StrictOrder(R, S)
  PROVE  \E s \in Listings(S) : InOrder(s, R)
<1> DEFINE K == {n \in Nat : \A T \in SUBSET S :
                   IsFiniteSet(T) /\ Cardinality(T) = n => \E s \in Listings(T) : InOrder(s, R)}
<1>1. 0 \in K
  <2> SUFFICES ASSUME NEW T \in SUBSET S, IsFiniteSet(T), Cardinality(T) = 0
               PROVE  \E s \in Listings(T) : InOrder(s, R)
    OBVIOUS
  <2> DEFINE none == [i \in 1 .. 0 |-> 0]
  <2>1. none \in [1 .. 0 -> T] /\ DOMAIN none = {}
    OBVIOUS
  <2> HIDE DEF none
  <2>2. none \in Listings(T) /\ InOrder(none, R)
    BY <2>1 DEF Listings, NoRepeat, InOrder
  <2> QED
    BY <2>2
<1>2. ASSUME NEW n \in Nat, n \in K
      PROVE  n + 1 \in K
  <2> SUFFICES ASSUME NEW T \in SUBSET S, IsFiniteSet(T), Cardinality(T) = n + 1
               PROVE  \E s \in Listings(T) : InOrder(s, R)
    OBVIOUS
  <2>1. PICK x \in T : \A y \in T : y # x => <<y, x>> \in R
    BY LastExists
  <2> DEFINE U == T \ {x}
  <2>2. U \in SUBSET S /\ IsFiniteSet(U) /\ Cardinality(U) = n
    <3>1. IsFiniteSet(T \ {x}) /\ Cardinality(T \ {x}) = Cardinality(T) - 1
      BY <2>1, FS_RemoveElement
    <3> QED
      BY <3>1
  <2>3. PICK s \in Listings(U) : InOrder(s, R)
    BY <1>2, <2>2
  <2>4. s \in [1 .. n -> U] /\ \A i, j \in 1 .. n : s[i] = s[j] => i = j
    BY <2>2, <2>3 DEF Listings, NoRepeat
  <2> DEFINE more == [i \in 1 .. n + 1 |-> IF i = n + 1 THEN x ELSE s[i]]
  <2>5. /\ more \in [1 .. n + 1 -> T] /\ more[n + 1] = x
        /\ \A i \in 1 .. n : more[i] = s[i]
    BY <2>1, <2>4
  <2> HIDE DEF more
  <2>6. \A i \in 1 .. n + 1 : i \in 1 .. n \/ i = n + 1
    OBVIOUS
  <2>7. \A i, j \in 1 .. n + 1 : more[i] = more[j] => i = j
    BY <2>4, <2>5, <2>6
  <2>8. more \in Listings(T)
    BY <2>5, <2>7 DEF Listings, NoRepeat
  <2>9. ASSUME NEW i \in 1 .. n + 1, NEW j \in 1 .. n + 1, i < j
        PROVE  <<more[i], more[j]>> \in R
    <3>1. i \in 1 .. n
      BY <2>9
    <3>2. CASE j \in 1 .. n
      BY <2>3, <2>4, <2>5, <2>9, <3>1, <3>2 DEF InOrder
    <3>3. CASE j = n + 1
      <4>1. s[i] \in T /\ s[i] # x
        BY <2>4, <3>1
      <4> QED
        BY <2>1, <2>5, <3>1, <3>3, <4>1
    <3> QED
      BY <2>6, <3>2, <3>3
  <2> QED
    BY <2>5, <2>8, <2>9 DEF InOrder
<1> HIDE DEF K
<1>3. Cardinality(S) \in K
  BY <1>1, <1>2, EveryNumber, FS_CardinalityType
<1> QED
  BY <1>3 DEF K

\* In one way.
LEMMA OrderUnique ==
  ASSUME NEW S, IsFiniteSet(S), NEW R, StrictOrder(R, S),
         NEW s \in Listings(S), NEW t \in Listings(S), InOrder(s, R), InOrder(t, R)
  PROVE  s = t
<1> DEFINE n == Cardinality(S)
           wrong == {i \in 1 .. n : s[i] # t[i]}
<1>1. n \in Nat
  BY FS_CardinalityType
<1>2. /\ s \in [1 .. n -> S] /\ \A i, j \in 1 .. n : s[i] = s[j] => i = j
      /\ t \in [1 .. n -> S] /\ \A i, j \in 1 .. n : t[i] = t[j] => i = j
  BY DEF Listings, NoRepeat
<1>3. Members(s) = S /\ Members(t) = S
  BY ListsAll
<1> HIDE DEF n
<1>4. ASSUME wrong # {} PROVE FALSE
  <2>1. wrong \in SUBSET Nat
    BY <1>1
  <2>2. PICK i \in wrong : \A j \in wrong : i <= j
    <3> HIDE DEF wrong
    <3> QED
      BY <1>4, <2>1, LeastNatural
  <2>3. i \in 1 .. n /\ s[i] # t[i] /\ \A j \in 1 .. n : j < i => s[j] = t[j]
    BY <1>1, <2>2
  <2>4. PICK j \in 1 .. n : t[j] = s[i]
    BY <1>2, <1>3, <2>3 DEF Members
  <2>5. PICK h \in 1 .. n : s[h] = t[i]
    BY <1>2, <1>3, <2>3 DEF Members
  <2>6. i < j
    BY <1>2, <2>3, <2>4
  <2>7. i < h
    BY <1>2, <2>3, <2>5
  <2>8. <<t[i], s[i]>> \in R
    BY <1>2, <2>3, <2>4, <2>6 DEF InOrder
  <2>9. <<s[i], t[i]>> \in R
    BY <1>2, <2>3, <2>5, <2>7 DEF InOrder
  <2>10. s[i] \in S /\ t[i] \in S
    BY <1>2, <2>3
  <2> QED
    BY <2>8, <2>9, <2>10 DEF StrictOrder
<1>5. \A i \in 1 .. n : s[i] = t[i]
  BY <1>4
<1>6. s = [i \in 1 .. n |-> s[i]] /\ t = [i \in 1 .. n |-> t[i]]
  BY <1>2
<1>7. [i \in 1 .. n |-> s[i]] = [i \in 1 .. n |-> t[i]]
  BY <1>5
<1> QED
  BY <1>6, <1>7

Fraction == [num : Nat, den : Nat \ {0}]

LEMMA Crossed ==
  ASSUME NEW a \in Nat, NEW b \in Nat \ {0}, NEW c \in Nat, NEW d \in Nat \ {0},
         NEW e \in Nat, NEW f \in Nat \ {0},
         c * b <= a * d, e * d <= c * f
  PROVE  /\ e * b <= a * f
         /\ (c * b < a * d \/ e * d < c * f) => e * b < a * f
<1>1. (e * d) * b <= (c * f) * b
  BY SMT
<1>2. (c * b) * f <= (a * d) * f
  BY SMT
<1>3. e * d < c * f => (e * d) * b < (c * f) * b
  BY SMT
<1>4. c * b < a * d => (c * b) * f < (a * d) * f
  BY SMT
<1>5. /\ (e * d) * b = d * (e * b) /\ (c * f) * b = (c * b) * f
      /\ (a * d) * f = d * (a * f)
  BY SMT
<1>6. e * b \in Nat /\ a * f \in Nat /\ d \in Nat /\ d > 0
      /\ (c * b) * f \in Nat
  BY SMT
<1>7. \A x, y \in Nat : /\ d * x <= d * y => x <= y
                        /\ d * x < d * y => x < y
  BY SMT
<1>8. d * (e * b) <= d * (a * f)
  <2>1. d * (e * b) \in Nat /\ d * (a * f) \in Nat
    BY <1>6, SMT
  <2> QED
    BY <1>1, <1>2, <1>5, <1>6, <2>1
<1>9. (c * b < a * d \/ e * d < c * f) => d * (e * b) < d * (a * f)
  <2>1. d * (e * b) \in Nat /\ d * (a * f) \in Nat
    BY <1>6, SMT
  <2> QED
    BY <1>1, <1>2, <1>3, <1>4, <1>5, <1>6, <2>1
<1> QED
  BY <1>6, <1>7, <1>8, <1>9

\* The pairs that scores put in order, and a rank where they are the same.
Ranking(S, score, rank) ==
  {p \in S \X S :
     \/ Higher(score[p[1]], score[p[2]])
     \/ Same(score[p[1]], score[p[2]]) /\ rank[p[1]] < rank[p[2]]}

\* They order the set.
LEMMA ByScore ==
  ASSUME NEW S, NEW score \in [S -> Fraction], NEW rank \in [S -> Nat],
         \A x, y \in S : rank[x] = rank[y] => x = y
  PROVE  StrictOrder(Ranking(S, score, rank), S)
<1> DEFINE R == Ranking(S, score, rank)
           up(x, y) == score[x].num * score[y].den
<1>1. \A x \in S : /\ score[x].num \in Nat /\ score[x].den \in Nat \ {0} /\ rank[x] \in Nat
  BY DEF Fraction
<1>2. \A x, y \in S : up(x, y) \in Int
  BY <1>1
<1>3. \A x, y \in S :
        <<x, y>> \in R <=> up(y, x) < up(x, y) \/ (up(x, y) = up(y, x) /\ rank[x] < rank[y])
  <2> SUFFICES ASSUME NEW x \in S, NEW y \in S
               PROVE  <<x, y>> \in R <=> up(y, x) < up(x, y)
                        \/ (up(x, y) = up(y, x) /\ rank[x] < rank[y])
    OBVIOUS
  <2>1. Higher(score[x], score[y]) <=> up(y, x) < up(x, y)
    BY <1>2 DEF Higher
  <2>2. Same(score[x], score[y]) <=> up(x, y) = up(y, x)
    BY DEF Same
  <2> HIDE DEF up
  <2> QED
    BY <2>1, <2>2 DEF Ranking
<1>4. ASSUME NEW x \in S, NEW y \in S, NEW z \in S,
             up(y, x) <= up(x, y), up(z, y) <= up(y, z)
      PROVE  /\ up(z, x) <= up(x, z)
             /\ (up(y, x) < up(x, y) \/ up(z, y) < up(y, z)) => up(z, x) < up(x, z)
  <2> DEFINE a == score[x].num
             b == score[x].den
             c == score[y].num
             d == score[y].den
             e == score[z].num
             f == score[z].den
  <2>1. /\ a \in Nat /\ b \in Nat \ {0} /\ c \in Nat /\ d \in Nat \ {0}
        /\ e \in Nat /\ f \in Nat \ {0}
    BY <1>1
  <2>2. c * b <= a * d /\ e * d <= c * f
    BY <1>4
  <2> HIDE DEF a, b, c, d, e, f
  <2>3. e * b <= a * f /\ ((c * b < a * d \/ e * d < c * f) => e * b < a * f)
    BY <2>1, <2>2, Crossed
  <2> QED
    BY <2>3 DEF a, b, c, d, e, f
<1> HIDE DEF up, R
<1>5. ASSUME NEW x \in S, NEW y \in S, <<x, y>> \in R
      PROVE  <<y, x>> \notin R
  BY <1>1, <1>2, <1>3, <1>5
<1>6. ASSUME NEW x \in S, NEW y \in S, x # y
      PROVE  <<x, y>> \in R \/ <<y, x>> \in R
  <2>1. rank[x] < rank[y] \/ rank[y] < rank[x]
    BY <1>1, <1>6
  <2>2. up(y, x) < up(x, y) \/ up(x, y) < up(y, x) \/ up(x, y) = up(y, x)
    BY <1>2
  <2> QED
    BY <1>3, <2>1, <2>2
<1>7. ASSUME NEW x \in S, NEW y \in S, NEW z \in S, <<x, y>> \in R, <<y, z>> \in R
      PROVE  <<x, z>> \in R
  <2>1. up(y, x) <= up(x, y) /\ up(z, y) <= up(y, z)
    BY <1>2, <1>3, <1>7
  <2>2. /\ up(z, x) <= up(x, z)
        /\ (up(y, x) < up(x, y) \/ up(z, y) < up(y, z)) => up(z, x) < up(x, z)
    BY <1>4, <2>1
  <2>3. CASE up(y, x) < up(x, y) \/ up(z, y) < up(y, z)
    BY <1>3, <2>2, <2>3
  <2>4. CASE ~(up(y, x) < up(x, y) \/ up(z, y) < up(y, z))
    <3>1. rank[x] < rank[y] /\ rank[y] < rank[z]
      BY <1>3, <1>7, <2>4
    <3>2. rank[x] < rank[z]
      BY <1>1, <3>1
    <3>3. up(z, x) < up(x, z) \/ up(z, x) = up(x, z)
      BY <1>2, <2>2
    <3> QED
      BY <1>3, <3>2, <3>3
  <2> QED
    BY <2>3, <2>4
<1>8. StrictOrder(R, S)
  BY <1>5, <1>6, <1>7 DEF StrictOrder
<1> QED
  BY <1>8 DEF R

\* The rankings put what they hold in one order.
LEMMA FusedIsOne ==
  ASSUME NEW kw \in Leg, NEW sem \in Leg
  PROVE  /\ \A x \in Members(kw) \cup Members(sem) : Score(kw, sem, x) \in Fraction
         /\ \E full : Fused(kw, sem) = {full}
<1> DEFINE found == Members(kw) \cup Members(sem)
           score == [x \in found |-> Score(kw, sem, x)]
           rank == [x \in found |-> FirstSeen(kw, sem, x)]
           R == Ranking(found, score, rank)
<1>1. IsFiniteSet(found)
  <2>1. found \subseteq Findable
    BY LegMembers
  <2> QED
    BY <2>1, RecallConstants, FS_Subset
<1>2. ASSUME NEW leg \in Leg
      PROVE  /\ Len(leg) \in Nat
             /\ \A x \in Members(leg) : /\ At(leg, x) \in 1 .. Len(leg)
                                        /\ At(leg, x) \in Nat \ {0}
                                        /\ leg[At(leg, x)] = x
  <2>1. PICK n \in 0 .. PerLeg : leg \in [1 .. n -> Findable]
    BY DEF Leg
  <2>2. n \in Nat /\ Len(leg) = n
    BY <2>1, RankingSizes
  <2>3. ASSUME NEW x \in Members(leg)
        PROVE  At(leg, x) \in DOMAIN leg /\ leg[At(leg, x)] = x
    <3>1. \E i \in DOMAIN leg : leg[i] = x
      BY DEF Members
    <3> QED
      BY <3>1 DEF At
  <2> QED
    BY <2>1, <2>2, <2>3
<1>3. ASSUME NEW x \in found
      PROVE  Score(kw, sem, x) \in Fraction
  <2>1. \A a, b \in Nat \ {0} : SumOf(RRF_K + a, RRF_K + b) \in Fraction
    <3> SUFFICES ASSUME NEW a \in Nat \ {0}, NEW b \in Nat \ {0}
                 PROVE  SumOf(RRF_K + a, RRF_K + b) \in Fraction
      OBVIOUS
    <3>1. RRF_K + a \in Nat \ {0} /\ RRF_K + b \in Nat \ {0}
      BY RankingSizes
    <3>2. \A c, d \in Nat \ {0} : c + d \in Nat /\ c * d \in Nat \ {0}
      BY SMT
    <3> QED
      BY <3>1, <3>2 DEF SumOf, Fraction
  <2>2. \A a \in Nat \ {0} : OneOver(RRF_K + a) \in Fraction
    BY RankingSizes DEF OneOver, Fraction
  <2> QED
    BY <1>2, <2>1, <2>2 DEF Score
<1>4. ASSUME NEW x \in found
      PROVE  FirstSeen(kw, sem, x) \in Nat
  BY <1>2 DEF FirstSeen
<1>5. ASSUME NEW x \in found, NEW y \in found, FirstSeen(kw, sem, x) = FirstSeen(kw, sem, y)
      PROVE  x = y
  <2>1. CASE x \in Members(kw) /\ y \in Members(kw)
    BY <1>2, <1>5, <2>1 DEF FirstSeen
  <2>2. ASSUME NEW u \in Members(kw), NEW v \in Members(sem), v \notin Members(kw)
        PROVE  FirstSeen(kw, sem, u) < FirstSeen(kw, sem, v)
    <3>1. /\ FirstSeen(kw, sem, u) = At(kw, u) /\ FirstSeen(kw, sem, v) = Len(kw) + At(sem, v)
          /\ At(kw, u) \in 1 .. Len(kw) /\ At(sem, v) \in 1 .. Len(sem) /\ Len(kw) \in Nat
          /\ Len(sem) \in Nat
      BY <1>2, <2>2 DEF FirstSeen
    <3> QED
      BY <3>1
  <2>3. CASE x \notin Members(kw) /\ y \notin Members(kw)
    <3>1. /\ At(sem, x) \in Nat /\ At(sem, y) \in Nat /\ Len(kw) \in Nat
          /\ sem[At(sem, x)] = x /\ sem[At(sem, y)] = y
      BY <1>2, <2>3
    <3>2. Len(kw) + At(sem, x) = Len(kw) + At(sem, y)
      BY <1>5, <2>3 DEF FirstSeen
    <3>3. At(sem, x) = At(sem, y)
      BY <3>1, <3>2
    <3> QED
      BY <3>1, <3>3
  <2> QED
    BY <1>4, <1>5, <2>1, <2>2, <2>3
<1>6. StrictOrder(R, found)
  <2>1. score \in [found -> Fraction] /\ rank \in [found -> Nat]
    BY <1>3, <1>4
  <2>2. \A x, y \in found : rank[x] = rank[y] => x = y
    BY <1>5
  <2> HIDE DEF found, score, rank
  <2> QED
    BY <2>1, <2>2, ByScore
<1>7. \A x, y \in found : <<x, y>> \in R <=> Ahead(kw, sem, x, y)
  BY DEF Ahead, Ranking
<1>8. Fused(kw, sem) = {s \in Listings(found) : InOrder(s, R)}
  <2>1. ASSUME NEW s \in Listings(found)
        PROVE  /\ DOMAIN s = 1 .. Cardinality(found)
               /\ \A i \in DOMAIN s : s[i] \in found
    BY DEF Listings
  <2>2. Fused(kw, sem) = {s \in Listings(found) :
          \A i, j \in DOMAIN s : i < j => Ahead(kw, sem, s[i], s[j])}
    BY DEF Fused
  <2> HIDE DEF R, found
  <2>3. ASSUME NEW s \in Listings(found)
        PROVE  (\A i, j \in DOMAIN s : i < j => Ahead(kw, sem, s[i], s[j])) <=> InOrder(s, R)
    BY <1>7, <2>1 DEF InOrder
  <2> QED
    BY <2>2, <2>3
<1> HIDE DEF found, R
<1>9. PICK s \in Listings(found) : InOrder(s, R)
  BY <1>1, <1>6, OrderExists
<1>10. \A t \in Listings(found) : InOrder(t, R) => t = s
  BY <1>1, <1>6, <1>9, OrderUnique
<1>11. Fused(kw, sem) = {s}
  BY <1>8, <1>9, <1>10
<1> QED
  BY <1>3, <1>11 DEF found

\* A finite set has a part of every smaller size.
LEMMA PartExists ==
  ASSUME NEW S, IsFiniteSet(S), NEW n \in Nat, n <= Cardinality(S)
  PROVE  \E T \in SUBSET S : Cardinality(T) = n
<1> DEFINE K == {k \in Nat : k <= Cardinality(S) =>
                   \E T \in SUBSET S : IsFiniteSet(T) /\ Cardinality(T) = k}
<1>1. 0 \in K
  <2>1. {} \in SUBSET S /\ IsFiniteSet({}) /\ Cardinality({}) = 0
    BY FS_EmptySet
  <2> QED
    BY <2>1
<1>2. ASSUME NEW k \in Nat, k \in K
      PROVE  k + 1 \in K
  <2> SUFFICES ASSUME k + 1 <= Cardinality(S)
               PROVE  \E T \in SUBSET S : IsFiniteSet(T) /\ Cardinality(T) = k + 1
    OBVIOUS
  <2>1. Cardinality(S) \in Nat
    BY FS_CardinalityType
  <2>2. PICK T \in SUBSET S : IsFiniteSet(T) /\ Cardinality(T) = k
    BY <1>2, <2>1
  <2>3. PICK x \in S : x \notin T
    <3>1. T # S
      BY <2>1, <2>2
    <3> QED
      BY <3>1
  <2>4. IsFiniteSet(T \cup {x}) /\ Cardinality(T \cup {x}) = k + 1
    BY <2>2, <2>3, FS_AddElement
  <2> QED
    BY <2>3, <2>4
<1> HIDE DEF K
<1>3. n \in K
  BY <1>1, <1>2, EveryNumber
<1> QED
  BY <1>3 DEF K

\* The facts a limited query returns are some facts.
LEMMA LimitedPart ==
  ASSUME NEW S \in SUBSET Fact, NEW limit \in Nat
  PROVE  \E T \in SUBSET S : Cardinality(T) = SmallerOf(Cardinality(S), limit)
<1>1. IsFiniteSet(S)
  BY RecallConstants, FS_Subset
<1>2. /\ SmallerOf(Cardinality(S), limit) \in Nat
      /\ SmallerOf(Cardinality(S), limit) <= Cardinality(S)
  BY <1>1, FS_CardinalityType DEF SmallerOf
<1> QED
  BY <1>1, <1>2, PartExists

\* Facts can be listed.
LEMMA FactsListed ==
  ASSUME NEW S \in SUBSET Fact
  PROVE  Listings(S) # {}
<1> DEFINE R == {p \in S \X S : p[1] < p[2]}
<1>1. IsFiniteSet(S) /\ S \subseteq Nat
  BY RecallConstants, FS_Subset
<1>2. \A x, y \in S : <<x, y>> \in R <=> x < y
  OBVIOUS
<1> HIDE DEF R
<1>3. StrictOrder(R, S)
  BY <1>1, <1>2 DEF StrictOrder
<1> QED
  BY <1>1, <1>3, OrderExists

\* What can be reached from the fused items is a sequence of facts, and there
\* is one.
LEMMA IdsExist ==
  ASSUME NEW fused \in Seq(Item)
  PROVE  /\ RankedFactIds(fused) # {}
         /\ RankedFactIds(fused) \subseteq Seq(Fact)
<1> DEFINE direct == RefsOf(fused, "fact")
           had == Members(direct)
           byEpisode == SupportedBy(FirstOf(RefsOf(fused, "episode"), MaxLookup)) \ had
           part == TakingPart(FirstOf(RefsOf(fused, "entity"), MaxLookup))
<1>1. PICK T \in SUBSET part : Cardinality(T) = SmallerOf(Cardinality(part), MaxFactIds)
  <2>1. part \in SUBSET Fact
    BY DEF TakingPart
  <2> HIDE DEF part
  <2> QED
    BY <2>1, LimitedPart, RankingSizes
<1>2. T \in ReadOf(part) /\ T \subseteq Fact
  BY <1>1 DEF ReadOf, TakingPart
<1>3. byEpisode \in SUBSET Fact /\ T \ (had \cup byEpisode) \in SUBSET Fact
  BY <1>2 DEF SupportedBy
<1>4. PICK a \in Listings(byEpisode), b \in Listings(T \ (had \cup byEpisode)) : TRUE
  BY <1>3, FactsListed
<1>5. Indirect(fused, had) # {}
  <2> DEFINE pairs(U) == Listings(byEpisode) \X Listings(U \ (had \cup byEpisode))
             all == UNION {pairs(U) : U \in ReadOf(part)}
  <2>1. <<a, b>> \in pairs(T)
    BY <1>4
  <2>2. <<a, b>> \in all
    <3> HIDE DEF pairs, part
    <3> QED
      BY <1>2, <2>1
  <2>3. Indirect(fused, had) = {lists[1] \o lists[2] : lists \in all}
    BY DEF Indirect
  <2> HIDE DEF all
  <2> QED
    BY <2>2, <2>3
<1>6. direct \in Seq(Fact)
  BY FactRefs
<1>7. RankedFactIds(fused) = {FirstOf(direct \o s, MaxFactIds) : s \in Indirect(fused, had)}
  BY DEF RankedFactIds
<1>8. ASSUME NEW s \in Indirect(fused, had)
      PROVE  FirstOf(direct \o s, MaxFactIds) \in Seq(Fact)
  <2>1. s \in Seq(Fact)
    BY IndirectFacts
  <2>2. direct \o s \in Seq(Fact) /\ MaxFactIds \in Nat
    BY <1>6, <2>1, RankingSizes
  <2> QED
    BY <2>2, StartLength
<1> HIDE DEF direct, had
<1> QED
  BY <1>5, <1>7, <1>8

\* The facts that are read have one order, whatever led to them.
LEMMA SortedIsOne ==
  ASSUME NEW kw \in Leg, NEW sem \in Leg, NEW fused \in Seq(Members(kw) \cup Members(sem)),
         NEW ids \in Seq(Fact), NEW S \in SUBSET Members(ids)
  PROVE  \E sorted : Sorted(kw, sem, fused, ids, S) = {sorted}
<1> DEFINE score == [f \in S |-> FinalScore(kw, sem, fused, ids, f)]
           rank == [f \in S |-> f]
           R == Ranking(S, score, rank)
<1>1. S \subseteq Fact /\ IsFiniteSet(S) /\ S \subseteq Nat
  <2>1. Members(ids) \subseteq Fact
    BY DEF Members
  <2> QED
    BY <2>1, RecallConstants, FS_Subset
<1>2. ASSUME NEW f \in S
      PROVE  FinalScore(kw, sem, fused, ids, f) \in Fraction
  <2>1. Members(fused) \subseteq Members(kw) \cup Members(sem)
    BY DEF Members
  <2>2. \A x \in Members(fused) : Score(kw, sem, x) \in Fraction
    BY <2>1, FusedIsOne
  <2>3. OneOver(1 + Len(fused) + At(ids, f) - 1) \in Fraction
    <3>1. At(ids, f) \in DOMAIN ids
      <4>1. \E i \in DOMAIN ids : ids[i] = f
        BY DEF Members
      <4> QED
        BY <4>1 DEF At
    <3>2. Len(fused) \in Nat /\ At(ids, f) \in Nat \ {0}
      BY <3>1
    <3>3. 1 + Len(fused) + At(ids, f) - 1 \in Nat \ {0}
      BY <3>2
    <3> QED
      BY <3>3 DEF OneOver, Fraction
  <2> QED
    BY <2>2, <2>3 DEF FinalScore
<1>3. StrictOrder(R, S)
  <2>1. score \in [S -> Fraction] /\ rank \in [S -> Nat]
    BY <1>1, <1>2
  <2>2. \A x, y \in S : rank[x] = rank[y] => x = y
    OBVIOUS
  <2> HIDE DEF score, rank
  <2> QED
    BY <2>1, <2>2, ByScore
<1>4. \A f, g \in S : <<f, g>> \in R <=> Above(kw, sem, fused, ids, f, g)
  BY DEF Above, Ranking
<1>5. Sorted(kw, sem, fused, ids, S) = {s \in Listings(S) : InOrder(s, R)}
  <2>1. ASSUME NEW s \in Listings(S)
        PROVE  /\ DOMAIN s = 1 .. Cardinality(S)
               /\ \A i \in DOMAIN s : s[i] \in S
    BY DEF Listings
  <2> HIDE DEF R
  <2>2. ASSUME NEW s \in Listings(S)
        PROVE  (\A i, j \in DOMAIN s : i < j => Above(kw, sem, fused, ids, s[i], s[j]))
                 <=> InOrder(s, R)
    BY <1>4, <2>1 DEF InOrder
  <2> QED
    BY <2>2 DEF Sorted
<1> HIDE DEF R
<1>6. PICK s \in Listings(S) : InOrder(s, R)
  BY <1>1, <1>3, OrderExists
<1>7. \A t \in Listings(S) : InOrder(t, R) => t = s
  BY <1>1, <1>3, <1>6, OrderUnique
<1> QED
  BY <1>5, <1>6, <1>7

\* Whatever the searches return, an answer exists; the two rankings fix the
\* order of what is found, and what is found and read fixes the order of the
\* results.
OneOrder ==
  \A sem \in Leg : \E full :
    /\ Fused(asked.keyword, sem) = {full}
    /\ LET fused == FirstOf(full, MaxFused)
       IN /\ RankedFactIds(fused) # {}
          /\ \A ids \in RankedFactIds(fused) : \E sorted :
               /\ Sorted(asked.keyword, sem, fused, ids, Read(ids)) = {sorted}
               /\ Neighbours(FirstOf(sorted, Limit)) # {}

\* No question is left without an answer, and two answers to a question can
\* differ in order only by what was found or read: no two fused items, and no
\* two results, are level (rrf.ts:24-26, recall.ts:207-217).
THEOREM EveryQuestionHasAnAnswer == Spec => []OneOrder
<1>1. RecallInv => OneOrder
  <2> SUFFICES ASSUME RecallInv, NEW sem \in Leg
               PROVE  \E full :
                 /\ Fused(asked.keyword, sem) = {full}
                 /\ RankedFactIds(FirstOf(full, MaxFused)) # {}
                 /\ \A ids \in RankedFactIds(FirstOf(full, MaxFused)) : \E sorted :
                      /\ Sorted(asked.keyword, sem, FirstOf(full, MaxFused), ids, Read(ids))
                           = {sorted}
                      /\ Neighbours(FirstOf(sorted, Limit)) # {}
    BY DEF OneOrder
  <2> DEFINE kw == asked.keyword
             found == Members(kw) \cup Members(sem)
  <2>1. kw \in Leg
    BY DEF RecallInv
  <2>2. PICK full : Fused(kw, sem) = {full}
    BY <2>1, FusedIsOne
  <2> DEFINE fused == FirstOf(full, MaxFused)
  <2>3. IsFiniteSet(found) /\ found \subseteq Item
    <3>1. found \subseteq Findable
      BY <2>1, LegMembers
    <3> QED
      BY <3>1, RecallConstants, FS_Subset
  <2>4. full \in Seq(found)
    BY <2>2, <2>3, ListingIsSequence DEF Fused
  <2>5. fused \in Seq(found) /\ fused \in Seq(Item)
    <3> HIDE DEF found
    <3>1. fused \in Seq(found)
      BY <2>4, StartLength, RankingSizes
    <3> QED
      BY <2>3, <3>1
  <2> HIDE DEF fused
  <2>6. RankedFactIds(fused) # {} /\ RankedFactIds(fused) \subseteq Seq(Fact)
    BY <2>5, IdsExist
  <2>7. ASSUME NEW ids \in RankedFactIds(fused)
        PROVE  \E sorted : /\ Sorted(kw, sem, fused, ids, Read(ids)) = {sorted}
                           /\ Neighbours(FirstOf(sorted, Limit)) # {}
    <3>1. Read(ids) \in SUBSET Members(ids) /\ ids \in Seq(Fact)
      BY <2>6 DEF Read
    <3>2. PICK sorted : Sorted(kw, sem, fused, ids, Read(ids)) = {sorted}
      <4> HIDE DEF kw
      <4>1. \A u, v \in Leg : \A c \in Seq(Members(u) \cup Members(v)), i \in Seq(Fact) :
              \A S \in SUBSET Members(i) : \E s : Sorted(u, v, c, i, S) = {s}
        BY SortedIsOne
      <4>2. \A c \in Seq(found), i \in Seq(Fact) : \A S \in SUBSET Members(i) :
              \E s : Sorted(kw, sem, c, i, S) = {s}
        BY <2>1, <4>1, Zenon
      <4> HIDE DEF found
      <4>3. \A i \in Seq(Fact) : \A S \in SUBSET Members(i) :
              \E s : Sorted(kw, sem, fused, i, S) = {s}
        BY <2>5, <4>2, Zenon
      <4> QED
        BY <3>1, <4>3, Zenon
    <3> DEFINE results == FirstOf(sorted, Limit)
               near == {f \in Current(asked.asOf) : Members(Ends[f]) \cap Keys(results) # {}}
    <3>3. near \in SUBSET Fact
      BY DEF Current
    <3>4. PICK T \in SUBSET near : Cardinality(T) = SmallerOf(Cardinality(near), MaxRelated)
      <4> HIDE DEF near
      <4> QED
        BY <3>3, LimitedPart, RecallConstants
    <3>5. T \ Members(results) \in Neighbours(results)
      BY <3>4 DEF Neighbours
    <3> QED
      BY <3>2, <3>5
  <2> QED
    BY <2>2, <2>6, <2>7 DEF fused
<1> QED
  BY <1>1, AskedIsInView, PTL
=============================================================================
