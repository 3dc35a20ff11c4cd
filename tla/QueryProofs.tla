---------------------------- MODULE QueryProofs ----------------------------
(***************************************************************************)
(* What the queries of one client's memory answer, and what verification   *)
(* finds of a log that was changed, for a store and a log of any size.     *)
(* The walk of the graph and the hashes of the log are computed step by    *)
(* step; what they are at every step is shown by taking the least one at   *)
(* which it would fail.                                                    *)
(***************************************************************************)
EXTENDS FactPromises, AuditChain, NumberedSteps

-----------------------------------------------------------------------------
(* The levels of a walk *)

\* f lists the entities of each depth.
Levels(f, k, depth, cur) ==
  f = [d \in 0 .. depth |-> IF d = 0 THEN {k} ELSE Across(f[d - 1], cur)]

LEMMA LevelsExist ==
  ASSUME NEW k, NEW cur
  PROVE  \A depth \in Nat : \E f : Levels(f, k, depth, cur)
<1> DEFINE S == {n \in Nat : \E f : Levels(f, k, n, cur)}
<1>1. 0 \in S
  <2> DEFINE f == [d \in 0 .. 0 |-> {k}]
  <2>1. Levels(f, k, 0, cur)
    BY DEF Levels
  <2> QED
    BY <2>1
<1>2. ASSUME NEW n \in Nat, n \in S
      PROVE  n + 1 \in S
  <2>1. PICK f : Levels(f, k, n, cur)
    BY <1>2
  <2> DEFINE g == [d \in 0 .. n + 1 |-> IF d = n + 1 THEN Across(f[n], cur) ELSE f[d]]
  <2>2. \A d \in 0 .. n : f[d] = IF d = 0 THEN {k} ELSE Across(f[d - 1], cur)
    BY <2>1, Zenon DEF Levels
  <2>3. ASSUME NEW d \in 0 .. n + 1
        PROVE  g[d] = IF d = 0 THEN {k} ELSE Across(g[d - 1], cur)
    <3>1. CASE d = n + 1
      <4>1. g[d] = Across(f[n], cur) /\ d # 0
        BY <3>1
      <4>2. g[d - 1] = f[n]
        BY <3>1
      <4> QED
        BY <4>1, <4>2
    <3>2. CASE d # n + 1
      <4>1. d \in 0 .. n /\ g[d] = f[d]
        BY <3>2
      <4>2. d # 0 => g[d - 1] = f[d - 1]
        BY <3>2
      <4> QED
        BY <2>2, <4>1, <4>2
    <3> QED
      BY <3>1, <3>2
  <2>4. g = [d \in 0 .. n + 1 |-> IF d = 0 THEN {k} ELSE Across(g[d - 1], cur)]
    <3> DEFINE G == [d \in 0 .. n + 1 |-> IF d = 0 THEN {k} ELSE Across(g[d - 1], cur)]
    <3>1. DOMAIN g = DOMAIN G /\ \A d \in 0 .. n + 1 : g[d] = G[d]
      BY <2>3
    <3> QED
      BY <3>1
  <2> HIDE DEF g
  <2>5. Levels(g, k, n + 1, cur)
    BY <2>4 DEF Levels
  <2> QED
    BY <2>5
<1> HIDE DEF S
<1>3. Nat \subseteq S
  BY <1>1, <1>2, EveryNumber
<1> QED
  BY <1>3 DEF S

\* The walk starts at k and takes one step per depth.
LEMMA WalkSteps ==
  ASSUME NEW k, NEW depth \in Nat, NEW cur
  PROVE  /\ Walk(k, depth, cur)[0] = {k}
         /\ \A d \in 1 .. depth :
              Walk(k, depth, cur)[d] = Across(Walk(k, depth, cur)[d - 1], cur)
<1> DEFINE f == Walk(k, depth, cur)
<1>1. f = CHOOSE h : Levels(h, k, depth, cur)
  BY DEF Walk, Levels
<1> HIDE DEF f
<1>2. Levels(f, k, depth, cur)
  BY <1>1, LevelsExist
<1>3. \A d \in 0 .. depth : f[d] = IF d = 0 THEN {k} ELSE Across(f[d - 1], cur)
  BY <1>2, Zenon DEF Levels
<1>4. 0 \in 0 .. depth /\ \A d \in 1 .. depth : d \in 0 .. depth /\ d # 0
  OBVIOUS
<1> QED
  BY <1>3, <1>4 DEF f

-----------------------------------------------------------------------------
(* Levels and paths *)

\* A path of d current facts leads from k to e.
Path(stops, k, d, ps) ==
  LET stop(i) == IF i = 0 THEN k ELSE stops[i]
  IN \A i \in 1 .. d : Joined(stop(i - 1), stop(i), ps)

LeadsTo(e, k, d, ps) ==
  \E stops \in [1 .. d -> entities] :
    /\ Path(stops, k, d, ps)
    /\ e = IF d = 0 THEN k ELSE stops[d]

\* A granted row was confirmed, and a closed one closed, by now.
LEMMA DecidedByNow ==
  ASSUME IInv, NEW f \in DOMAIN facts
  PROVE  /\ Granted(facts[f]) => facts[f].confirmedAt <= clock
         /\ facts[f].status = "superseded" => facts[f].supersededAt <= clock
<1>1. ASSUME NEW g \in DOMAIN facts, Granted(facts[g])
      PROVE  facts[g].confirmedAt <= clock
  <2>1. facts[g].decisionSeq # Null
    BY <1>1 DEF IInv, RowsAgree, RowOK, Granted
  <2>2. /\ facts[g].decisionSeq \in DOMAIN audit
        /\ audit[facts[g].decisionSeq].at = facts[g].confirmedAt
    BY <1>1, <2>1 DEF IInv, DecisionsAgree, Standing
  <2>3. audit[facts[g].decisionSeq].at \in 1 .. clock
    BY <2>2 DEF IInv, LogForward
  <2> QED
    BY <2>2, <2>3
<1>2. ASSUME facts[f].status = "superseded"
      PROVE  facts[f].supersededAt <= clock
  <2>1. /\ facts[f].supersededBy \in DOMAIN facts
        /\ Granted(facts[facts[f].supersededBy])
        /\ facts[f].supersededAt = facts[facts[f].supersededBy].confirmedAt
    BY <1>2 DEF IInv, RowsAgree, CloserOK, ClosedLater
  <2> QED
    BY <1>1, <2>1
<1> QED
  BY <1>1, <1>2

\* What the graph may walk is what a reader would call current.
LEMMA WalkableIsCurrent ==
  ASSUME IInv, NEW ps
  PROVE  Walkable(ps) = {f \in CurrentAt(clock) : facts[f].predicate \in ps}
<1>1. ASSUME NEW f \in DOMAIN facts
      PROVE  /\ facts[f].status = "trusted" => facts[f].confirmedAt <= clock
             /\ ~(facts[f].status = "superseded" /\ facts[f].supersededAt > clock)
  <2>1. facts[f].supersededAt \in Nat /\ clock \in Nat
    BY DEF IInv, TypeOK, Fact
  <2> QED
    BY <2>1, DecidedByNow DEF Granted
<1> QED
  BY <1>1 DEF Walkable, CurrentAt, ShownAt

\* A step of the walk is a current fact, and leads to an entity with a row.
LEMMA AcrossIsJoined ==
  ASSUME IInv, ReferencesOK, NEW ps, NEW ks, NEW e
  PROVE  /\ e \in Across(ks, Walkable(ps)) <=> \E h \in ks : Joined(h, e, ps)
         /\ e \in Across(ks, Walkable(ps)) => e \in entities
<1>1. Walkable(ps) = {f \in CurrentAt(clock) : facts[f].predicate \in ps}
  BY WalkableIsCurrent
<1>2. CurrentAt(clock) \subseteq DOMAIN facts
  BY DEF CurrentAt
<1>3. ASSUME NEW h, NEW f \in Walkable(ps), Touches(f, h)
      PROVE  {facts[f].subject, facts[f].object} = {h, OtherEnd(f, h)}
  BY <1>3 DEF Touches, OtherEnd
<1>4. ASSUME e \in Across(ks, Walkable(ps))
      PROVE  e \in entities /\ \E h \in ks : Joined(h, e, ps)
  <2>1. PICK h \in ks, f \in Walkable(ps) : Touches(f, h) /\ e = OtherEnd(f, h)
    BY <1>4 DEF Across
  <2>2. e \in {facts[f].subject, facts[f].object} /\ f \in DOMAIN facts
    BY <1>1, <1>2, <2>1 DEF OtherEnd
  <2>3. e \in entities
    BY <2>2 DEF ReferencesOK
  <2>4. Joined(h, e, ps)
    BY <1>1, <1>3, <2>1 DEF Joined
  <2> QED
    BY <2>3, <2>4
<1>5. ASSUME NEW h \in ks, Joined(h, e, ps)
      PROVE  e \in Across(ks, Walkable(ps))
  <2>1. PICK f \in Walkable(ps) : {facts[f].subject, facts[f].object} = {h, e}
    BY <1>1, <1>5 DEF Joined
  <2>2. Touches(f, h) /\ OtherEnd(f, h) = e
    BY <2>1 DEF Touches, OtherEnd
  <2> QED
    BY <2>2 DEF Across
<1> QED
  BY <1>4, <1>5

\* The entities of depth d are those a path of d current facts leads to.
LEMMA LevelsArePaths ==
  ASSUME IInv, ReferencesOK, NEW k, NEW depth \in Nat, NEW ps
  PROVE  \A d \in 0 .. depth : \A e :
           e \in Walk(k, depth, Walkable(ps))[d] <=> LeadsTo(e, k, d, ps)
<1> DEFINE cur == Walkable(ps)
           walk == Walk(k, depth, cur)
           S == {n \in Nat : n <= depth => \A e : e \in walk[n] <=> LeadsTo(e, k, n, ps)}
<1>0. walk[0] = {k} /\ \A d \in 1 .. depth : walk[d] = Across(walk[d - 1], cur)
  BY WalkSteps
<1> HIDE DEF walk
<1>1. 0 \in S
  <2>1. ASSUME NEW e
        PROVE  LeadsTo(e, k, 0, ps) <=> e = k
    <3> DEFINE none == [i \in 1 .. 0 |-> k]
    <3>1. none \in [1 .. 0 -> entities] /\ Path(none, k, 0, ps)
      BY DEF Path
    <3> HIDE DEF none
    <3> QED
      BY <3>1 DEF LeadsTo
  <2> QED
    BY <1>0, <2>1
<1>2. ASSUME NEW n \in Nat, n \in S
      PROVE  n + 1 \in S
  <2> SUFFICES ASSUME n + 1 <= depth, NEW e
               PROVE  e \in walk[n + 1] <=> LeadsTo(e, k, n + 1, ps)
    BY DEF S
  <2>1. \A h : h \in walk[n] <=> LeadsTo(h, k, n, ps)
    BY <1>2
  <2>2. walk[n + 1] = Across(walk[n], cur)
    BY <1>0
  <2>3. /\ e \in walk[n + 1] <=> \E h \in walk[n] : Joined(h, e, ps)
        /\ e \in walk[n + 1] => e \in entities
    BY <2>2, AcrossIsJoined
  <2>4. ASSUME NEW h, LeadsTo(h, k, n, ps), Joined(h, e, ps), e \in entities
        PROVE  LeadsTo(e, k, n + 1, ps)
    <3>1. PICK stops \in [1 .. n -> entities] :
            Path(stops, k, n, ps) /\ h = IF n = 0 THEN k ELSE stops[n]
      BY <2>4 DEF LeadsTo
    <3> DEFINE more == [i \in 1 .. n + 1 |-> IF i = n + 1 THEN e ELSE stops[i]]
    <3>2. more \in [1 .. n + 1 -> entities] /\ more[n + 1] = e
      BY <2>4
    <3>3. \A i \in 1 .. n : more[i] = stops[i]
      OBVIOUS
    <3> HIDE DEF more
    <3>4. ASSUME NEW i \in 1 .. n + 1
          PROVE  Joined(IF i - 1 = 0 THEN k ELSE more[i - 1], IF i = 0 THEN k ELSE more[i], ps)
      <4>1. CASE i = n + 1
        <5>1. (IF i - 1 = 0 THEN k ELSE more[i - 1]) = h
          BY <3>1, <3>3, <4>1
        <5>2. (IF i = 0 THEN k ELSE more[i]) = e
          BY <3>2, <4>1
        <5> QED
          BY <2>4, <5>1, <5>2
      <4>2. CASE i # n + 1
        <5>1. i \in 1 .. n /\ (i - 1 = 0 \/ i - 1 \in 1 .. n)
          BY <4>2
        <5>2. Joined(IF i - 1 = 0 THEN k ELSE stops[i - 1], IF i = 0 THEN k ELSE stops[i], ps)
          BY <3>1, <5>1, Zenon DEF Path
        <5>3. /\ (IF i - 1 = 0 THEN k ELSE more[i - 1]) = (IF i - 1 = 0 THEN k ELSE stops[i - 1])
              /\ (IF i = 0 THEN k ELSE more[i]) = (IF i = 0 THEN k ELSE stops[i])
          BY <3>3, <5>1
        <5> QED
          BY <5>2, <5>3
      <4> QED
        BY <4>1, <4>2
    <3>5. Path(more, k, n + 1, ps)
      BY <3>4, Zenon DEF Path
    <3>6. e = IF n + 1 = 0 THEN k ELSE more[n + 1]
      BY <3>2
    <3> QED
      BY <3>2, <3>5, <3>6 DEF LeadsTo
  <2>5. ASSUME LeadsTo(e, k, n + 1, ps)
        PROVE  \E h : LeadsTo(h, k, n, ps) /\ Joined(h, e, ps)
    <3>1. PICK stops \in [1 .. n + 1 -> entities] :
            Path(stops, k, n + 1, ps) /\ e = IF n + 1 = 0 THEN k ELSE stops[n + 1]
      BY <2>5 DEF LeadsTo
    <3>2. \A i \in 1 .. n + 1 :
            Joined(IF i - 1 = 0 THEN k ELSE stops[i - 1], IF i = 0 THEN k ELSE stops[i], ps)
      BY <3>1, Zenon DEF Path
    <3> DEFINE less == [i \in 1 .. n |-> stops[i]]
               h == IF n = 0 THEN k ELSE stops[n]
    <3>3. less \in [1 .. n -> entities] /\ h = IF n = 0 THEN k ELSE less[n]
      OBVIOUS
    <3>4. ASSUME NEW i \in 1 .. n
          PROVE  Joined(IF i - 1 = 0 THEN k ELSE less[i - 1], IF i = 0 THEN k ELSE less[i], ps)
      <4>1. i \in 1 .. n + 1 /\ (i - 1 = 0 \/ i - 1 \in 1 .. n)
        OBVIOUS
      <4>2. /\ (IF i - 1 = 0 THEN k ELSE less[i - 1]) = (IF i - 1 = 0 THEN k ELSE stops[i - 1])
            /\ (IF i = 0 THEN k ELSE less[i]) = (IF i = 0 THEN k ELSE stops[i])
        BY <4>1
      <4> QED
        BY <3>2, <4>1, <4>2
    <3> HIDE DEF less
    <3>5. Path(less, k, n, ps)
      BY <3>4, Zenon DEF Path
    <3>6. Joined(h, e, ps)
      <4>1. n + 1 \in 1 .. n + 1 /\ (n + 1) - 1 = n /\ n + 1 # 0
        OBVIOUS
      <4> QED
        BY <3>1, <3>2, <4>1
    <3>7. LeadsTo(h, k, n, ps)
      BY <3>3, <3>5 DEF LeadsTo
    <3> QED
      BY <3>6, <3>7
  <2> QED
    BY <2>1, <2>3, <2>4, <2>5
<1> HIDE DEF S
<1>3. Nat \subseteq S
  BY <1>1, <1>2, EveryNumber
<1>4. \A d \in 0 .. depth : d \in Nat /\ d <= depth
  OBVIOUS
<1> QED
  BY <1>3, <1>4 DEF S, walk

\* The facts the graph finds are those within the steps asked for.
LEMMA FoundIsNear ==
  ASSUME IInv, ReferencesOK, NEW k, NEW n \in Nat \ {0}, NEW ps, NEW f
  PROVE  (\E e \in Reached(k, n, Walkable(ps)) : Touches(f, e)) <=> WithinReach(f, k, n, ps)
<1> DEFINE walk == Walk(k, n, Walkable(ps))
<1>1. \A d \in 0 .. n - 1 : \A e : e \in walk[d] <=> LeadsTo(e, k, d, ps)
  <2>1. \A d \in 0 .. n : \A e : e \in walk[d] <=> LeadsTo(e, k, d, ps)
    BY LevelsArePaths
  <2> QED
    BY <2>1
<1>2. Reached(k, n, Walkable(ps)) = UNION {walk[d] : d \in 0 .. n - 1}
  BY DEF Reached
<1> HIDE DEF walk
<1>3. \A e : e \in Reached(k, n, Walkable(ps)) <=> \E d \in 0 .. n - 1 : LeadsTo(e, k, d, ps)
  BY <1>1, <1>2
<1>4. WithinReach(f, k, n, ps)
        <=> \E m \in 0 .. n - 1 : \E e : LeadsTo(e, k, m, ps) /\ Touches(f, e)
  BY Zenon DEF WithinReach, LeadsTo, Path
<1> QED
  BY <1>3, <1>4

-----------------------------------------------------------------------------
(* Lists with a LIMIT *)

\* A list of the n newest, or oldest, holds all of them or n.
LEMMA LimitOf ==
  ASSUME NEW fs, IsFiniteSet(fs), NEW n \in Nat, NEW K \in Newest(fs, n) \cup Oldest(fs, n)
  PROVE  /\ K \subseteq fs
         /\ Cardinality(fs) \in Nat
         /\ Cardinality(fs) <= n => K = fs
         /\ Cardinality(fs) > n => Cardinality(K) = n
<1>1. K \subseteq fs /\ Cardinality(K) = SizeWithin(fs, n)
  BY DEF Newest, Oldest
<1>2. Cardinality(fs) \in Nat
  BY FS_CardinalityType
<1>3. ASSUME Cardinality(fs) <= n
      PROVE  K = fs
  <2>1. Cardinality(fs) = Cardinality(K) /\ K \in SUBSET fs
    BY <1>1, <1>3 DEF SizeWithin
  <2> QED
    BY <2>1, FS_Subset
<1>4. Cardinality(fs) > n => Cardinality(K) = n
  BY <1>1, <1>2 DEF SizeWithin
<1> QED
  BY <1>1, <1>2, <1>3, <1>4

\* One that is shorter than its limit holds all of them.
LEMMA ShortIsWhole ==
  ASSUME NEW fs, IsFiniteSet(fs), NEW n \in Nat, NEW K \in Newest(fs, n) \cup Oldest(fs, n),
         Cardinality(K) < n
  PROVE  K = fs
<1>1. /\ Cardinality(fs) \in Nat
      /\ Cardinality(fs) <= n => K = fs
      /\ Cardinality(fs) > n => Cardinality(K) = n
  BY LimitOf
<1>2. CASE Cardinality(fs) <= n
  BY <1>1, <1>2
<1>3. CASE Cardinality(fs) > n
  <2>1. Cardinality(K) = n
    BY <1>1, <1>3
  <2> QED
    BY <2>1
<1> QED
  BY <1>1, <1>2, <1>3

\* A list of the newest leaves out nothing newer, of any part of what it is
\* taken from.
LEMMA NewestLeavesOlder ==
  ASSUME NEW fs, NEW n, NEW K \in Newest(fs, n), NEW part \in SUBSET fs
  PROVE  LeavesOutOlder(K, part)
BY DEF Newest, LeavesOutOlder

LEMMA LimitsAreNatural ==
  ASSUME NEW limit \in AskedLimit
  PROVE  ListLimit(limit) \in Nat
<1>1. limit \in Nat
  BY QuerySizes DEF AskedLimit, Null
<1> QED
  BY <1>1, QuerySizes DEF ListLimit, ClampLimit

\* A graph whose edges are the newest of fs shows fs.
LEMMA GraphShows ==
  ASSUME NEW fs, IsFiniteSet(fs), NEW K \in Newest(fs, MaxGraphEdges), NEW graph,
         graph = [edges |-> K, truncated |-> Cardinality(fs) > MaxGraphEdges]
  PROVE  ShowsOf(graph, fs)
<1>1. MaxGraphEdges \in Nat
  BY QuerySizes
<1>2. /\ K \subseteq fs /\ Cardinality(fs) \in Nat
      /\ Cardinality(fs) <= MaxGraphEdges => K = fs
      /\ Cardinality(fs) > MaxGraphEdges => Cardinality(K) = MaxGraphEdges
  BY <1>1, LimitOf
<1>3. graph.edges = K /\ graph.truncated = (Cardinality(fs) > MaxGraphEdges)
  OBVIOUS
<1>4. CASE Cardinality(fs) > MaxGraphEdges
  <2>1. K # fs
    BY <1>1, <1>2, <1>4
  <2>2. LeavesOutOlder(K, fs)
    BY NewestLeavesOlder
  <2> QED
    BY <1>2, <1>3, <1>4, <2>1, <2>2, Zenon DEF ShowsOf
<1>5. CASE ~(Cardinality(fs) > MaxGraphEdges)
  <2>1. K = fs
    BY <1>1, <1>2, <1>5
  <2>2. LeavesOutOlder(K, fs)
    BY NewestLeavesOlder
  <2> QED
    BY <1>2, <1>3, <1>5, <2>1, <2>2, Zenon DEF ShowsOf
<1> QED
  BY <1>4, <1>5

\* At every depth, and for every set of predicates, the graph shows the
\* current facts within reach, all of them or MaxGraphEdges of the newest, and
\* says which.
THEOREM GraphWithin ==
  ASSUME IInv, ReferencesOK, Recorded, NEW k, NEW n \in Nat \ {0}, NEW ps,
         NEW graph \in ExploreGraph(k, n, ps)
  PROVE  ShowsOf(graph, {f \in CurrentAt(clock) :
                           facts[f].predicate \in ps /\ WithinReach(f, k, n, ps)})
<1> DEFINE near == {f \in CurrentAt(clock) :
                      facts[f].predicate \in ps /\ WithinReach(f, k, n, ps)}
           cur == Walkable(ps)
           found == {f \in cur : \E e \in Reached(k, n, cur) : Touches(f, e)}
<1>1. found = near
  <2>1. \A f : (\E e \in Reached(k, n, cur) : Touches(f, e)) <=> WithinReach(f, k, n, ps)
    BY FoundIsNear
  <2>2. cur = {f \in CurrentAt(clock) : facts[f].predicate \in ps}
    BY WalkableIsCurrent
  <2> HIDE DEF cur
  <2> QED
    BY <2>1, <2>2
<1>2. IsFiniteSet(near)
  <2>1. near \in SUBSET DOMAIN facts
    BY DEF CurrentAt
  <2> QED
    BY <2>1, FS_Subset DEF Recorded
<1>3. PICK K \in Newest(found, MaxGraphEdges) :
        graph = [edges |-> K, truncated |-> Cardinality(found) > MaxGraphEdges]
  BY DEF ExploreGraph
<1> HIDE DEF near, found
<1>4. ShowsOf(graph, near)
  BY <1>1, <1>2, <1>3, GraphShows
<1> QED
  BY <1>4 DEF near

\* The graph shows the facts a reader would call current that lie within the
\* steps asked for: all of them, or as many of the newest as it may hold and it
\* says it left some out.  (queries.ts exploreGraph)
THEOREM GraphShowsReach == Spec => []GraphIsWithinReach
<1>1. IInv /\ ReferencesOK /\ Recorded => GraphIsWithinReach
  <2>1. \A n \in Depth : n \in Nat \ {0}
    BY DEF Depth
  <2>2. ASSUME IInv, ReferencesOK, Recorded, NEW k \in entities, NEW n \in Depth,
               NEW ps, NEW graph \in ExploreGraph(k, n, ps)
        PROVE  ShowsOf(graph, {f \in CurrentAt(clock) :
                                 facts[f].predicate \in ps /\ WithinReach(f, k, n, ps)})
    BY <2>1, <2>2, GraphWithin, ZenonT(60)
  <2> QED
    BY <2>2, Zenon DEF GraphIsWithinReach
<1> QED
  BY <1>1, Invariance, NothingDangles, AlwaysRecorded, PTL

-----------------------------------------------------------------------------
(* The ways to ask about an entity *)

\* The current facts that name k, as subject and as object.
OutOf(k) == {f \in CurrentAt(clock) : facts[f].subject = k}
InOf(k) == {f \in CurrentAt(clock) : facts[f].object = k}

\* What waits for review, and names k.
Waiting == {f \in DOMAIN facts : facts[f].status = "proposed"}
WaitingOut(k) == {f \in Waiting : facts[f].subject = k}
WaitingIn(k) == {f \in Waiting : facts[f].object = k}

\* What each query selects from, and that it is finite.
LEMMA SelectedFrom ==
  ASSUME IInv, ReferencesOK, Recorded, NEW k, NEW limit
  PROVE  /\ FindCurrent({k}, Predicate, Key, clock, limit) = Newest(OutOf(k), ListLimit(limit))
         /\ FindCurrent(Key, Predicate, {k}, clock, limit) = Newest(InOf(k), ListLimit(limit))
         /\ FindByStatus({k}, Predicate, Key, "proposed", limit)
              = Newest(WaitingOut(k), ListLimit(limit))
         /\ FindByStatus(Key, Predicate, {k}, "proposed", limit)
              = Newest(WaitingIn(k), ListLimit(limit))
         /\ ListProposals(limit) = Oldest(Waiting, ListLimit(limit))
         /\ Walkable(Predicate) = CurrentAt(clock)
         /\ IsFiniteSet(CurrentAt(clock)) /\ IsFiniteSet(Waiting)
<1>1. \A f \in DOMAIN facts : /\ facts[f].subject \in Key /\ facts[f].object \in Key
                              /\ facts[f].predicate \in Predicate
  BY DEF IInv, TypeOK, Fact
<1>2. CurrentAt(clock) \subseteq DOMAIN facts
  BY DEF CurrentAt
<1>3. Walkable(Predicate) = CurrentAt(clock)
  BY <1>1, <1>2, WalkableIsCurrent
<1>4. /\ {f \in CurrentAt(clock) : Selected(f, {k}, Predicate, Key)} = OutOf(k)
      /\ {f \in CurrentAt(clock) : Selected(f, Key, Predicate, {k})} = InOf(k)
  BY <1>1, <1>2 DEF Selected, OutOf, InOf
<1>5. /\ {f \in DOMAIN facts : facts[f].status = "proposed" /\ Selected(f, {k}, Predicate, Key)}
           = WaitingOut(k)
      /\ {f \in DOMAIN facts : facts[f].status = "proposed" /\ Selected(f, Key, Predicate, {k})}
           = WaitingIn(k)
  BY <1>1 DEF Selected, WaitingOut, WaitingIn, Waiting
<1>6. {f \in DOMAIN facts : /\ facts[f].status = "proposed"
                            /\ facts[f].evidence \cap DOMAIN episodes # {}} = Waiting
  BY DEF ReferencesOK, Waiting
<1>7. IsFiniteSet(CurrentAt(clock)) /\ IsFiniteSet(Waiting)
  <2>1. Waiting \in SUBSET DOMAIN facts /\ CurrentAt(clock) \in SUBSET DOMAIN facts
    BY <1>2 DEF Waiting
  <2> QED
    BY <2>1, FS_Subset DEF Recorded
<1>8. /\ FindCurrent({k}, Predicate, Key, clock, limit) = Newest(OutOf(k), ListLimit(limit))
      /\ FindCurrent(Key, Predicate, {k}, clock, limit) = Newest(InOf(k), ListLimit(limit))
  BY <1>4, Zenon DEF FindCurrent
<1>9. /\ FindByStatus({k}, Predicate, Key, "proposed", limit)
           = Newest(WaitingOut(k), ListLimit(limit))
      /\ FindByStatus(Key, Predicate, {k}, "proposed", limit)
           = Newest(WaitingIn(k), ListLimit(limit))
  BY <1>5, Zenon DEF FindByStatus
<1>10. ListProposals(limit) = Oldest(Waiting, ListLimit(limit))
  BY <1>6, Zenon DEF ListProposals
<1> QED
  BY <1>3, <1>7, <1>8, <1>9, <1>10

\* The first step of the graph shows the relationships of k alone.
LEMMA OneStepReach ==
  ASSUME NEW k, NEW cur
  PROVE  Reached(k, 1, cur) = {k}
<1>1. Walk(k, 1, cur)[0] = {k}
  BY WalkSteps
<1>2. 0 .. 1 - 1 = {0}
  OBVIOUS
<1> QED
  BY <1>1, <1>2 DEF Reached

\* What an entity's page and the first step of the graph are taken from.
LEMMA PageAndStep ==
  ASSUME IInv, ReferencesOK, Recorded, NEW k,
         NEW page \in GetEntity(k), NEW graph \in ExploreGraph(k, 1, Predicate)
  PROVE  LET known == OutOf(k) \cup InOf(k)
         IN /\ IsFiniteSet(known)
            /\ page.facts \in Newest(known, MaxEntityFacts)
            /\ page.neighbors = {OtherEnd(f, k) : f \in page.facts}
            /\ page.pending = Cardinality(WaitingOut(k) \cup WaitingIn(k))
            /\ graph.edges \in Newest(known, MaxGraphEdges)
            /\ ShowsOf(graph, known)
            /\ Across({k}, Walkable(Predicate)) = {OtherEnd(f, k) : f \in known}
<1> DEFINE known == OutOf(k) \cup InOf(k)
           cur == CurrentAt(clock)
<1>0. /\ Reached(k, 1, cur) = {k}
      /\ Across({k}, cur) = {OtherEnd(f, k) : f \in {g \in cur : Touches(g, k)}}
  <2>1. Reached(k, 1, cur) = {k}
    BY OneStepReach
  <2>2. Across({k}, cur) = {OtherEnd(f, k) : f \in {g \in cur : Touches(g, k)}}
    BY DEF Across
  <2> QED
    BY <2>1, <2>2
<1>1. {f \in cur : Touches(f, k)} = known
  BY DEF Touches, OutOf, InOf
<1>2. {f \in DOMAIN facts : facts[f].status = "proposed" /\ Touches(f, k)}
        = WaitingOut(k) \cup WaitingIn(k)
  BY DEF Touches, WaitingOut, WaitingIn, Waiting
<1>3. Walkable(Predicate) = cur /\ IsFiniteSet(cur)
  BY SelectedFrom
<1>4. IsFiniteSet(known)
  <2>1. known \in SUBSET cur
    BY DEF OutOf, InOf
  <2> QED
    BY <1>3, <2>1, FS_Subset
<1> HIDE DEF known, cur
<1>5. PICK K \in Newest({f \in CurrentAt(clock) : Touches(f, k)}, MaxEntityFacts) :
        page = [facts |-> K, neighbors |-> {OtherEnd(f, k) : f \in K},
                pending |-> Cardinality({f \in DOMAIN facts :
                                           facts[f].status = "proposed" /\ Touches(f, k)})]
  BY DEF GetEntity
<1>6. /\ Reached(k, 1, cur) = {k}
      /\ Across({k}, cur) = {OtherEnd(f, k) : f \in known}
  BY <1>1, <1>0
<1>7. {f \in cur : \E e \in Reached(k, 1, cur) : Touches(f, e)} = known
  BY <1>1, <1>6
<1>8. PICK L \in Newest(known, MaxGraphEdges) :
        graph = [edges |-> L, truncated |-> Cardinality(known) > MaxGraphEdges]
  BY <1>3, <1>7, Zenon DEF ExploreGraph
<1>9. ShowsOf(graph, known)
  BY <1>4, <1>8, GraphShows
<1>10. graph.edges = L
  BY <1>8
<1>11. /\ page.facts = K /\ page.neighbors = {OtherEnd(f, k) : f \in K}
       /\ page.pending = Cardinality(WaitingOut(k) \cup WaitingIn(k))
  BY <1>2, <1>5
<1>12. K \in Newest(known, MaxEntityFacts)
  BY <1>1, <1>5 DEF cur
<1> QED
  BY <1>3, <1>4, <1>6, <1>8, <1>9, <1>10, <1>11, <1>12, Zenon DEF known

LEMMA FactsAlwaysAgree ==
  ASSUME IInv, ReferencesOK, Recorded, NEW k, NEW limit \in AskedLimit
  PROVE  FactsAgree(k, limit)
<1> SUFFICES ASSUME NEW from \in FindCurrent({k}, Predicate, Key, clock, limit),
                    NEW to \in FindCurrent(Key, Predicate, {k}, clock, limit),
                    NEW page \in GetEntity(k), NEW graph \in ExploreGraph(k, 1, Predicate)
             PROVE  LET shown == from \cup to \cup page.facts \cup graph.edges
                        out   == {f \in shown : facts[f].subject = k}
                        in    == {f \in shown : facts[f].object = k}
                    IN /\ Cardinality(from) < ListLimit(limit) => from = out
                       /\ Cardinality(to) < ListLimit(limit) => to = in
                       /\ Cardinality(page.facts) < MaxEntityFacts =>
                            /\ page.facts = shown
                            /\ page.neighbors = Across({k}, Walkable(Predicate))
                       /\ graph.truncated \/ graph.edges = shown
                       /\ LeavesOutOlder(from, out) /\ LeavesOutOlder(to, in)
                       /\ LeavesOutOlder(page.facts, shown)
                       /\ LeavesOutOlder(graph.edges, shown)
  BY ZenonT(60) DEF FactsAgree
<1> DEFINE shown == from \cup to \cup page.facts \cup graph.edges
           out == {f \in shown : facts[f].subject = k}
           in == {f \in shown : facts[f].object = k}
           known == OutOf(k) \cup InOf(k)
           L == ListLimit(limit)
<1>1. from \in Newest(OutOf(k), L) /\ to \in Newest(InOf(k), L)
  BY SelectedFrom
<1>2. /\ IsFiniteSet(known)
      /\ page.facts \in Newest(known, MaxEntityFacts)
      /\ page.neighbors = {OtherEnd(f, k) : f \in page.facts}
      /\ graph.edges \in Newest(known, MaxGraphEdges)
      /\ ShowsOf(graph, known)
      /\ Across({k}, Walkable(Predicate)) = {OtherEnd(f, k) : f \in known}
  BY PageAndStep
<1>3. L \in Nat /\ MaxEntityFacts \in Nat
  BY LimitsAreNatural, QuerySizes
<1>4. /\ from \subseteq OutOf(k) /\ to \subseteq InOf(k)
      /\ page.facts \subseteq known /\ graph.edges \subseteq known
  BY <1>1, <1>2 DEF Newest
<1>5. shown \in SUBSET known
  BY <1>4
<1>6. /\ out \in SUBSET OutOf(k) /\ in \in SUBSET InOf(k)
      /\ from \subseteq out /\ to \subseteq in
  BY <1>4, <1>5 DEF OutOf, InOf
<1>7. IsFiniteSet(OutOf(k)) /\ IsFiniteSet(InOf(k))
  BY <1>2, FS_Subset
<1> HIDE DEF shown, out, in, known, L
<1>8. Cardinality(from) < L => from = out
  BY <1>1, <1>3, <1>6, <1>7, ShortIsWhole
<1>9. Cardinality(to) < L => to = in
  BY <1>1, <1>3, <1>6, <1>7, ShortIsWhole
<1>10. page.facts \subseteq shown /\ graph.edges \subseteq shown
  BY DEF shown
<1>11. ASSUME Cardinality(page.facts) < MaxEntityFacts
       PROVE  page.facts = shown /\ page.neighbors = Across({k}, Walkable(Predicate))
  <2>1. page.facts = known
    BY <1>2, <1>3, <1>11, ShortIsWhole
  <2> QED
    BY <1>2, <1>5, <1>10, <2>1
<1>12. graph.truncated \/ graph.edges = shown
  BY <1>2, <1>5, <1>10 DEF ShowsOf
<1>13. /\ LeavesOutOlder(from, out) /\ LeavesOutOlder(to, in)
       /\ LeavesOutOlder(page.facts, shown) /\ LeavesOutOlder(graph.edges, shown)
  BY <1>1, <1>2, <1>5, <1>6, NewestLeavesOlder
<1> QED
  BY <1>8, <1>9, <1>11, <1>12, <1>13, Zenon DEF shown, out, in, L

LEMMA ReviewAlwaysAgrees ==
  ASSUME IInv, ReferencesOK, Recorded, NEW k, NEW limit \in AskedLimit
  PROVE  ReviewAgrees(k, limit)
<1> SUFFICES ASSUME NEW from \in FindByStatus({k}, Predicate, Key, "proposed", limit),
                    NEW to \in FindByStatus(Key, Predicate, {k}, "proposed", limit),
                    NEW queued \in ListProposals(limit), NEW page \in GetEntity(k)
             PROVE  ProposalsAgree(k, ListLimit(limit), from, to, queued, page.pending)
  BY DEF ReviewAgrees
<1> DEFINE named == from \cup to
           about == {f \in queued : Touches(f, k)}
           both == WaitingOut(k) \cup WaitingIn(k)
           L == ListLimit(limit)
<1>1. /\ from \in Newest(WaitingOut(k), L) /\ to \in Newest(WaitingIn(k), L)
      /\ queued \in Oldest(Waiting, L) /\ IsFiniteSet(Waiting)
  BY SelectedFrom
<1>2. page.pending = Cardinality(both)
  <2>1. PICK K \in Newest({f \in CurrentAt(clock) : Touches(f, k)}, MaxEntityFacts) :
          page.pending = Cardinality({f \in DOMAIN facts :
                                        facts[f].status = "proposed" /\ Touches(f, k)})
    BY SMTT(30) DEF GetEntity
  <2>2. {f \in DOMAIN facts : facts[f].status = "proposed" /\ Touches(f, k)} = both
    BY DEF Touches, WaitingOut, WaitingIn, Waiting
  <2> QED
    BY <2>1, <2>2
<1>3. L \in Nat
  BY LimitsAreNatural
<1>4. from \subseteq WaitingOut(k) /\ to \subseteq WaitingIn(k) /\ queued \subseteq Waiting
  BY <1>1 DEF Newest, Oldest
<1>5. {f \in Waiting : Touches(f, k)} = both
  BY DEF Touches, WaitingOut, WaitingIn
<1>6. named \in SUBSET both /\ about \in SUBSET both /\ both \in SUBSET Waiting
  BY <1>4, <1>5 DEF WaitingOut, WaitingIn
<1>7. IsFiniteSet(both) /\ IsFiniteSet(WaitingOut(k)) /\ IsFiniteSet(WaitingIn(k))
  <2>1. WaitingOut(k) \in SUBSET Waiting /\ WaitingIn(k) \in SUBSET Waiting
    BY DEF WaitingOut, WaitingIn
  <2> QED
    BY <1>1, <1>6, <2>1, FS_Subset
<1>8. ASSUME Cardinality(from) < L, Cardinality(to) < L
      PROVE  named = both
  BY <1>1, <1>3, <1>7, <1>8, ShortIsWhole
<1>9. ASSUME Cardinality(queued) < L
      PROVE  about = both
  <2>1. queued = Waiting
    BY <1>1, <1>3, <1>9, ShortIsWhole
  <2> QED
    BY <1>5, <2>1
<1> HIDE DEF named, about, both, L
<1>10. Cardinality(named) <= Cardinality(both) /\ Cardinality(about) <= Cardinality(both)
  BY <1>6, <1>7, FS_Subset
<1> QED
  BY <1>2, <1>6, <1>8, <1>9, <1>10, Zenon DEF ProposalsAgree, named, about, L

\* The ways to ask what is known about an entity, and what waits for review
\* about it, agree as far as their limits let them, for limits of any size.
\* (queries.ts findFacts, getEntity, exploreGraph, listProposals)
THEOREM SameAnswers == Spec => []QueriesAgree
<1>1. IInv /\ ReferencesOK /\ Recorded => QueriesAgree
  BY FactsAlwaysAgree, ReviewAlwaysAgrees, Zenon DEF QueriesAgree
<1> QED
  BY <1>1, Invariance, NothingDangles, AlwaysRecorded, PTL

-----------------------------------------------------------------------------
(* The hash chain *)

\* h lists the hashes of a log, the one the chain starts from as number 0.
Hashes(h, log) ==
  h = [n \in 0 .. Len(log) |-> IF n = 0 THEN GenesisHash ELSE EntryHash(n, log[n], h[n - 1])]

LEMMA HashesExist ==
  ASSUME NEW T, NEW log \in Seq(T)
  PROVE  \E h : Hashes(h, log)
<1> DEFINE Upto(h, n) ==
             h = [m \in 0 .. n |-> IF m = 0 THEN GenesisHash ELSE EntryHash(m, log[m], h[m - 1])]
           S == {n \in Nat : \E h : Upto(h, n)}
<1>1. 0 \in S
  <2> DEFINE f == [m \in 0 .. 0 |-> GenesisHash]
  <2>1. Upto(f, 0)
    OBVIOUS
  <2> QED
    BY <2>1
<1>2. ASSUME NEW n \in Nat, n \in S
      PROVE  n + 1 \in S
  <2>1. PICK f : Upto(f, n)
    BY <1>2
  <2>2. \A m \in 0 .. n : f[m] = IF m = 0 THEN GenesisHash ELSE EntryHash(m, log[m], f[m - 1])
    BY <2>1, Zenon
  <2> DEFINE x == EntryHash(n + 1, log[n + 1], f[n])
             g == [m \in 0 .. n + 1 |-> IF m = n + 1 THEN x ELSE f[m]]
             G == [m \in 0 .. n + 1 |-> IF m = 0 THEN GenesisHash ELSE EntryHash(m, log[m], g[m - 1])]
  <2>3. ASSUME NEW m \in 0 .. n + 1
        PROVE  g[m] = IF m = 0 THEN GenesisHash ELSE EntryHash(m, log[m], g[m - 1])
    <3>1. CASE m = n + 1
      <4>1. g[m] = x /\ m # 0 /\ g[m - 1] = f[n]
        BY <3>1
      <4> QED
        BY <3>1, <4>1
    <3>2. CASE m # n + 1
      <4>1. m \in 0 .. n /\ g[m] = f[m] /\ (m # 0 => g[m - 1] = f[m - 1])
        BY <3>2
      <4> QED
        BY <2>2, <4>1
    <3> QED
      BY <3>1, <3>2
  <2>4. DOMAIN g = DOMAIN G /\ \A m \in 0 .. n + 1 : g[m] = G[m]
    BY <2>3
  <2>5. g = G
    BY <2>4
  <2> HIDE DEF g
  <2>6. Upto(g, n + 1)
    BY <2>5
  <2> HIDE DEF Upto, G
  <2> QED
    BY <2>6
<1> HIDE DEF S
<1>3. Nat \subseteq S
  BY <1>1, <1>2, EveryNumber
<1>4. Len(log) \in Nat
  OBVIOUS
<1> QED
  BY <1>3, <1>4 DEF S, Hashes

\* The rows of table audit_log: row n holds the hashes n - 1 and n, and the
\* hashes of different numbers are different.
Chained(rows, h, log) ==
  /\ rows = [n \in 1 .. Len(log) |-> StoredRow(n, log[n], h[n - 1], h[n])]
  /\ h[0] = GenesisHash
  /\ \A n \in 1 .. Len(log) : h[n] = EntryHash(n, log[n], h[n - 1])
  /\ \A n, m \in 0 .. Len(log) : n # m => h[n] # h[m]

LEMMA StoredHashes ==
  ASSUME NEW T, NEW log \in Seq(T)
  PROVE  \E h : Chained(StoredRows(log), h, log)
<1> DEFINE h == CHOOSE f : Hashes(f, log)
           end == Len(log)
<1>1. StoredRows(log) = [n \in 1 .. end |-> StoredRow(n, log[n], h[n - 1], h[n])]
  BY DEF StoredRows, Hashes
<1>2. Hashes(h, log)
  BY HashesExist
<1> HIDE DEF h
<1>3. \A n \in 0 .. end : h[n] = IF n = 0 THEN GenesisHash ELSE EntryHash(n, log[n], h[n - 1])
  BY <1>2, Zenon DEF Hashes
<1>4. end \in Nat
  OBVIOUS
<1> HIDE DEF end
<1>5. h[0] = GenesisHash
  BY <1>3, <1>4
<1>6. ASSUME NEW n \in 1 .. end PROVE h[n] = EntryHash(n, log[n], h[n - 1])
  BY <1>3, <1>4
<1>7. ASSUME NEW n \in 0 .. end, NEW m \in 0 .. end, n # m PROVE h[n] # h[m]
  <2>1. CASE n # 0 /\ m # 0
    BY <1>6, <1>7, <2>1 DEF EntryHash, RowHash
  <2>2. ASSUME NEW i \in 1 .. end PROVE h[i] # GenesisHash
    <3>1. h[i] = <<i, Columns(log[i]), Detail(log[i]), h[i - 1]>>
      BY <1>6 DEF EntryHash, RowHash
    <3>2. \A a, b, c, d : <<a, b, c, d>> # << >>
      OBVIOUS
    <3> QED
      BY <3>1, <3>2 DEF GenesisHash
  <2> QED
    BY <1>4, <1>5, <1>7, <2>1, <2>2
<1> QED
  BY <1>1, <1>5, <1>6, <1>7 DEF end, Chained

\* A written row, and what reading it gives back.
LEMMA RowAsWritten ==
  ASSUME NEW n, NEW e, NEW prev, NEW hash
  PROVE  LET row == StoredRow(n, e, prev, hash)
         IN /\ row.seq = n /\ row.prev = prev /\ row.hash = hash
            /\ row.columns = Columns(e)
            /\ Parses(row.detail) /\ Parsed(row.detail) = Detail(e)
            /\ \A p : ReadHash(row, p) = EntryHash(n, e, p)
BY DEF StoredRow, Text, Parses, Parsed, ReadHash, EntryHash

\* Each row passes.
LEMMA ChainFits ==
  ASSUME NEW T, NEW log \in Seq(T), NEW rows, NEW h, Chained(rows, h, log)
  PROVE  /\ DOMAIN rows = 1 .. Len(log) /\ Len(rows) = Len(log) /\ Len(log) \in Nat
         /\ \A n \in 1 .. Len(log) :
              /\ rows[n] = StoredRow(n, log[n], h[n - 1], h[n])
              /\ rows[n].seq = n /\ rows[n].prev = h[n - 1] /\ rows[n].hash = h[n]
              /\ CarriedHash(rows, n) = h[n - 1]
              /\ Passes(rows, n)
<1> DEFINE end == Len(log)
           row(n) == StoredRow(n, log[n], h[n - 1], h[n])
<1>1. end \in Nat
  OBVIOUS
<1>2. rows = [n \in 1 .. end |-> row(n)]
  BY DEF Chained
<1>3. Len(rows) = end
  <2> HIDE DEF row, end
  <2>1. rows \in Seq({row(n) : n \in 1 .. end}) /\ DOMAIN rows = 1 .. end
    BY <1>1, <1>2
  <2> QED
    BY <1>1, <2>1
<1>4. ASSUME NEW n \in 1 .. end
      PROVE  /\ rows[n] = row(n)
             /\ rows[n].seq = n /\ rows[n].prev = h[n - 1] /\ rows[n].hash = h[n]
             /\ CarriedHash(rows, n) = h[n - 1] /\ Passes(rows, n)
  <2>1. rows[n] = row(n)
    BY <1>2
  <2>2. /\ rows[n].seq = n /\ rows[n].prev = h[n - 1] /\ rows[n].hash = h[n]
        /\ Parses(rows[n].detail)
        /\ \A p : ReadHash(rows[n], p) = EntryHash(n, log[n], p)
    BY <2>1, RowAsWritten
  <2>3. CarriedHash(rows, n) = h[n - 1]
    <3>1. CASE n = 1
      BY <3>1 DEF CarriedHash, Chained
    <3>2. CASE n # 1
      <4>1. n - 1 \in 1 .. end
        BY <1>1, <3>2
      <4>2. rows[n - 1] = row(n - 1)
        BY <1>2, <4>1
      <4>3. rows[n - 1].hash = h[n - 1]
        BY <4>2, RowAsWritten
      <4> QED
        BY <3>2, <4>3 DEF CarriedHash
    <3> QED
      BY <3>1, <3>2
  <2>4. h[n] = EntryHash(n, log[n], h[n - 1])
    BY DEF Chained
  <2>5. Passes(rows, n)
    BY <2>2, <2>3, <2>4 DEF Passes, RowFits
  <2> QED
    BY <2>1, <2>2, <2>3, <2>5
<1> QED
  BY <1>1, <1>2, <1>3, <1>4

\* A row passes when its fields and the hash before it are those of a row that
\* passes.
LEMMA SameFit ==
  ASSUME NEW rows, NEW changed, NEW n \in Nat \ {0}, Passes(rows, n),
         changed[n] = rows[n], n # 1 => changed[n - 1].hash = rows[n - 1].hash
  PROVE  Passes(changed, n)
BY DEF Passes, RowFits, CarriedHash

\* Rows that pass, one after another, verify.
LEMMA AllPass ==
  ASSUME NEW rows, NEW k \in Nat, DOMAIN rows = 1 .. k, \A n \in 1 .. k : Passes(rows, n)
  PROVE  Verifies(rows)
BY DEF Verifies, StopsAt

\* Verification stops at the first row that does not pass.
LEMMA StopsHere ==
  ASSUME NEW rows, NEW n \in DOMAIN rows,
         ~Passes(rows, n), \A m \in 1 .. n - 1 : Passes(rows, m)
  PROVE  /\ Parses(rows[n].detail) => Reports(rows, rows[n].seq)
         /\ ~Parses(rows[n].detail) => Throws(rows)
BY DEF Reports, Throws, StopsAt

\* When one row is changed, another one passes unless it follows the changed
\* row and that one has lost its hash.
LEMMA UntouchedPasses ==
  ASSUME NEW T, NEW log \in Seq(T), NEW rows, NEW h, Chained(rows, h, log),
         NEW n \in 1 .. Len(log), NEW changed,
         \A m \in 1 .. Len(log) : m # n => changed[m] = rows[m],
         NEW m \in 1 .. Len(log), m # n, m - 1 # n \/ changed[n].hash = h[n]
  PROVE  Passes(changed, m)
<1>1. /\ Len(log) \in Nat
      /\ \A i \in 1 .. Len(log) : Passes(rows, i) /\ rows[i].hash = h[i]
  BY ChainFits
<1>2. m \in Nat \ {0} /\ (m # 1 => m - 1 \in 1 .. Len(log))
  BY <1>1
<1>3. m # 1 => changed[m - 1].hash = rows[m - 1].hash
  BY <1>1, <1>2
<1> QED
  BY <1>1, <1>2, <1>3, SameFit

\* The rows before the changed one pass, and it is compared with the hash it
\* was written after.
LEMMA OneRowChanged ==
  ASSUME NEW T, NEW log \in Seq(T), NEW rows, NEW h, Chained(rows, h, log),
         NEW n \in 1 .. Len(log), NEW changed,
         \A m \in 1 .. Len(log) : m # n => changed[m] = rows[m]
  PROVE  /\ \A m \in 1 .. n - 1 : Passes(changed, m)
         /\ CarriedHash(changed, n) = h[n - 1]
<1>1. /\ Len(log) \in Nat
      /\ \A m \in 1 .. Len(log) : CarriedHash(rows, m) = h[m - 1]
  BY ChainFits
<1>2. \A m \in 1 .. n - 1 : m \in 1 .. Len(log) /\ m # n /\ m - 1 # n
  BY <1>1
<1>3. \A m \in 1 .. n - 1 : Passes(changed, m)
  BY <1>2, UntouchedPasses
<1>4. n # 1 => n - 1 \in 1 .. Len(log) /\ n - 1 # n
  BY <1>1
<1>5. CarriedHash(changed, n) = CarriedHash(rows, n)
  BY <1>4 DEF CarriedHash
<1> QED
  BY <1>1, <1>3, <1>5

\* Entries that say the same in their columns and in their details are equal.
LEMMA EntriesDiffer ==
  ASSUME NEW e \in Entry, NEW f \in Entry, Columns(e) = Columns(f), Detail(e) = Detail(f)
  PROVE  e = f
<1>1. e.at = f.at /\ e.actor = f.actor /\ e.action = f.action /\ e.target = f.target
  BY DEF Columns
<1>2. e.grants = f.grants /\ e.toSeq = f.toSeq
  BY DEF Detail
<1> QED
  BY <1>1, <1>2 DEF Entry

\* A row that was altered, its hash kept.
LEMMA AlteredShows ==
  ASSUME NEW log \in Seq(Entry), NEW rows, NEW h, Chained(rows, h, log),
         NEW n \in 1 .. Len(log), NEW e \in Entry, NEW spelling \in Spelling
  PROVE  /\ spelling = "broken" => Throws(Altered(rows, n, e, spelling))
         /\ spelling # "broken" /\ e = log[n] => Verifies(Altered(rows, n, e, spelling))
         /\ spelling # "broken" /\ e # log[n] => Reports(Altered(rows, n, e, spelling), n)
<1> DEFINE changed == Altered(rows, n, e, spelling)
           end == Len(log)
<1>1. /\ DOMAIN rows = 1 .. end /\ end \in Nat
      /\ rows[n] = StoredRow(n, log[n], h[n - 1], h[n])
  BY ChainFits
<1>2. /\ DOMAIN changed = 1 .. end
      /\ \A m \in 1 .. end : m # n => changed[m] = rows[m]
      /\ changed[n] = [rows[n] EXCEPT !.columns = Columns(e), !.detail = Text(Detail(e), spelling)]
  BY <1>1 DEF Altered
<1>3. /\ changed[n].seq = n /\ changed[n].prev = h[n - 1] /\ changed[n].hash = h[n]
      /\ changed[n].columns = Columns(e) /\ changed[n].detail = Text(Detail(e), spelling)
  BY <1>1, <1>2 DEF StoredRow
<1> HIDE DEF changed
<1>4. /\ \A m \in 1 .. n - 1 : Passes(changed, m)
      /\ CarriedHash(changed, n) = h[n - 1]
      /\ \A m \in n + 1 .. end : Passes(changed, m)
  <2>1. /\ \A m \in 1 .. n - 1 : Passes(changed, m)
        /\ CarriedHash(changed, n) = h[n - 1]
    BY <1>2, OneRowChanged
  <2>2. \A m \in n + 1 .. end : m \in 1 .. end /\ m # n
    BY <1>1
  <2>3. ASSUME NEW m \in n + 1 .. end PROVE Passes(changed, m)
    <3>1. m \in 1 .. Len(log) /\ m # n /\ changed[n].hash = h[n]
      BY <1>3, <2>2
    <3>2. \A i \in 1 .. Len(log) : i # n => changed[i] = rows[i]
      BY <1>2
    <3> QED
      BY <3>1, <3>2, UntouchedPasses
  <2> QED
    BY <2>1, <2>3
<1>5. Parses(changed[n].detail) <=> spelling # "broken"
  BY <1>3 DEF Parses, Text
<1>6. ReadHash(changed[n], h[n - 1]) = EntryHash(n, e, h[n - 1])
  BY <1>3 DEF ReadHash, EntryHash, Parsed, Text
<1>7. h[n] = EntryHash(n, log[n], h[n - 1])
  BY DEF Chained
<1>8. Passes(changed, n) <=> spelling # "broken" /\ e = log[n]
  <2>1. EntryHash(n, log[n], h[n - 1]) = EntryHash(n, e, h[n - 1]) => e = log[n]
    BY EntriesDiffer DEF EntryHash, RowHash
  <2> QED
    BY <1>3, <1>4, <1>5, <1>6, <1>7, <2>1 DEF Passes, RowFits
<1>9. ASSUME Passes(changed, n) PROVE Verifies(changed)
  <2>1. \A m \in 1 .. end : m \in 1 .. n - 1 \/ m = n \/ m \in n + 1 .. end
    BY <1>1
  <2>2. \A m \in 1 .. end : Passes(changed, m)
    BY <1>4, <1>9, <2>1
  <2> QED
    BY <1>1, <1>2, <2>2, AllPass
<1>10. ASSUME ~Passes(changed, n)
       PROVE  /\ Parses(changed[n].detail) => Reports(changed, n)
              /\ ~Parses(changed[n].detail) => Throws(changed)
  <2>1. n \in DOMAIN changed
    BY <1>2
  <2>2. /\ Parses(changed[n].detail) => Reports(changed, changed[n].seq)
        /\ ~Parses(changed[n].detail) => Throws(changed)
    BY <1>4, <1>10, <2>1, StopsHere
  <2> QED
    BY <1>3, <2>2
<1> QED
  BY <1>5, <1>8, <1>9, <1>10 DEF changed

\* A row that was altered and has its hash computed anew: the next row shows it.
LEMMA ForgedShows ==
  ASSUME NEW log \in Seq(Entry), NEW rows, NEW h, Chained(rows, h, log),
         NEW n \in 1 .. Len(log), NEW e \in Entry, NEW spelling \in Spelling
  PROVE  /\ spelling = "broken" => Throws(Forged(rows, n, e, spelling))
         /\ spelling # "broken" /\ e # log[n] =>
              IF n < Len(log) THEN Reports(Forged(rows, n, e, spelling), n + 1)
              ELSE Verifies(Forged(rows, n, e, spelling))
<1> DEFINE altered == Altered(rows, n, e, spelling)
           changed == Forged(rows, n, e, spelling)
           end == Len(log)
<1>1. /\ DOMAIN rows = 1 .. end /\ end \in Nat
      /\ rows[n] = StoredRow(n, log[n], h[n - 1], h[n])
      /\ \A m \in 1 .. end : rows[m].seq = m /\ rows[m].prev = h[m - 1]
      /\ \A m \in 1 .. end : Passes(rows, m)
  BY ChainFits
<1>2. /\ DOMAIN altered = 1 .. end
      /\ \A m \in 1 .. end : m # n => altered[m] = rows[m]
      /\ altered[n] = [rows[n] EXCEPT !.columns = Columns(e), !.detail = Text(Detail(e), spelling)]
  BY <1>1 DEF Altered
<1>3. rows[n].seq = n /\ rows[n].prev = h[n - 1]
  BY <1>1
<1>4. changed = [altered EXCEPT ![n].hash = EntryHash(n, e, h[n - 1])]
  BY <1>3 DEF Forged
<1> HIDE DEF altered, changed
<1>5. /\ DOMAIN changed = 1 .. end
      /\ \A m \in 1 .. end : m # n => changed[m] = rows[m]
      /\ changed[n] = [altered[n] EXCEPT !.hash = EntryHash(n, e, h[n - 1])]
  BY <1>2, <1>4
<1>6. /\ changed[n].seq = n /\ changed[n].prev = h[n - 1]
      /\ changed[n].hash = EntryHash(n, e, h[n - 1])
      /\ changed[n].columns = Columns(e) /\ changed[n].detail = Text(Detail(e), spelling)
  <2>1. /\ altered[n].seq = n /\ altered[n].prev = h[n - 1]
        /\ altered[n].columns = Columns(e) /\ altered[n].detail = Text(Detail(e), spelling)
        /\ "hash" \in DOMAIN altered[n]
    BY <1>1, <1>2 DEF StoredRow
  <2> QED
    BY <1>5, <2>1
<1>7. /\ \A m \in 1 .. n - 1 : Passes(changed, m)
      /\ CarriedHash(changed, n) = h[n - 1]
  BY <1>5, OneRowChanged
<1>8. Parses(changed[n].detail) <=> spelling # "broken"
  BY <1>6 DEF Parses, Text
<1>9. ReadHash(changed[n], h[n - 1]) = EntryHash(n, e, h[n - 1])
  BY <1>6 DEF ReadHash, EntryHash, Parsed, Text
<1>10. Passes(changed, n) <=> spelling # "broken"
  BY <1>6, <1>7, <1>8, <1>9 DEF Passes, RowFits
<1>11. ASSUME ~Passes(changed, n) PROVE Throws(changed)
  <2>1. n \in DOMAIN changed
    BY <1>5
  <2> QED
    BY <1>7, <1>8, <1>10, <1>11, <2>1, StopsHere
<1>12. ASSUME spelling # "broken", e # log[n], n < end
       PROVE  Reports(changed, n + 1)
  <2>1. n + 1 \in 1 .. end /\ n + 1 # n /\ (n + 1) - 1 = n /\ n + 1 # 1
    BY <1>1, <1>12
  <2>2. changed[n + 1] = rows[n + 1] /\ rows[n + 1].prev = h[n] /\ rows[n + 1].seq = n + 1
    BY <1>1, <1>5, <2>1
  <2>3. CarriedHash(changed, n + 1) = EntryHash(n, e, h[n - 1])
    BY <1>6, <2>1 DEF CarriedHash
  <2>4. h[n] # EntryHash(n, e, h[n - 1])
    <3>1. h[n] = EntryHash(n, log[n], h[n - 1])
      BY DEF Chained
    <3>2. log[n] \in Entry
      OBVIOUS
    <3> QED
      BY <1>12, <3>1, <3>2, EntriesDiffer DEF EntryHash, RowHash
  <2>5. ~Passes(changed, n + 1) /\ Parses(changed[n + 1].detail)
    <3>1. Parses(rows[n + 1].detail)
      BY <1>1, <2>1 DEF Passes
    <3> QED
      BY <2>2, <2>3, <2>4, <3>1 DEF Passes, RowFits
  <2>6. \A m \in 1 .. (n + 1) - 1 : Passes(changed, m)
    BY <1>7, <1>10, <1>12
  <2> QED
    <3>1. n + 1 \in DOMAIN changed
      BY <1>5, <2>1
    <3>2. Reports(changed, changed[n + 1].seq)
      BY <2>5, <2>6, <3>1, StopsHere
    <3> QED
      BY <2>2, <3>2
<1>13. ASSUME spelling # "broken", ~(n < end)
       PROVE  Verifies(changed)
  <2>1. \A m \in 1 .. end : m \in 1 .. n - 1 \/ m = n
    BY <1>1, <1>13
  <2>2. \A m \in 1 .. end : Passes(changed, m)
    BY <1>7, <1>10, <1>13, <2>1
  <2> QED
    BY <1>1, <1>5, <2>2, AllPass
<1> QED
  BY <1>10, <1>11, <1>12, <1>13 DEF changed, end

LEMMA RemovedShows ==
  ASSUME NEW T, NEW log \in Seq(T), NEW rows, NEW h, Chained(rows, h, log),
         NEW n \in 1 .. Len(log) - 1
  PROVE  Reports(Removed(rows, n), n + 1)
<1> DEFINE changed == Removed(rows, n)
           end == Len(log)
<1>1. /\ Len(rows) = end /\ end \in Nat
      /\ \A m \in 1 .. end :
           /\ rows[m].seq = m /\ rows[m].prev = h[m - 1]
           /\ CarriedHash(rows, m) = h[m - 1]
           /\ Passes(rows, m)
  BY ChainFits
<1>2. /\ DOMAIN changed = 1 .. end - 1
      /\ \A m \in 1 .. n - 1 : changed[m] = rows[m]
      /\ changed[n] = rows[n + 1]
  BY <1>1 DEF Removed
<1> HIDE DEF changed
<1>3. n \in 1 .. end /\ n + 1 \in 1 .. end /\ (n + 1) - 1 = n /\ end - 1 \in Nat
  BY <1>1
<1>4. /\ changed[n].prev = h[n] /\ changed[n].seq = n + 1
      /\ Parses(changed[n].detail)
  BY <1>1, <1>2, <1>3 DEF Passes
<1>5. ASSUME NEW m \in 1 .. n - 1
      PROVE  Passes(changed, m)
  <2>1. m \in Nat \ {0} /\ m \in 1 .. end /\ (m # 1 => m - 1 \in 1 .. n - 1)
    BY <1>1
  <2> QED
    BY <1>1, <1>2, <2>1, SameFit
<1>6. ~Passes(changed, n)
  <2>1. CarriedHash(changed, n) = CarriedHash(rows, n)
    <3>1. n # 1 => n - 1 \in 1 .. n - 1
      OBVIOUS
    <3> QED
      BY <1>2, <3>1 DEF CarriedHash
  <2>2. h[n] # h[n - 1]
    BY <1>1 DEF Chained
  <2> QED
    BY <1>1, <1>3, <1>4, <2>1, <2>2 DEF Passes, RowFits
<1>7. Reports(changed, changed[n].seq)
  BY <1>2, <1>4, <1>5, <1>6, StopsHere
<1> QED
  BY <1>7, <1>4 DEF changed

LEMMA ExchangedShows ==
  ASSUME NEW T, NEW log \in Seq(T), NEW rows, NEW h, Chained(rows, h, log),
         NEW n \in 1 .. Len(log), NEW m \in 1 .. Len(log), n < m
  PROVE  Reports(Exchanged(rows, n, m), n)
<1> DEFINE changed == Exchanged(rows, n, m)
           end == Len(log)
<1>1. /\ DOMAIN rows = 1 .. end /\ end \in Nat
      /\ \A i \in 1 .. end :
           /\ rows[i] = StoredRow(i, log[i], h[i - 1], h[i])
           /\ CarriedHash(rows, i) = h[i - 1]
           /\ Passes(rows, i)
  BY ChainFits
<1>2. /\ DOMAIN changed = DOMAIN rows
      /\ \A i \in 1 .. n - 1 : changed[i] = rows[i]
      /\ changed[n] = [rows[m] EXCEPT !.seq = n]
  <2> DEFINE first == [rows[m] EXCEPT !.seq = n]
             second == [rows[n] EXCEPT !.seq = m]
  <2>1. changed = [rows EXCEPT ![n] = first, ![m] = second]
    BY DEF Exchanged
  <2>2. n \in DOMAIN rows /\ n # m /\ \A i \in 1 .. n - 1 : i # n /\ i # m /\ i \in DOMAIN rows
    BY <1>1
  <2> HIDE DEF first, second, changed
  <2>3. DOMAIN changed = DOMAIN rows /\ changed[n] = first /\ \A i \in 1 .. n - 1 : changed[i] = rows[i]
    BY <2>1, <2>2
  <2> QED
    BY <2>3 DEF first
<1> HIDE DEF changed
<1>3. changed[n].seq = n /\ changed[n].prev = h[m - 1] /\ Parses(changed[n].detail)
  BY <1>1, <1>2 DEF StoredRow, Text, Parses
<1>4. ASSUME NEW i \in 1 .. n - 1
      PROVE  Passes(changed, i)
  <2>1. i \in Nat \ {0} /\ i \in 1 .. end /\ (i # 1 => i - 1 \in 1 .. n - 1)
    BY <1>1
  <2> QED
    BY <1>1, <1>2, <2>1, SameFit
<1>5. ~Passes(changed, n)
  <2>1. CarriedHash(changed, n) = CarriedHash(rows, n)
    <3>1. n # 1 => n - 1 \in 1 .. n - 1
      OBVIOUS
    <3> QED
      BY <1>2, <3>1 DEF CarriedHash
  <2>2. h[m - 1] # h[n - 1]
    <3>1. m - 1 \in 0 .. end /\ n - 1 \in 0 .. end /\ m - 1 # n - 1
      BY <1>1
    <3> QED
      BY <3>1 DEF Chained
  <2> QED
    BY <1>1, <1>3, <2>1, <2>2 DEF Passes, RowFits
<1>6. Reports(changed, changed[n].seq)
  BY <1>1, <1>2, <1>3, <1>4, <1>5, StopsHere
<1> QED
  BY <1>3, <1>6 DEF changed

\* What goes unnoticed: the last rows are missing.
LEMMA ShortenedVerifies ==
  ASSUME NEW T, NEW log \in Seq(T), NEW rows, NEW h, Chained(rows, h, log), Len(log) > 0
  PROVE  Verifies(Removed(rows, Len(log)))
<1> DEFINE changed == Removed(rows, Len(log))
           end == Len(log)
<1>1. /\ Len(rows) = end /\ end \in Nat
      /\ \A m \in 1 .. end : Passes(rows, m)
  BY ChainFits
<1>2. /\ DOMAIN changed = 1 .. end - 1 /\ end - 1 \in Nat
      /\ \A m \in 1 .. end - 1 : changed[m] = rows[m]
  BY <1>1 DEF Removed
<1> HIDE DEF changed
<1>3. ASSUME NEW m \in 1 .. end - 1
      PROVE  Passes(changed, m)
  <2>1. m \in Nat \ {0} /\ m \in 1 .. end /\ (m # 1 => m - 1 \in 1 .. end - 1)
    BY <1>1
  <2> QED
    BY <1>1, <1>2, <2>1, SameFit
<1>4. Verifies(changed)
  BY <1>2, <1>3, AllPass
<1> QED
  BY <1>4 DEF changed

\* In a log of any length, verification passes what was written, also with a
\* detail spelt in another way; it reports the first row that shows that a row
\* says something else, with its hash computed anew or not, was removed or
\* exchanged; and it throws at a detail that does not parse.  (audit.ts
\* verifyAuditChain)
THEOREM ChangesShow == Spec => []TamperingShows
<1>1. ASSUME IInv PROVE TamperingShows
  <2> DEFINE rows == StoredRows(audit)
             end == Len(audit)
  <2>1. audit \in Seq(Entry)
    BY <1>1 DEF IInv, TypeOK
  <2>2. PICK h : Chained(rows, h, audit)
    BY <2>1, StoredHashes
  <2> HIDE DEF rows
  <2>3. Verifies(rows)
    BY <2>1, <2>2, ChainFits, AllPass
  <2>4. ASSUME NEW n \in 1 .. end, NEW e \in {audit[m] : m \in 1 .. end},
               NEW spelling \in Spelling
        PROVE  IF spelling = "broken"
               THEN Throws(Altered(rows, n, e, spelling)) /\ Throws(Forged(rows, n, e, spelling))
               ELSE IF e = audit[n] THEN Verifies(Altered(rows, n, e, spelling))
               ELSE /\ Reports(Altered(rows, n, e, spelling), n)
                    /\ IF n < end THEN Reports(Forged(rows, n, e, spelling), n + 1)
                       ELSE Verifies(Forged(rows, n, e, spelling))
    <3>1. e \in Entry
      BY <2>1
    <3>2. /\ spelling = "broken" => Throws(Altered(rows, n, e, spelling))
          /\ spelling # "broken" /\ e = audit[n] => Verifies(Altered(rows, n, e, spelling))
          /\ spelling # "broken" /\ e # audit[n] => Reports(Altered(rows, n, e, spelling), n)
      BY <2>1, <2>2, <3>1, AlteredShows
    <3>3. /\ spelling = "broken" => Throws(Forged(rows, n, e, spelling))
          /\ spelling # "broken" /\ e # audit[n] =>
               IF n < end THEN Reports(Forged(rows, n, e, spelling), n + 1)
               ELSE Verifies(Forged(rows, n, e, spelling))
      BY <2>1, <2>2, <3>1, ForgedShows
    <3> QED
      BY <3>2, <3>3
  <2>5. \A n \in 1 .. end - 1 : Reports(Removed(rows, n), n + 1)
    BY <2>1, <2>2, RemovedShows
  <2>6. \A n, m \in 1 .. end : n < m => Reports(Exchanged(rows, n, m), n)
    BY <2>1, <2>2, ExchangedShows
  <2>7. end > 0 => Verifies(Removed(rows, end))
    BY <2>1, <2>2, ShortenedVerifies
  <2> QED
    BY <2>3, <2>4, <2>5, <2>6, <2>7, Zenon DEF TamperingShows, rows
<1> QED
  BY <1>1, Invariance, PTL

-----------------------------------------------------------------------------
(* What the last hash is worth *)

\* Verification that finds nothing has found every row to pass.
LEMMA AllFit ==
  ASSUME NEW rows, NEW k \in Nat, DOMAIN rows = 1 .. k, Verifies(rows)
  PROVE  \A n \in 1 .. k : Passes(rows, n)
<1> SUFFICES ASSUME {n \in 1 .. k : ~Passes(rows, n)} # {} PROVE FALSE
  OBVIOUS
<1> DEFINE bad == {n \in 1 .. k : ~Passes(rows, n)}
<1>1. PICK n \in bad : \A m \in bad : n <= m
  <2>1. bad \in SUBSET Nat
    OBVIOUS
  <2> HIDE DEF bad
  <2> QED
    BY <2>1, LeastNatural DEF bad
<1>2. \A m \in 1 .. n - 1 : Passes(rows, m)
  BY <1>1
<1>3. n \in StopsAt(rows)
  BY <1>1, <1>2 DEF StopsAt
<1> QED
  BY <1>3 DEF Verifies

\* Rows of any kind and number that verify, and whose last hash is the last
\* hash of the log, say what the log says, row by row: who kept that hash needs
\* nothing else to find any change of what the log says, rows missing at the
\* end included.  How the text of a detail is spelt is not fixed by it.
\* (audit.ts sha256Hex: tamper-evident chaining)
THEOREM LastHashFixesLog ==
  ASSUME NEW T, NEW log \in Seq(T),
         NEW rows, NEW k \in Nat, DOMAIN rows = 1 .. k, Verifies(rows),
         CarriedHash(rows, k + 1) = CarriedHash(StoredRows(log), Len(log) + 1)
  PROVE  /\ k = Len(log)
         /\ \A n \in 1 .. k : /\ rows[n].seq = n /\ rows[n].columns = Columns(log[n])
                            /\ Parsed(rows[n].detail) = Detail(log[n])
<1> DEFINE end == Len(log)
           c(n) == CarriedHash(rows, n + 1)
<1>1. PICK h : Chained(StoredRows(log), h, log)
  BY StoredHashes
<1>2. end \in Nat /\ h[0] = GenesisHash
  BY <1>1 DEF Chained
<1>3. \A n \in 1 .. end : h[n] = <<n, Columns(log[n]), Detail(log[n]), h[n - 1]>>
  BY <1>1 DEF Chained, EntryHash, RowHash
<1>4. c(k) = h[end]
  <2>1. CASE end = 0
    BY <1>2, <2>1 DEF CarriedHash
  <2>2. CASE end # 0
    <3>1. end \in 1 .. end /\ end + 1 # 1 /\ (end + 1) - 1 = end
      BY <1>2, <2>2
    <3>2. StoredRows(log)[end].hash = h[end]
      BY <1>1, <3>1, ChainFits
    <3> QED
      BY <3>1, <3>2 DEF CarriedHash
  <2> QED
    BY <2>1, <2>2
<1>5. c(0) = GenesisHash
  BY DEF CarriedHash
<1>6. ASSUME NEW n \in 1 .. k
      PROVE  c(n) = <<rows[n].seq, rows[n].columns, Parsed(rows[n].detail), c(n - 1)>>
  <2>1. n + 1 # 1 /\ (n + 1) - 1 = n /\ (n - 1) + 1 = n
    OBVIOUS
  <2>2. c(n) = rows[n].hash /\ c(n - 1) = CarriedHash(rows, n)
    BY <2>1 DEF CarriedHash
  <2>3. RowFits(rows, n)
    BY AllFit DEF Passes
  <2> QED
    BY <2>2, <2>3 DEF RowFits, ReadHash, RowHash
<1>7. \A x, y, z, u : <<x, y, z, u>> # GenesisHash
  BY DEF GenesisHash
<1>8. \A x, y, z, u, x1, y1, z1, u1 : <<x, y, z, u>> = <<x1, y1, z1, u1>> =>
        x = x1 /\ y = y1 /\ z = z1 /\ u = u1
  OBVIOUS
<1> HIDE DEF c, end
<1> DEFINE S == {j \in Nat : j <= k => j <= end /\ c(k - j) = h[end - j]}
<1>9. 0 \in S
  BY <1>2, <1>4
<1>10. ASSUME NEW j \in Nat, j \in S
      PROVE  j + 1 \in S
  <2> SUFFICES ASSUME j + 1 <= k
               PROVE  j + 1 <= end /\ c(k - (j + 1)) = h[end - (j + 1)]
    OBVIOUS
  <2> DEFINE n == k - j
             m == end - j
  <2>1. j <= end /\ c(n) = h[m] /\ n \in 1 .. k /\ m \in Nat
    BY <1>2, <1>10
  <2>2. n - 1 = k - (j + 1) /\ m - 1 = end - (j + 1)
    BY <1>2
  <2>3. m # 0 => m \in 1 .. end /\ j + 1 <= end
    BY <1>2, <2>1
  <2> HIDE DEF n, m
  <2>4. c(n) = <<rows[n].seq, rows[n].columns, Parsed(rows[n].detail), c(n - 1)>>
    BY <1>6, <2>1
  <2>5. m # 0
    BY <1>2, <1>7, <2>1, <2>4
  <2>6. h[m] = <<m, Columns(log[m]), Detail(log[m]), h[m - 1]>>
    BY <1>3, <2>3, <2>5
  <2>7. c(n - 1) = h[m - 1]
    <3>1. <<rows[n].seq, rows[n].columns, Parsed(rows[n].detail), c(n - 1)>>
            = <<m, Columns(log[m]), Detail(log[m]), h[m - 1]>>
      BY <2>1, <2>4, <2>6
    <3> QED
      BY <1>8, <3>1
  <2> QED
    BY <2>2, <2>3, <2>5, <2>7
<1> HIDE DEF S
<1>11. Nat \subseteq S
  BY <1>9, <1>10, EveryNumber
<1>12. \A j \in 0 .. k : j <= end /\ c(k - j) = h[end - j]
  BY <1>11 DEF S
<1>13. k = end
  <2>1. k <= end /\ c(0) = h[end - k]
    BY <1>12
  <2>2. ASSUME end - k # 0 PROVE FALSE
    <3>1. end - k \in 1 .. end
      BY <1>2, <2>1, <2>2
    <3>2. h[end - k] # GenesisHash
      BY <1>3, <1>7, <3>1
    <3> QED
      BY <1>5, <2>1, <3>2
  <2> QED
    BY <1>2, <2>2
<1>14. ASSUME NEW n \in 1 .. k
       PROVE  /\ rows[n].seq = n /\ rows[n].columns = Columns(log[n])
              /\ Parsed(rows[n].detail) = Detail(log[n])
  <2>1. k - n \in 0 .. k /\ k - (k - n) = n /\ end - (k - n) = n /\ n \in 1 .. end
    BY <1>13
  <2>2. c(n) = h[n]
    BY <1>12, <2>1
  <2> QED
    BY <1>3, <1>6, <1>8, <2>1, <2>2
<1> QED
  BY <1>13, <1>14 DEF end
=============================================================================
