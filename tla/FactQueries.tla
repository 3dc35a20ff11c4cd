----------------------------- MODULE FactQueries -----------------------------
(***************************************************************************)
(* What a client's memory answers when it is read: memory/queries.ts.  A   *)
(* query runs in one call of the object and changes nothing, so it is an   *)
(* operator on the state; what it may answer is a set, because rows with   *)
(* the same recorded_at come in the order of their random ids and a LIMIT  *)
(* keeps the first ones.  An entity is its canonical key; a filter that is *)
(* not given is the set of everything.                                     *)
(***************************************************************************)
EXTENDS FactSafety

CONSTANTS
  DefaultListed,   \* how many rows a list has when no limit is asked for
  MaxListed,       \* how many it has at most, whatever is asked for
  MaxGraphEdges,   \* MAX_GRAPH_EDGES
  MaxEntityFacts,  \* the LIMIT of getEntity
  MaxVersions      \* the LIMIT of factHistory

ASSUME QuerySizes ==
  {DefaultListed, MaxListed, MaxGraphEdges, MaxEntityFacts, MaxVersions} \subseteq Nat \ {0}

-----------------------------------------------------------------------------
(* ORDER BY recorded_at and LIMIT *)

\* clampLimit of a limit asked for, Null when the caller gives none; what is
\* not a positive integer is refused.
ClampLimit(limit, fallback, max) ==
  IF limit = Null THEN fallback ELSE IF limit <= max THEN limit ELSE max

\* The LIMIT of findFacts and listProposals.
ListLimit(limit) == ClampLimit(limit, DefaultListed, MaxListed)

SizeWithin(fs, n) == IF Cardinality(fs) <= n THEN Cardinality(fs) ELSE n

\* The sets of facts that a list of the n newest of fs may hold.
Newest(fs, n) ==
  {K \in SUBSET fs :
     /\ Cardinality(K) = SizeWithin(fs, n)
     /\ \A f \in K, g \in fs \ K : facts[f].recordedAt >= facts[g].recordedAt}

Oldest(fs, n) ==
  {K \in SUBSET fs :
     /\ Cardinality(K) = SizeWithin(fs, n)
     /\ \A f \in K, g \in fs \ K : facts[f].recordedAt <= facts[g].recordedAt}

-----------------------------------------------------------------------------
(* Facts and entities *)

Touches(f, k) == k \in {facts[f].subject, facts[f].object}

Selected(f, ss, ps, os) ==
  facts[f].subject \in ss /\ facts[f].predicate \in ps /\ facts[f].object \in os

\* findFacts with the default status, as of time t.
FindCurrent(ss, ps, os, t, limit) ==
  Newest({f \in CurrentAt(t) : Selected(f, ss, ps, os)}, ListLimit(limit))

\* findFacts with another status.
FindByStatus(ss, ps, os, status, limit) ==
  Newest({f \in DOMAIN facts : facts[f].status = status /\ Selected(f, ss, ps, os)},
         ListLimit(limit))

\* The end of f that is not k; the same entity when f joins it to itself.
OtherEnd(f, k) == IF facts[f].subject = k THEN facts[f].object ELSE facts[f].subject

\* getEntity, for a key that has a row.
GetEntity(k) ==
  {[facts |-> K,
    neighbors |-> {OtherEnd(f, k) : f \in K},
    pending |-> Cardinality({f \in DOMAIN facts : facts[f].status = "proposed" /\ Touches(f, k)})]
     : K \in Newest({f \in CurrentAt(clock) : Touches(f, k)}, MaxEntityFacts)}

\* listProposals: a proposal is listed with the episode that supports it.
ListProposals(limit) ==
  Oldest({f \in DOMAIN facts :
            /\ facts[f].status = "proposed"
            /\ facts[f].evidence \cap DOMAIN episodes # {}}, ListLimit(limit))

-----------------------------------------------------------------------------
(* The graph *)

ExpiredToo(ps) ==  \* mutated Walkable: valid_to is not looked at
  {f \in DOMAIN facts : /\ facts[f].status = "trusted"
                        /\ facts[f].validFrom <= clock
                        /\ facts[f].predicate \in ps}

\* The table "cur": relationships that may be walked.
Walkable(ps) ==
  {f \in DOMAIN facts : /\ facts[f].status = "trusted"
                        /\ facts[f].validFrom <= clock
                        /\ facts[f].validTo = Null \/ facts[f].validTo > clock
                        /\ facts[f].predicate \in ps}

\* One step of the table "walk": across a relationship, from either end.
Across(ks, cur) == UNION {{OtherEnd(f, k) : f \in {g \in cur : Touches(g, k)}} : k \in ks}

\* The entities "walk" holds with each depth: a pair is added once, so an
\* entity may have several depths.
Walk(k, depth, cur) ==
  LET level[d \in 0 .. depth] == IF d = 0 THEN {k} ELSE Across(level[d - 1], cur)
  IN level

OneStepShort(k, depth, cur) ==  \* mutated Reached: depth < ? twice
  UNION {Walk(k, depth, cur)[d] : d \in 0 .. (IF depth > 1 THEN depth - 2 ELSE 0)}

\* The entities whose relationships are shown.
Reached(k, depth, cur) == UNION {Walk(k, depth, cur)[d] : d \in 0 .. depth - 1}

\* exploreGraph, for a key that has a row.
ExploreGraph(k, depth, ps) ==
  LET cur   == Walkable(ps)
      found == {f \in cur : \E e \in Reached(k, depth, cur) : Touches(f, e)}
  IN {[edges |-> K, truncated |-> Cardinality(found) > MaxGraphEdges]
        : K \in Newest(found, MaxGraphEdges)}

-----------------------------------------------------------------------------
(* The history of a claim *)

SameEnds(c) ==  \* mutated Versions: the predicate is not compared
  {f \in DOMAIN facts : facts[f].subject = c.subject /\ facts[f].object = c.object}

Versions(c) == {f \in DOMAIN facts : ClaimOf(facts[f]) = c}

\* factHistory: the versions of a claim, and the rows of the audit log whose
\* target is one of them.
FactHistory(c) ==
  {[facts |-> K, audit |-> {i \in DOMAIN audit : audit[i].target \in K}]
     : K \in Oldest(Versions(c), MaxVersions)}

-----------------------------------------------------------------------------
(* Properties *)

Depth == 1 .. 3

\* A current fact with a predicate in ps joins the two entities.
Joined(e1, e2, ps) ==
  \E g \in CurrentAt(clock) :
    facts[g].predicate \in ps /\ {facts[g].subject, facts[g].object} = {e1, e2}

\* Fact f lies within n steps of k: a path of fewer than n current facts
\* leads from k to one of its ends.
WithinReach(f, k, n, ps) ==
  \E m \in 0 .. n - 1 :
    \E stops \in [1 .. m -> entities] :
      LET stop(i) == IF i = 0 THEN k ELSE stops[i]
      IN /\ Touches(f, stop(m))
         /\ \A i \in 1 .. m : Joined(stop(i - 1), stop(i), ps)

\* Nothing of fs that K leaves out is newer than anything it holds.
LeavesOutOlder(K, fs) ==
  \A f \in K, g \in fs \ K : facts[f].recordedAt >= facts[g].recordedAt

\* A graph shows all of fs, or as many as it may and the newest ones, and says
\* which of the two it does.
ShowsOf(graph, fs) ==
  /\ graph.edges \subseteq fs
  /\ graph.truncated <=> graph.edges # fs
  /\ graph.truncated => Cardinality(graph.edges) = MaxGraphEdges
  /\ LeavesOutOlder(graph.edges, fs)

\* The graph shows the facts a reader would call current that lie within the
\* steps asked for: all of them, or as many of the newest as it may hold and it
\* says it left some out.  (queries.ts exploreGraph)
GraphIsWithinReach ==
  \A k \in entities, n \in Depth, ps \in {Predicate, VulnPredicate} :
    LET near == {f \in CurrentAt(clock) : facts[f].predicate \in ps /\ WithinReach(f, k, n, ps)}
    IN \A graph \in ExploreGraph(k, n, ps) : ShowsOf(graph, near)

\* No limit, every limit that counts, and one beyond the greatest.
AskedLimit == {Null} \cup 1 .. MaxListed + 1

\* The facts found by naming k, its page and the first step of the graph: one
\* that is shorter than its limit holds what any of them shows, and one that
\* is cut leaves out nothing newer than what it holds.
FactsAgree(k, limit) ==
  \A from \in FindCurrent({k}, Predicate, Key, clock, limit),
     to \in FindCurrent(Key, Predicate, {k}, clock, limit),
     page \in GetEntity(k), graph \in ExploreGraph(k, 1, Predicate) :
    LET shown == from \cup to \cup page.facts \cup graph.edges
        out   == {f \in shown : facts[f].subject = k}
        in    == {f \in shown : facts[f].object = k}
    IN /\ Cardinality(from) < ListLimit(limit) => from = out
       /\ Cardinality(to) < ListLimit(limit) => to = in
       /\ Cardinality(page.facts) < MaxEntityFacts =>
            page.facts = shown /\ page.neighbors = Across({k}, Walkable(Predicate))
       /\ graph.truncated \/ graph.edges = shown
       /\ LeavesOutOlder(from, out) /\ LeavesOutOlder(to, in)
       /\ LeavesOutOlder(page.facts, shown) /\ LeavesOutOlder(graph.edges, shown)

\* The proposals with k as their subject, or as their object, and those of the
\* review queue, against the number on k's page: none of the lists holds more
\* than the page counts, and one that is shorter than n holds them all.
ProposalsAgree(k, n, from, to, queued, pending) ==
  LET named == from \cup to
      about == {f \in queued : Touches(f, k)}
  IN /\ Cardinality(named) <= pending /\ Cardinality(about) <= pending
     /\ Cardinality(from) < n /\ Cardinality(to) < n =>
          about \subseteq named /\ Cardinality(named) = pending
     /\ Cardinality(queued) < n =>
          named \subseteq about /\ Cardinality(about) = pending

\* That, for the lists a search by subject, one by object and the queue give.
ReviewAgrees(k, limit) ==
  \A from \in FindByStatus({k}, Predicate, Key, "proposed", limit),
     to \in FindByStatus(Key, Predicate, {k}, "proposed", limit),
     queued \in ListProposals(limit), page \in GetEntity(k) :
    ProposalsAgree(k, ListLimit(limit), from, to, queued, page.pending)

\* The ways to ask what is known about an entity, and what waits for review
\* about it, agree as far as their limits let them, and a list shorter than its
\* limit can be relied on to be complete.  (queries.ts findFacts, getEntity,
\* exploreGraph, listProposals)
QueriesAgree ==
  \A k \in entities, limit \in AskedLimit : FactsAgree(k, limit) /\ ReviewAgrees(k, limit)

\* A claim's history holds its versions and nobody else's; every version shown
\* comes with the entry that asserted it, and every decision that stands with
\* its entry, at the time and by the kind of decision the version shows.
\* (queries.ts factHistory)
HistoryAccounts ==
  \A c \in {ClaimOf(facts[f]) : f \in DOMAIN facts} :
    \A history \in FactHistory(c) :
      /\ \A i \in history.audit : ClaimOf(facts[audit[i].target]) = c
      /\ Cardinality(Versions(c)) <= MaxVersions => Versions(c) = history.facts
      /\ \A f \in history.facts :
           /\ \E i \in history.audit : /\ audit[i].action = "fact.assert"
                                       /\ audit[i].target = f
                                       /\ audit[i].at = facts[f].recordedAt
           /\ facts[f].decisionSeq # Null =>
                /\ facts[f].decisionSeq \in history.audit
                /\ Granted(facts[f]) =>
                     /\ audit[facts[f].decisionSeq].grants
                     /\ audit[facts[f].decisionSeq].at = facts[f].confirmedAt

\* The last decision about f among the entries shown.
LastShown(f, shown) ==
  {i \in shown : /\ audit[i].target = f /\ IsDecision(audit[i])
                 /\ \A j \in shown : audit[j].target = f /\ IsDecision(audit[j]) => j <= i}

\* The tool describes its answer as the full timeline of a relationship, with
\* who confirmed it and when: the entries shown then end with the decision
\* that gives each version the status shown.  (mcp/tools.ts fact_history)
HistoryExplains ==
  \A c \in {ClaimOf(facts[f]) : f \in DOMAIN facts} :
    \A history \in FactHistory(c) : \A f \in history.facts :
      /\ Granted(facts[f]) <=> \E i \in LastShown(f, history.audit) : audit[i].grants
      /\ facts[f].status = "rejected"
           <=> \E i \in LastShown(f, history.audit) : IsRejection(audit[i])
=============================================================================
