------------------------------ MODULE MCRecall ------------------------------
(***************************************************************************)
(* Three facts, an episode that supports two of them and an entity that    *)
(* two take part in: one fact is reached only through the entity, the      *)
(* others in several ways.  RRF_K is the code's 60; the caps are cut to    *)
(* where each one bites.                                                   *)
(***************************************************************************)
EXTENDS Recall

MCFact == {1, 2, 3}
MCEpisode == {"e1", "e2"}
MCEntity == {"n1", "n2", "n3"}
MCEvidence == <<{"e1"}, {"e1", "e2"}, {"e2"}>>
MCPrimary == <<"e1", "e2", "e2">>
MCEnds == << <<"n1", "n2">>, <<"n2", "n3">>, <<"n3", "n1">> >>

\* The third fact expires at time 1.
MCValidFrom == <<0, 0, 0>>
MCValidTo == <<9, 9, 1>>

MCSettled == {1, 3}

MCFindable == {<<"fact", 1>>, <<"fact", 2>>, <<"episode", "e1">>, <<"entity", "n3">>}
=============================================================================
