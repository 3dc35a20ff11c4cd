------------------------------ MODULE Gateway ------------------------------
(***************************************************************************)
(* The Worker between its callers and the durable objects.  A request      *)
(* makes several calls, one after the other, to the Registry and to the    *)
(* client's memory; every call is one atomic step, and between two of them *)
(* administrators and other requests go on.  What the Worker read in an    *)
(* earlier call (the role, the write limit, whose evidence it is, whether  *)
(* its source is trusted) is what it acts on in a later one.               *)
(*                                                                         *)
(* The fact table itself is left to FactMemory: here an accepted write is  *)
(* the record `last` of what it was based on, gone with the next step.     *)
(***************************************************************************)
EXTENDS Registry

CONSTANTS
  Request,  \* requests in progress at one time
  Content,  \* evidence texts, which is what identifies an episode
  Kinds,    \* bound: the kinds of request in a run
  MaxOffer  \* bound: items of one kind in a model's answer

\* What a stored episode says of its recorder.
Meta == [who : Email, app : App, source : Source]

ASSUME GatewayConstants ==
  /\ None \notin Meta
  /\ Kinds \subseteq {"record", "assert", "suggest", "review"}
  /\ MaxOffer \in Nat

VARIABLES
  req,      \* each request: its stage and what it has read so far
  episodes, \* table episodes of each client's memory: who recorded a text
  counts,   \* table write_counters of each client's memory, this minute
  last,     \* history: the write or decision accepted in the latest step
  told      \* history: the answer to suggest_facts given in the latest step

memVars == <<episodes, counts>>
vars == <<regVars, req, memVars, last, told>>

Idle == [stage |-> "idle"]
Principal == Email \X App
NoAnswer == [offered |-> 0, stored |-> 0, dropped |-> 0]

\* A request past resolveAccess.
Open(kind, who, app, slug, role, stage) ==
  [stage |-> stage, kind |-> kind, who |-> who, app |-> app, slug |-> slug,
   role |-> role, began |-> Now, limit |-> 0, evidence |-> None,
   source |-> None, origin |-> "mcp", left |-> 0, stored |-> 0,
   dropped |-> 0, offered |-> 0]

Init ==
  /\ RegInit
  /\ req = [r \in Request |-> Idle]
  /\ episodes = [p \in Slug \X Content |-> None]
  /\ counts = [p \in Slug \X Principal |-> 0]
  /\ last = Idle
  /\ told = NoAnswer

Step(r, stage) == req[r].stage = stage

\* Steps that accept nothing and answer no suggest_facts.
Quiet == last' = Idle /\ told' = NoAnswer

\* The accepted call: what the request had read, and when.
Accept(r, nth) ==
  last' = [kind |-> req[r].kind, who |-> req[r].who, app |-> req[r].app,
           slug |-> req[r].slug, role |-> req[r].role, evidence |-> req[r].evidence,
           origin |-> req[r].origin, nth |-> nth, began |-> req[r].began, at |-> Now]

(***************************************************************************)
(* Opening a client.                                                       *)
(***************************************************************************)

\* canReview for the browser, mutated: whoever may open the client may review.
AnyRoleReviews(role) == role # None

\* canReview for the browser.
CanReview(role) == role \in {"reviewer", "admin"}

\* resolveAccess for a tool call or for the review page, which also asks for
\* the role to be a reviewer's.  A refused request leaves no trace.
Arrive(r, kind, who, app, client) ==
  LET role == OpenedRole(who, client)
  IN /\ Step(r, "idle")
     /\ role # None
     /\ kind = "review" => CanReview(role)
     /\ req' = [req EXCEPT ![r] =
                  Open(kind, who, app, OpenedSlug(client), role,
                       IF kind = "review" THEN "decide" ELSE "limit")]
     /\ Quiet
     /\ UNCHANGED <<regVars, memVars>>

\* openClient, mutated: the limit of the default client.
ReadDefaultLimit(r) ==
  /\ Step(r, "limit")
  /\ req' = [req EXCEPT ![r].limit = limits[Default],
                        ![r].stage = req[r].kind]
  /\ Quiet
  /\ UNCHANGED <<regVars, memVars>>

\* openClient: the write limit, read in a second call to the registry.
ReadLimit(r) ==
  /\ Step(r, "limit")
  /\ req' = [req EXCEPT ![r].limit = limits[req[r].slug],
                        ![r].stage = req[r].kind]
  /\ Quiet
  /\ UNCHANGED <<regVars, memVars>>

(***************************************************************************)
(* Writing.                                                                *)
(***************************************************************************)

Counter(r) == <<req[r].slug, <<req[r].who, req[r].app>>>>

\* consumeWrite: against the limit the request read.
Count(r) ==
  /\ counts[Counter(r)] < req[r].limit
  /\ counts' = [counts EXCEPT ![Counter(r)] = @ + 1]
  /\ Accept(r, counts[Counter(r)] + 1)

\* record_episode: a text that is already stored keeps its first recorder.
RecordEpisode(r, c, source) ==
  /\ Step(r, "record")
  /\ Count(r)
  /\ LET slot == <<req[r].slug, c>>
         mine == [who |-> req[r].who, app |-> req[r].app, source |-> source]
     IN episodes' = [episodes EXCEPT ![slot] = IF @ = None THEN mine ELSE @]
  /\ req' = [req EXCEPT ![r] = Idle]
  /\ told' = NoAnswer
  /\ UNCHANGED regVars

\* originForEvidence, mutated: whoever recorded the evidence.
ReadAnyEvidence(r, c) ==
  LET meta == episodes[req[r].slug, c]
  IN /\ Step(r, "assert")
     /\ meta # None
     /\ req' = [req EXCEPT ![r].evidence = c, ![r].source = meta.source,
                           ![r].stage = "allow"]
     /\ Quiet
     /\ UNCHANGED <<regVars, memVars>>

\* originForEvidence: whose evidence is it, and from which source.
ReadEvidence(r, c) ==
  LET meta == episodes[req[r].slug, c]
      own == meta.who = req[r].who /\ meta.app = req[r].app
  IN /\ Step(r, "assert")
     /\ meta # None
     /\ req' = [req EXCEPT ![r].evidence = c, ![r].source = meta.source,
                           ![r].stage = IF own THEN "allow" ELSE "write"]
     /\ Quiet
     /\ UNCHANGED <<regVars, memVars>>

\* originForEvidence: is this identity trusted for that source.
AskAllowlist(r) ==
  /\ Step(r, "allow")
  /\ req' = [req EXCEPT ![r].stage = "write", ![r].origin =
               IF IsAllowlisted(req[r].slug, req[r].who, req[r].app, req[r].source)
               THEN "allowlisted_source" ELSE "mcp"]
  /\ Quiet
  /\ UNCHANGED <<regVars, memVars>>

AssertFact(r) ==
  /\ Step(r, "write")
  /\ Count(r)
  /\ req' = [req EXCEPT ![r] = Idle]
  /\ told' = NoAnswer
  /\ UNCHANGED <<regVars, episodes>>

(***************************************************************************)
(* suggest_facts: the model reads an episode, then its suggestions are     *)
(* written one at a time.                                                  *)
(***************************************************************************)

ReadEpisode(r, c) ==
  /\ Step(r, "suggest")
  /\ episodes[req[r].slug, c] # None
  /\ req' = [req EXCEPT ![r].evidence = c, ![r].origin = "ai_suggestion",
                        ![r].stage = "model"]
  /\ Quiet
  /\ UNCHANGED <<regVars, memVars>>

\* The answer holds suggestions that are valid, that have the right shape but
\* are refused by assertFact (which counts no write), and that have another
\* shape: parseSuggestions leaves those out before anything is counted.
ModelAnswers(r, valid, refused, shapeless) ==
  /\ Step(r, "model")
  /\ req' = [req EXCEPT ![r].left = valid, ![r].dropped = refused,
                        ![r].offered = valid + refused + shapeless,
                        ![r].stage = "suggestions"]
  /\ Quiet
  /\ UNCHANGED <<regVars, memVars>>

WriteSuggestion(r) ==
  /\ Step(r, "suggestions") /\ req[r].left > 0
  /\ Count(r)
  /\ req' = [req EXCEPT ![r].left = @ - 1, ![r].stored = @ + 1]
  /\ told' = NoAnswer
  /\ UNCHANGED <<regVars, episodes>>

AnswerSuggest(r) ==
  /\ Step(r, "suggestions") /\ req[r].left = 0
  /\ told' = [offered |-> req[r].offered, stored |-> req[r].stored,
              dropped |-> req[r].dropped]
  /\ req' = [req EXCEPT ![r] = Idle]
  /\ last' = Idle
  /\ UNCHANGED <<regVars, memVars>>

(***************************************************************************)
(* Deciding, failing, and the minute.                                      *)
(***************************************************************************)

\* confirmFact or rejectFact, called on what the role allowed earlier.
Decide(r) ==
  /\ Step(r, "decide")
  /\ Accept(r, 0)
  /\ req' = [req EXCEPT ![r] = Idle]
  /\ told' = NoAnswer
  /\ UNCHANGED <<regVars, memVars>>

\* A request may end with an error in any call: the write limit, something
\* that is not found, a proposal that is decided already, an outage.
Fail(r) ==
  /\ ~Step(r, "idle")
  /\ req' = [req EXCEPT ![r] = Idle]
  /\ Quiet
  /\ UNCHANGED <<regVars, memVars>>

\* The window of consumeWrite passes.
NextMinute ==
  /\ counts' = [p \in Slug \X Principal |-> 0]
  /\ counts # counts'
  /\ Quiet
  /\ UNCHANGED <<regVars, req, episodes>>

AdminStep == Administer /\ Quiet /\ UNCHANGED <<req, memVars>>

Work(r) ==
  \/ \E kind \in Kinds, who \in Email, app \in App, client \in Slug \cup {None} :
       Arrive(r, kind, who, app, client)
  \/ ReadLimit(r)
  \/ \E c \in Content, source \in Source : RecordEpisode(r, c, source)
  \/ \E c \in Content : ReadEvidence(r, c)
  \/ AskAllowlist(r)
  \/ AssertFact(r)
  \/ \E c \in Content : ReadEpisode(r, c)
  \/ \E v, b, s \in 0..MaxOffer : ModelAnswers(r, v, b, s)
  \/ WriteSuggestion(r)
  \/ AnswerSuggest(r)
  \/ Decide(r)
  \/ Fail(r)

Next == AdminStep \/ NextMinute \/ \E r \in Request : Work(r)

Spec == Init /\ [][Next]_vars

(***************************************************************************)
(* Properties.                                                             *)
(***************************************************************************)

\* The person could open the client with that role after the first k entries
\* of the registry's log.
MayOpenAt(k, who, s, role) ==
  \/ who \in Admins /\ role = "admin" /\ IF MultiAt(k) THEN ClientAt(k, s) ELSE s = Default
  \/ who \notin Admins /\ role \in MemberRole /\
       \/ RoleAt(k, who, s, role) /\ (MultiAt(k) \/ s = Default)
       \/ /\ ~MultiAt(k) /\ s = Default /\ role = "member"
          /\ ~\E q \in MemberRole : RoleAt(k, who, s, q)

\* The states of the registry, by its log's length, while the call was on its way.
During(call) == call.began..call.at

Accepted == last # Idle

\* Every write and every decision lands in a client its caller could open, with
\* the role the caller had there, at some time since the request arrived; a
\* change of mode or membership in between delays no longer than that.
WritesWhereAllowed ==
  Accepted => \E k \in During(last) : MayOpenAt(k, last.who, last.slug, last.role)

\* A decision was taken by somebody who was a reviewer or an administrator of
\* that client at some time since the request arrived.
ReviewersDecide ==
  Accepted /\ last.kind = "review" =>
    \/ last.who \in Admins
    \/ \E k \in During(last) : RoleAt(k, last.who, last.slug, "reviewer")

\* A fact arrives trusted only on evidence that the same person recorded through
\* the same OAuth client, in that client, under a source for which a rule was in
\* force at some time since the request arrived.
TrustFollowsEvidence ==
  Accepted /\ last.origin = "allowlisted_source" =>
    LET meta == episodes[last.slug, last.evidence]
    IN /\ meta # None /\ meta.who = last.who /\ meta.app = last.app
       /\ \E k \in During(last) :
            RuleAt(k, [client |-> last.slug, who |-> last.who, app |-> last.app,
                       source |-> meta.source])

\* No write is the n-th of its principal in a minute unless n writes were allowed
\* in that client at some time since the request arrived.
WritesWithinLimit ==
  Accepted /\ last.nth > 0 =>
    \E k \in During(last), n \in Limit \cup {DefaultLimit} :
      LimitAt(k, last.slug, n) /\ last.nth <= n

\* What suggest_facts says of itself: what it does not store is counted.
DroppedAreCounted == told.offered = told.stored + told.dropped
=============================================================================
