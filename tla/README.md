# KeenDreams, specified in TLA+

These modules model the Worker of this repository (`worker/src`): a memory
service for security teams, in which assistants and automations record evidence
and assert facts, people confirm or reject them, and every later answer depends
on which facts are *trusted*. TLC checks the models on small instances; TLAPS
proves the most important results for every value of the constants.

- [1. The system](#1-the-system): components, state, interactions, hazards
- [2. The modules and the code they model](#2-the-modules-and-the-code-they-model)
- [3. The runs](#3-the-runs): what each one checks, its bounds
- [4. What is proved](#4-what-is-proved)
- [5. Where documents and code disagree](#5-where-documents-and-code-disagree)
- [6. What is not modelled](#6-what-is-not-modelled)
- [7. Plan](#7-plan)

To run everything: `tlc -config <cfg> <module>` for each line of the table in
section 3 and `tlapm <module>` for each module of section 4.
`PROJECT.json` lists components, runs, the mutated definition that breaks each
property, the source lines of each definition, findings, hazards and theorems.

## 1. The system

A Worker receives requests from MCP clients (tools) and from browsers (the
review and administration pages). It keeps its state in two kinds of Durable
Object, each with its own SQLite database and each executing one event at a
time except at an `await`:

| Component | Source (under `worker/src`) | State | Operations that change it |
|---|---|---|---|
| Facts, review, rollback | `memory/facts.ts`, `memory/review.ts` | table `facts`, `fact_evidence` | assertFact, confirmFact, rejectFact, rollbackTo |
| Episodes, entities | `memory/episodes.ts`, `memory/entities.ts` | `episodes`, `entities`, `fts` | recordEpisode, upsertEntity |
| Write limits | `memory/limits.ts` | `write_counters` | consumeWrite |
| Audit log | `memory/audit.ts` | `audit_log` (append-only, hash chained) | appendAudit |
| Vector queue and alarm | `search/queue.ts`, `memory/ClientMemory.ts` | `vector_queue`, the object's alarm | enqueue, scheduleDrain, alarm/drain, reindexFailed |
| Recall | `search/recall.ts`, `rrf.ts`, `fts.ts` | none of its own; awaits between two reads | recall |
| Suggestions | `search/suggest.ts`, `ClientMemory.suggestFacts` | none of its own; writes in a loop | suggestFacts |
| Registry | `registry/*` | `settings`, `clients`, `members`, `source_allowlist`, `limits`, its own `audit_log` | setMode, createClient, setMember, removeMember, allowSource, revokeSource, setWriteLimit |
| MCP tools | `mcp/context.ts`, `mcp/tools.ts` | what a request has read so far | openClient, originForEvidence, the tools |
| Review page, administration page | `web/review.ts`, `web/admin.ts` | as above | reviewResponse, applyAction |
| Sign-in | `auth/*` | `OAUTH_KV` (single-use values), signed cookies | consent, the hop to the identity provider, callback |
| Demo | `web/demo.ts` | seeds facts | seedDemo |
| Fact queries | `memory/queries.ts`, `factView.ts` | none | queryFacts, history, exploreGraph |

How they interact. A tool call makes several calls in a row: to the registry
(who is it, which client, which role; then the write limit), to the client's
memory (whose evidence is this), to the registry again (is this identity
allowlisted for that source) and to the memory (the write, in one
`transactionSync`). After the write commits, the memory object *schedules a
drain*: it awaits `getAlarm`, sets the alarm, and when the alarm fires a batch
of rows goes to the embedding model and to the vector index, with awaits in
between. Recall reads candidates, awaits the model and the index, and then reads
the facts.

What is hard in it:

- *Rollback.* A decision closes other facts; a rollback clears decisions and
  reopens what they closed; it may be followed by other rollbacks to other
  depths. The table has to stay the view of the log that the log's standing
  decisions define.
- *The past.* Queries as of a time read rows as they are now.
- *Check, then act, in another object.* Role, limit, evidence and allowlist are
  read in earlier calls than the one that acts on them.
- *The alarm.* Writes, reindex requests, restarts and the alarm itself race for
  one alarm and the same rows; a batch fails as a whole.
- *Recall's awaits.* Facts are confirmed, superseded and rolled back while the
  model thinks.
- *Single use of sign-in state.* The value behind a consent form or a callback
  is read and deleted in two calls to an eventually consistent store, so two
  requests may both take it. The list of approved applications comes with a
  cookie and is written back whole. A form or a callback link need not be sent
  by the browser it was made for.
- *Reading.* What is current is written down three times in the queries; the
  graph is a bounded walk; every list has a limit, given or not; a history
  selects rows of the log.

`PROJECT.json` ("hazards") lists each one with the line where it bites and the
properties that would catch it.

What makes each component correct: for the memory, that trust always has a
reason in the log, that contradicting facts are never both trusted, that nothing
rewrites the past; for the queue, that no row is lost and every row ends; for
the gateway, that what a request does was allowed at some time since it arrived;
for the registry, that its log tells its tables; for recall, that only what was
settled as of the question's time passes as settled, and that the ranking is
the promised one; for the queries, that they agree on what is current and that a
history accounts for what it shows; for the audit chain, that a change of what
the log says is reported at the row where it shows; for sign-in, that access is
granted only after a form with the token of a page shown for that application
was sent approved and after one unused sign-in, and a page served only to whom
it says.

## 2. The modules and the code they model

| Module | Models | Extends |
|---|---|---|
| `Predicates` | the rule table and initial trust (`policy/`) | |
| `FactMemory` | the client database: one action per write handler, each a transaction | `Predicates` |
| `FactSafety` | what that database promises | `FactMemory` |
| `TrustLedger` | abstract: a ledger of standing decisions, and the facts that prevail in it | |
| `FactRefinement` | `FactMemory` implements `TrustLedger` (`INSTANCE ... WITH`) | `FactSafety` |
| `FactInvariance`, `FactPromises` | the inductive invariant, and what it implies: past, references, rollback, ledger, limit, history | `FactRefinement`, `FactQueries` |
| `FactQueries` | the queries of `memory/queries.ts`, as operators on that database | `FactSafety` |
| `AuditChain` | the hash chain of the log, its verification, changes made behind its back | `FactMemory` |
| `QueryProofs` | the graph and its paths, the answers that agree, what verification finds | `FactPromises`, `AuditChain` |
| `NumberedSteps` | induction over numbered steps, in the form the provers can use | |
| `VectorQueue` | `vector_queue`, the alarm, the drain, `scheduleDrain`, restarts | |
| `VectorQueueProofs` | the queue and the batch that is away agree; nothing is lost | `VectorQueue` |
| `Registry` | the registry object and its log | |
| `Gateway` | requests between caller, registry and memories | `Registry` |
| `GatewayProofs` | the registry follows its log; reads are right | `Gateway` |
| `Recall` | one hybrid search, with decisions during its awaits | |
| `RecallProofs` | stale reads, the fused order, what is found is shown, every question has an answer | `Recall` |
| `SignIn` | consent, the hop to the identity provider, the callback, the session | |
| `SignInPromise` | abstract: what a grant of access needs | |
| `SignInProofs` | sign-in's invariant, and that it implements the promise | `SignIn` |
| `MCFactMemory`, `MCFactQueries`, `MCGateway`, `MCRecall`, `MCSignIn` | instances for TLC | |

**FactMemory.** Each variable is a table (`facts` with `fact_evidence`,
`episodes`, `entities`, `fts`, `audit`, `counters`); `queue` collects what
`enqueue` was given; `clock` is the time. A call that throws rolls its
transaction back and has no action. `RecordEpisode`, `RecordDuplicate`,
`AssertNew`, `Corroborate`, `ConfirmFact`, `RejectFact` and `RollbackTo` are the
paths of the handlers of those names; each performs everything its handler does,
`consumeWrite`, `appendAudit`, the search text and the queue included.
`ApplySupersession`, `MarkTrusted` and `RolledBack` are operators on the table,
as they are helpers in the code. Timestamps are numbers; texts are model values
that stand for what redaction and hashing return. Columns on which nothing
depends are left out.

**TrustLedger** says what the memory promises without tables: claims, a ledger
of ranked decisions, and the set of trusted facts, which are those that no later
standing grant closes. A rollback drops the decisions after its target.

**FactQueries.** A query runs in one call of the object, so it is an operator
on the state. `ORDER BY recorded_at LIMIT n` leaves open which of several rows
with one time come first (they are ordered by random ids): `Newest` and
`Oldest` are the sets of facts that such a list may hold, and a query's value is
the set of its possible answers. `ClampLimit` is `clampLimit`: no limit given is
the default, a limit past the greatest is the greatest, and one that is refused
is a call without an answer; `FindCurrent`, `FindByStatus` and `ListProposals`
take the caller's limit through it. `Walk` is the recursive table of `exploreGraph`,
as a recursive function over depths; the property states reachability by paths.

**AuditChain.** A hash is the value it was computed from, which says of SHA-256
that different rows have different hashes and no more. It is computed from the
detail itself while the row stores a text, so a detail has a `Spelling`: the one
`JSON.stringify` writes, another with which the parsed value is written the
same, or one that does not parse. `StoredRows` is what `appendAudit` leaves for
a log, `StopsAt` where `verifyAuditChain` stops, with an answer (`Reports`) or
with the exception of `JSON.parse` (`Throws`). `Altered`, `Forged`, `Removed`
and `Exchanged` change stored rows directly.

**VectorQueue.** `attempts` is the table; `due` holds the rows whose `next_at`
has passed and `older` which of them has the earlier `next_at`, so backoff is
"some time later". `DueItems` are the batches that `dueItems` may read: the
oldest rows, as many as the batch takes. `drain` is the alarm run in progress
with what it read before its awaits. A call to the model or the index may fail
in any phase, or land and lose its answer (`UpsertLands` followed by
`MarkFailed`). `Crash` ends what is in progress, keeps storage, lets an
interrupted alarm run again, and may add or remove the search bindings.

**Registry and Gateway.** One action per administration operation with its
audit row. A request is a record of what it has read; each call is one action,
and administrators and other requests act in between. `During` is the
span of the registry's log from the request's arrival to the call that acted.
`FactMemory` is not repeated in it: an accepted write is the record `last`. The
history variable `told` is what `suggest_facts` answered last.

**Recall.** `Ask` is `recall` up to its first await, `Answer` from its last one:
the code between them touches nothing. The rankings are external: any list of
distinct items. Scores are exact fractions where the code has doubles, so a tie
in the model may be decided by rounding in the code. An operator with several
possible values (`Listings`, `ReadOf`) stands where SQL states no order.
`facts` carries just the decision columns; `Confirm`, `Supersede`, `Reject` and
`Rollback` change them one row at a time, which allows every sequence that
`FactMemory`'s handlers produce and more.

**SignIn.** A request is a record of what it has read, with a stage after each
call it awaits: `took` after the store's `get`, then the value's kind after its
`delete`, `token` after `exchangeCode`, `verified` after `verifyIdToken`. Other
requests act in between, so two may take one value. A deleted value stays
readable for less than `Lag` (the store's locations disagree meanwhile) and may
also be missing, which is an answer without effect and needs no action. A
browser receives a cookie with the answer, or never (`Receive`). `SubmitForm` is
open to every browser: the handler compares the form's token with the stored
one and asks for no cookie (`handler.ts:177-181`; `csrfMatches` serves the
administration page, and the test at `auth-handler.test.ts:132` sends the form
without the cookie). A form whose sender cancelled uses its value up and changes
nothing else (`Fail`). The list it comes with, and the list that grows, are those
of the browser that sends it. That the stored values know a `browser` at all is
a history, used by the mapping to the promise. The variables
`agreed`, `grants`, `logins`, `spent`, `order` and `raced` are history: they
record who approved, was granted and signed in, when values were deleted, which
approvals a browser was told of, and whether two of them overlapped.
`SignInPromise` has neither cookies nor values nor requests; under the mapping
every call but showing the consent page, the approval, the provider's sign-in,
the exchange and the grant is a stutter. It says that an approval needs a page
shown for that application, in whichever browser; it does not say that the
browser that was shown the page is the one that approves, because that is not so.

## 3. The runs

| Run | Module, cfg | Shows |
|---|---|---|
| `fact` | `MCFactMemory_fact.cfg` | `IInv`, `ReferencesOK`, `TrustFromLog`, `NoContradiction`, `OneOpenPerClaim`, `RollbackRestores`, `ImplementsLedger` |
| `queries` | `MCFactQueries.cfg` | `OneTrustedPerClaim`, `WriteBudget`, `PastIsStable`, `GraphIsWithinReach`, `QueriesAgree`, `HistoryAccounts`, `TamperingShows` |
| `queue` | `MCVectorQueue.cfg` (module `VectorQueue`) | `QueueInv`, `NothingLost`, `InFlightUntouched`, `AlarmCoversQueue`, `Settles`, `SettlesOnceAsked` |
| `access` | `MCGateway_access.cfg` | `LogTellsTables`, `WritesWhereAllowed`, `ReviewersDecide`, `TrustFollowsEvidence` |
| `limit` | `MCGateway_limit.cfg` | `WritesWithinLimit` |
| `recall` | `MCRecall.cfg` | `RecallInv`, `SettledAsAsked`, `FoundIsShown`, `BothOutrankOne` |
| `signin` | `MCSignIn.cfg` | `SignInInv`, `OneUsePerSignIn`, `RemembersApprovals`, `ServedAsSignedIn`, `SpentStaysSpent`, `ImplementsPromise` |
| `only_review`, `restore_always`, `history`, `dropped`, `recall_order` | expected violations | section 5 |

**fact.** Three facts with one asset and one vulnerability, so that each
competes with each other; three predicates, two origins; six audit entries.
Three mutually closing facts and their interleaved reviews and rollbacks are
what it takes for a fact to be closed twice or reopened into a contradiction,
and six entries are enough to decide, roll back, decide again, roll back deeper
or shallower. `TrustFromLog` recomputes every status from the log;
`NoContradiction` allows two trusted facts only when the later decision does not
close the earlier one (a false positive confirmed before the vulnerability it
denies is confirmed is such a case; the rule table closes in one direction).
`RollbackRestores` demands the statuses just after the target entry, unless an
earlier rollback reached below that entry; section 5 shows that the condition is
needed. `OneOpenPerClaim` holds until the first rollback (a rollback may reopen
a rejected proposal beside the one asserted after the rejection).
`ImplementsLedger` is refinement of `TrustLedger`. Of the origins, `mcp` and
`ai_suggestion` both arrive as proposals and nothing later tells them apart, so
the instance has the first of them. Every decision here carries
the same time; only the order in the log tells them apart.

**queries.** Two predicates of a vulnerability and one of ownership over three
entities, so that the graph has two steps and the walk may return. The clock
moves (three ticks), facts may expire at the last of them, and the minute is two
ticks with two writes, so the write window rolls over and refuses. Three facts
can be current at once, and every limit lies below that: two edges, two facts of
a page, two versions, and lists of one row unless more is asked for and of two
at most, so each list occurs whole and cut, the graph included. `QueriesAgree`
asks with no limit, each one that counts and one past the greatest: a list
shorter than its limit is complete, whichever query gave it, and one that is cut
leaves out only what is no newer. `GraphIsWithinReach` demands the same of the
graph, which must also say that it was cut. `WriteBudget` ties the logged writes
to the limit and to the counters. It is the run in which equal and different
timestamps both occur. `TamperingShows` makes each logged row say what another
entry says, in each spelling, with its own hash computed anew or not, exchanges
two rows or removes one, in every log the run reaches.

**queue.** Two good items and one that the model refuses, batches of two (so
that good items share batches with the bad one), two attempts, two
`scheduleDrain` calls at a time, two restarts that may change the bindings.
Fairness: the platform settles what is awaited, fires a set alarm, and lets time
pass, each of them weakly fair as the object's event loop and the platform's
alarms promise; there is none for writes, requests or restarts, and none that
prefers success to failure: a call that always fails still ends, in
`MarkFailed`. `Settles` (no restart, bindings present) and `AlarmCoversQueue`
carry that condition because a restart between the commit and `setAlarm`, or an
alarm that fires without bindings, really leaves rows with no alarm;
`SettlesOnceAsked` shows what then brings them to an end. `[]<>` of a reindex
request is its assumption about users, not a fairness of the code. The check of
deadlock stays on.

**access, limit.** One request while administrators change modes, clients,
memberships and source rules (four changes), of a person with two OAuth
clients; then two requests of one principal while the limit and the mode change
(three changes). Each is enough to grant, revoke and change back between two
calls. In `access` a limit has one value and cannot be set, so what
`LogTellsTables` says of limits is exercised by its theorem only. `access` lets
the log fill up and everybody be removed, so it may stop
(`CHECK_DEADLOCK FALSE`); in the runs of the fact database the cause is the bound
on the audit log, in `signin` the bound on the values stored and on the clock.

**recall.** Three facts, one findable episode with two facts, one findable
entity with two facts; fusion keeps two items and the lookup two facts, so that
each cap bites; two decisions, two times. `RRF_K` is the code's 60: the scores
are those of the code. The question repeats, and deadlock is checked, so a
fused list and a sorted answer exist in each case; `EveryQuestionHasAnAnswer`
proves it for all.

**signin.** Two browsers and two applications, two requests at a time, one person
and one code of the provider; two consent requests and two sign-ins are stored
(`ConsentId`, `SignInId`), so two forms and two callbacks overlap in every order,
and a form may be answered while another's value is still readable. `MCSpec` is
`Spec` within `Bounded`: as long as one browser takes part everything happens
with a moving clock; once a second does the clock stands still and one value less
is stored. A form shown in one browser may be sent by the other, once, twice or
by both, and so may a callback link: the application then is on the list of the
browser that sent the form, the session in the one that followed the link, and
the grant still has its approval and its unused sign-in. The mutant
`SkipWhereverApproved`, which takes any browser's approval for everybody's,
breaks `SignInInv` only with two browsers. A session lasts one tick and the list
holds two applications; that a third pushes the first out needs more approvals
than the run has, and is covered by `ApprovalsRemembered`, which holds for every
limit and any number of approvals. With one person and one code TLC cannot
confuse two of them; that a grant and a page name the right person among several
rests on the proofs, which are about `Spec` without the bound and hold for any
number of browsers, stored values and ticks.

Every property has a mutant in `PROJECT.json`: a definition in the form a
plausible mistake would give it (for instance `ClosedFrom`, which reopens from
the target entry itself on, `NewestDue`, which starves the oldest rows,
`CurrentWhenever`, which forgets when a fact was confirmed, or `AnyToken`, which
leaves out the form's token). The run must then
find the property violated.

## 4. What is proved

Checked by TLAPS for every value of the constants that satisfies the named
`ASSUME`s (`ConstantsOK`, `QuerySizes`, `RegistryConstants`, `GatewayConstants`,
`RecallConstants`, `RankingSizes`, `QueueConstants`, `SignInConstants`), which TLC
evaluates on every instance.

**The client database** (`FactInvariance`, `FactPromises`). No
property of section 3 is inductive alone: that two facts do not contradict each
other after a rollback depends on what the rollback finds in the columns of
*closed* facts. The inductive invariant `IInv` therefore relates the columns to
each other (`RowsAgree`: a closed fact names a later standing decision that
closes it, and everything a later decision closes is closed no later than that)
and to the log (`DecisionsAgree`: decided facts and standing log entries are in
one-to-one correspondence). `Invariance` proves it action by action
(`AssertNewKeepsIInv`, ..., `RollbackKeepsIInv`). From it follow `TypeCorrect`,
`NeverContradicts`, `OneTrusted`, and `TableFromLog`: the status of each fact is
the one a replay of the log gives. `PastStable` uses it to show that a decision
stamped now, or a rollback, shows or hides nothing as of an earlier time.

Some results say more than `IInv`. `RollbackIsRight`: the entries standing after
a rollback to entry *t* are those standing in the log cut at *t* (given that no
later rollback undid more), and the table is the view of the standing entries.
`ImplementsItsLedger`: the trusted rows are exactly those that prevail among the
decisions in the columns (`WhoPrevails`), hence every step of the database is a
step of `TrustLedger` or none. `OneOpenRow` and `NothingDangles` rest on lemmas
that no update rewrites what a row says (`AssertNewContent`, `ReviewContent`,
...). `WritesAreLimited` needs that a counter's window is the principal's latest
and has counted all its logged writes (`Budgets`), and states both beside the
limit; `HistoryIsComplete` that every
row was asserted by an entry of the log (`Recorded`).

**Induction** (`NumberedSteps`). The walk of the graph, the hashes of the log and
the references in a fused list are functions computed step by step. What they
are after *n* steps, for every *n*, is proved with `EveryNumber`: a set of
numbers that holds 0, and *n + 1* with *n*, holds them all, because a number
outside it would have a least one (`LeastNatural`). Each use names its set, `{n
\in Nat : ...}`, and first shows that the function exists (`LevelsExist`,
`HashesExist`, `CollectsExists`).

**Queries and the audit chain** (`QueryProofs`). `FoundIsNear`: what the walk has
found at depth *n* is what a path of at most *n* current relationships reaches.
With `IInv` the graph's own idea of what is current is the one of the searches
(`WalkableIsCurrent`), and a limit leaves all rows or exactly that many, none
older than one left out (`ShowsOf`), for sets of facts of any size; that is
`GraphWithin`, and `GraphShowsReach` states it of every reachable state.
`SameAnswers` adds that a first step leads where the page's neighbours are, and
that a list shorter than its limit is the whole one (`ShortIsWhole`), for every
limit asked for; it rests on the assumption `QuerySizes`, that the limits are at
least one. For the log, the hashes of the rows are pairwise different
(`StoredHashes`: each contains its row's number), so a row that was moved,
altered or lost its predecessor fits nowhere; `StopsHere` turns that into the row
verification stops at, and `ChangesShow` says it of every change `AuditChain`
models. `LastHashFixesLog` goes further: *any* rows, of any number, that verify
and end with the log's last hash say what the log says, row by row, up to the
spelling of their details. What verification cannot see, a log cut at its end or
rehashed from some row on, is thus just what keeping the last hash elsewhere
would show; a detail spelt differently says the same.

**Registry and gateway** (`GatewayProofs`). `Latest`, what the
log says last of a subject, changes in one way when an entry is appended
(`LatestNew`), from which `LogTellsTables` is inductive. `GatewayInv` adds, for
every request on its way, that what it has read *was right at some time since it
arrived* (`ReadRight`). Such a statement survives everything others do, since
the log only grows; that makes it inductive, and it is all that the acting call
needs. `AccessIsRight`, `DecisionsByReviewers`, `TrustIsEarned`, `LimitHolds` and
`TablesFollowLog` are its consequences.

**The queue** (`VectorQueueProofs`). `NothingLost` and `InFlightUntouched` are
inductive only together with `QueueInv`: rows exist only for what a write
queued, rows due are rows that may still be tried, an idle drain holds no batch,
and a batch past the upsert is in the index. That the batch's rows are what was
read then makes `markFailed` stay within the attempts allowed, and `markDone`
delete only what the index has. `QueueInOrder`, `QueueLosesNothing`,
`BatchLeftAlone` and `AlarmAlwaysCovers` hold for any number of items, attempts,
calls and restarts.

**Sign-in** (`SignInProofs`). `SignInInv` relates the four places that know about
a sign-in: a value for the identity provider was put by a browser that sent an
approval of its application, a cookie lists only applications approved by a form
its browser sent, a request past the exchange holds a used code, and a session
was made by a login there. Nothing relates the browser that sends a form to the
one it was shown in, as nothing in the code does. Two requests may
hold one value, but `Exchangeable` lets only one of them past the exchange:
`CodesUsedOnce`. `NoLateReuseEver` and `PagesServedRight` follow from the same
invariant, and `PromiseKept` is the refinement of `SignInPromise`, step by step: the value a
form took was put by `ShowConsent` for the application (`ShownStays`).
`ApprovalsRemembered` needs more: `Remembering` says of every browser that the
latest approval of each application told to it has a place in their order
(`EachHasALatest`), and of every form that its list was the browser's at some
time. `ApproveKeeps` states what `approvedClientsCookie` does to a list, the
limit and the filtered entry included; `ApprovalHeard` carries it over to the
approvals told, with the exact part only while no two overlapped.

**Recall** (`RecallProofs`). `AskedIsInView`: while a question waits, what the
store shows as of its time is one of the views it had, because a decision at a
later time leaves that set alone (`LaterDecision`). `SettledAnswers` follows.
`BothComeFirst` rests on `2ab <= M(a+b)` for places `a, b <= M` and on
`RRF_K + PerLeg < 2 (RRF_K + 1)`, the assumption `RankingSizes`, which the code's
60 and 50 satisfy and 60 and 62 would not.

`FoundIsAnswered`: the references to facts among the fused items come first and
are no more than the items (`FactRefs`), so with `MaxFused <= MaxFactIds` none is
cut away; a listing leaves out nothing that is read (`ListsAll`), and the limit
cuts only a full answer. `EveryQuestionHasAnAnswer`: scores are fractions, and
comparing them, with a rank where they are the same, is a strict total order
(`ByScore`); a finite set has exactly one list in such an order (`OrderExists`,
`OrderUnique`). So the sort's result does not depend on the order in which rows
arrive, and `Answer` is never stuck.

**Only model-checked**: the liveness properties `Settles` and
`SettlesOnceAsked`, whose fairness is stated with `ENABLED`, which is out of the
provers' reach. Every invariant and every action property of a passing run is
also a theorem.

## 5. Where documents and code disagree

Five runs check a sentence of the repository and find it violated.

1. `only_review`: the review page says that confirming is the only way a fact
   becomes trusted; an allowlisted source makes one trusted on arrival or by
   corroboration.
2. `restore_always`: the design document says rollback restores the prior trusted
   set. Decisions that an earlier, deeper rollback undid stay undone when one
   later rolls back to a newer entry: the columns that would restore them are
   cleared. In the run an allowlisted source makes a fact trusted; a rollback to
   before that entry and one to the entry itself leave it proposed.
3. `dropped`: `suggest_facts` is described as counting what it drops; items of
   the wrong shape, and those past the tenth, are cut away before the count.
4. `recall_order`: `rankedFactIds` is said to keep the fused order, yet a fact
   reached through an entity or an additional episode is scored
   `1 / (1 + index)`, far above any fused score when few items are fused, and is
   answered before facts that both searches found.
5. `history`: `fact_history` is described as the full timeline of a relationship.
   It selects the log's rows by fact id, and a rollback is logged under the entry
   it goes back to: after one, the timeline ends with the decision that was
   undone, beside a fact that is a proposal again.

The design document also says of the sign-in state that it is consumed once.
The store's own comment limits that to best effort, and the model agrees with
the comment: two overlapping requests may take one value. What holds
nevertheless is `OneUsePerSignIn`.

## 6. What is not modelled

- Text: redaction, canonical keys, validation, FTS queries, prompts, HTML. The
  models start from what these return. They are pure functions built on regular
  expressions, of which a model over model values would say nothing.
- Cryptography, tokens and the OAuth library: a signature verifies or does not, a
  token is accepted or not (`VerifyToken`, `Fail`).
- The time to live of stored sign-in values: a `get` may return nothing at any
  time. Answers that clear a cookie are left out; the cookie simply stays.
- The MCP protocol layer, health and setup pages, configuration, types: no state.
- The pages of `web/` that render what they read. The administration page's
  actions are the actions of the objects it calls.
- Demo mode: sample data, written with the operations that are modelled, for a
  local try-out.
- Migrations: the client's database has two versions and the registry one; an
  object runs those it misses in order, in one transaction before it serves
  anything. The models start from the newest schema.
- Columns that are only displayed, and calls refused for a limit that is not a
  positive whole number.
- Years outside 0000-9999, whose timestamps would not compare as times.

Bounds (`MaxAudit`, `MaxTime`, `MaxLog`, `MaxCalls`, `MaxCrashes`, `MaxNow`,
`MaxWrites`, `Kinds`, `AdminWork`, `Findable`, `Settled`) appear in guards, inputs
or the initial states and are named where they are declared; the proofs hold for
any of them. `Bounded` is a bound of `MCSignIn` alone.

## 7. Plan

Done, in this order: the client database with its abstract ledger and proofs;
the vector queue; registry and gateway with proofs; recall with proofs; sign-in
with its promise and proofs; the queries and the audit chain; the proofs of the
queue; the proofs of the database's remaining invariants, of rollback and of the
ledger; the proofs of the queries, of the audit chain and of what a search shows.

What would come next: that a transaction of `FactMemory`, seen through the decision
columns, is a sequence of `Recall`'s one-row writes, which section 2 argues and
no theorem states; the demo's seeding, whose check for existing facts and
writes are separate calls; and a client database that was in use before its
second version, whose facts and episodes the queue then does not hold.
