------------------------------ MODULE Registry ------------------------------
(***************************************************************************)
(* The Registry durable object: which mode the deployment runs in, which   *)
(* clients exist, who may open them with what role, which automation       *)
(* identities are trusted, and the write limits.  Every operation is one   *)
(* storage transaction called from the administration page; those that     *)
(* change something append one row to the registry's own audit log.  An    *)
(* operation that throws changes nothing and is not a step.                *)
(***************************************************************************)
EXTENDS Naturals, Sequences, FiniteSets

CONSTANTS
  Email,        \* people and automations, by email
  Admins,       \* ADMIN_EMAILS
  App,          \* OAuth clients
  Source,       \* declared sources of evidence
  Slug,         \* client slugs
  Default,      \* DEFAULT_CLIENT, the slug that exists from the start
  None,         \* no value: a request without a client, no stored role
  Limit,        \* write limits an administrator may set
  DefaultLimit, \* DEFAULT_WRITES_PER_MINUTE
  AdminWork,    \* bound: the operations administrators use in a run
  MaxLog        \* bound: entries of the registry's audit log

ASSUME RegistryConstants ==
  /\ Admins \subseteq Email
  /\ Default \in Slug
  /\ None \notin Slug \cup {"member", "reviewer", "admin"}
  /\ Limit \subseteq Nat \ {0} /\ DefaultLimit \in Nat \ {0}
  /\ MaxLog \in Nat

VARIABLES
  mode,      \* settings: "single" or "multi"
  clients,   \* table clients
  members,   \* table members: the role stored for a person in a client
  allowlist, \* table source_allowlist
  limits,    \* table limits, the default where it has no row
  regLog     \* table audit_log of the registry

tables == <<mode, clients, members, allowlist, limits>>
regVars == <<tables, regLog>>

MemberRole == {"member", "reviewer"}

\* A rule: facts this identity asserts from this source arrive trusted.
Rule == [client : Slug, who : Email, app : App, source : Source]

RegInit ==
  /\ mode = "single"
  /\ clients = {Default}
  /\ members = [p \in Email \X Slug |-> None]
  /\ allowlist = {}
  /\ limits = [s \in Slug |-> DefaultLimit]
  /\ regLog = << >>

(***************************************************************************)
(* Reads.                                                                  *)
(***************************************************************************)

\* resolveAccess: the slug a request for `client` opens ...
OpenedSlug(client) == IF mode = "single" THEN Default ELSE client

\* resolveAccess, mutated: membership of any client opens every client.
AnyMembership(who, client) ==
  IF mode = "single"
  THEN IF client \notin {None, Default} THEN None
       ELSE IF who \in Admins THEN "admin"
       ELSE IF members[who, Default] # None THEN members[who, Default]
       ELSE "member"
  ELSE IF client \notin clients THEN None
       ELSE IF who \in Admins THEN "admin"
       ELSE IF \E s \in clients : members[who, s] # None THEN "member"
       ELSE None

\* resolveAccess: ... and the role it opens it with, None when it is refused.
OpenedRole(who, client) ==
  IF mode = "single"
  THEN IF client \notin {None, Default} THEN None
       ELSE IF who \in Admins THEN "admin"
       ELSE IF members[who, Default] # None THEN members[who, Default]
       ELSE "member"
  ELSE IF client \notin clients THEN None
       ELSE IF who \in Admins THEN "admin"
       ELSE members[who, client]

\* isAllowlisted.
IsAllowlisted(s, who, app, source) ==
  [client |-> s, who |-> who, app |-> app, source |-> source] \in allowlist

(***************************************************************************)
(* The administration page's operations.                                   *)
(***************************************************************************)

\* record: one audit row per operation.
Record(action, about, value) ==
  /\ Len(regLog) < MaxLog
  /\ action \in AdminWork
  /\ regLog' = Append(regLog, [action |-> action, about |-> about, value |-> value])

SetMode(m) ==
  /\ mode' = m
  /\ Record("set_mode", None, m)
  /\ UNCHANGED <<clients, members, allowlist, limits>>

CreateClient(s) ==
  /\ s \notin clients
  /\ clients' = clients \cup {s}
  /\ Record("create_client", s, TRUE)
  /\ UNCHANGED <<mode, members, allowlist, limits>>

SetMember(who, s, role) ==
  /\ s \in clients
  /\ members' = [members EXCEPT ![<<who, s>>] = role]
  /\ Record("set_member", <<who, s>>, role)
  /\ UNCHANGED <<mode, clients, allowlist, limits>>

\* removeMember, mutated: the removal takes the person out of every client.
RemoveEverywhere(who, s) ==
  /\ members[who, s] # None
  /\ members' = [p \in Email \X Slug |-> IF p[1] = who THEN None ELSE members[p]]
  /\ Record("remove_member", <<who, s>>, None)
  /\ UNCHANGED <<mode, clients, allowlist, limits>>

\* Nothing is recorded for a person who was no member.
RemoveMember(who, s) ==
  /\ members[who, s] # None
  /\ members' = [members EXCEPT ![<<who, s>>] = None]
  /\ Record("remove_member", <<who, s>>, None)
  /\ UNCHANGED <<mode, clients, allowlist, limits>>

\* A rule that exists already is recorded again.
AllowSource(r) ==
  /\ r.client \in clients
  /\ allowlist' = allowlist \cup {r}
  /\ Record("allow_source", r, TRUE)
  /\ UNCHANGED <<mode, clients, members, limits>>

RevokeSource(r) ==
  /\ r \in allowlist
  /\ allowlist' = allowlist \ {r}
  /\ Record("revoke_source", r, FALSE)
  /\ UNCHANGED <<mode, clients, members, limits>>

SetWriteLimit(s, n) ==
  /\ s \in clients
  /\ limits' = [limits EXCEPT ![s] = n]
  /\ Record("set_write_limit", s, n)
  /\ UNCHANGED <<mode, clients, members, allowlist>>

Administer ==
  \/ \E m \in {"single", "multi"} : SetMode(m)
  \/ \E s \in Slug : CreateClient(s)
  \/ \E who \in Email, s \in Slug, role \in MemberRole : SetMember(who, s, role)
  \/ \E who \in Email, s \in Slug : RemoveMember(who, s)
  \/ \E r \in Rule : AllowSource(r)
  \/ \E r \in allowlist : RevokeSource(r)
  \/ \E s \in Slug, n \in Limit : SetWriteLimit(s, n)

(***************************************************************************)
(* What the audit log says was in force after its first k entries.         *)
(***************************************************************************)

\* The value of the latest of the first k entries about x with one of these
\* actions is v.
Latest(log, k, actions, x, v) ==
  \E i \in 1..k :
    /\ log[i].action \in actions /\ log[i].about = x /\ log[i].value = v
    /\ \A j \in (i + 1)..k : ~(log[j].action \in actions /\ log[j].about = x)

MultiAt(k)     == Latest(regLog, k, {"set_mode"}, None, "multi")
ClientAt(k, s) == s = Default \/ Latest(regLog, k, {"create_client"}, s, TRUE)
RoleAt(k, who, s, role) ==
  Latest(regLog, k, {"set_member", "remove_member"}, <<who, s>>, role)
RuleAt(k, r)   == Latest(regLog, k, {"allow_source", "revoke_source"}, r, TRUE)
LimitAt(k, s, n) ==
  \/ Latest(regLog, k, {"set_write_limit"}, s, n)
  \/ /\ n = DefaultLimit
     /\ ~\E m \in Limit : Latest(regLog, k, {"set_write_limit"}, s, m)

Now == Len(regLog)

ModeTold    == mode = "multi" <=> MultiAt(Now)
ClientsTold == clients = {s \in Slug : ClientAt(Now, s)}
MembersTold == \A who \in Email, s \in Slug, role \in MemberRole :
                 members[who, s] = role <=> RoleAt(Now, who, s, role)
RulesTold   == allowlist = {r \in Rule : RuleAt(Now, r)}
LimitsTold  == \A s \in Slug : LimitAt(Now, s, limits[s])

\* The registry's tables are what its audit log says: whoever replays the log
\* knows who could open which client, which automation was trusted and what the
\* limits were, at any time.
LogTellsTables == ModeTold /\ ClientsTold /\ MembersTold /\ RulesTold /\ LimitsTold
=============================================================================
