--------------------------- MODULE GatewayProofs ---------------------------
(***************************************************************************)
(* The registry's tables are what its audit log says, for any sets of      *)
(* people, clients, sources and limits.  The lemmas say how appending an   *)
(* entry changes what the log tells; each operation of the registry then   *)
(* changes its table in the same way.                                      *)
(*                                                                         *)
(* Then the Worker's properties, for any number of requests.  The          *)
(* strengthening is what each request in progress has read: each value it  *)
(* carries was right in some state of the registry since the request       *)
(* arrived.                                                                *)
(***************************************************************************)
EXTENDS Gateway, TLAPS

-----------------------------------------------------------------------------
(* The registry *)

Action == {"set_mode", "create_client", "set_member", "remove_member", "allow_source",
           "revoke_source", "set_write_limit"}
About == {None} \cup Slug \cup (Email \X Slug) \cup Rule
Value == BOOLEAN \cup {"single", "multi", None} \cup MemberRole \cup Limit
Entry == [action : Action, about : About, value : Value]

\* The types of the registry's tables and of its log.
RegTypeOK ==
  /\ mode \in {"single", "multi"}
  /\ clients \subseteq Slug
  /\ members \in [Email \X Slug -> MemberRole \cup {None}]
  /\ allowlist \subseteq Rule
  /\ limits \in [Slug -> Limit \cup {DefaultLimit}]
  /\ regLog \in Seq(Entry)

\* What later parts of the log say is not changed by an entry that is appended.
LEMMA LatestKept ==
  ASSUME NEW log \in Seq(Entry), NEW e \in Entry, NEW k \in 0..Len(log),
         NEW A, NEW x, NEW v
  PROVE  Latest(Append(log, e), k, A, x, v) <=> Latest(log, k, A, x, v)
<1>1. \A i \in 1..k : Append(log, e)[i] = log[i]
  OBVIOUS
<1>2. \A i \in 1..k : \A j \in (i + 1)..k : Append(log, e)[j] = log[j]
  BY <1>1
<1> QED
  BY <1>1, <1>2, Zenon DEF Latest

\* The entry that is appended is the latest about what it is about, and says
\* nothing of anything else.
LEMMA LatestNew ==
  ASSUME NEW log \in Seq(Entry), NEW e \in Entry, NEW A, NEW x, NEW v
  PROVE  /\ e.action \in A /\ e.about = x =>
              (Latest(Append(log, e), Len(log) + 1, A, x, v) <=> e.value = v)
         /\ ~(e.action \in A /\ e.about = x) =>
              (Latest(Append(log, e), Len(log) + 1, A, x, v) <=> Latest(log, Len(log), A, x, v))
<1> DEFINE new == Append(log, e)
           n == Len(log)
<1>0. n \in Nat
  OBVIOUS
<1>1. new[n + 1] = e /\ \A i \in 1..n : new[i] = log[i]
  OBVIOUS
<1>2. \A i \in 1..(n + 1) : i # n + 1 => i \in 1..n /\ n + 1 \in (i + 1)..(n + 1)
  BY <1>0
<1> HIDE DEF new, n
<1>3. ASSUME e.action \in A, e.about = x
      PROVE  Latest(new, n + 1, A, x, v) <=> e.value = v
  <2>1. ASSUME e.value = v PROVE Latest(new, n + 1, A, x, v)
    <3>1. n + 1 \in 1..(n + 1) /\ (n + 1 + 1)..(n + 1) = {}
      BY <1>0
    <3> QED
      BY <1>1, <1>3, <2>1, <3>1 DEF Latest
  <2>2. ASSUME Latest(new, n + 1, A, x, v) PROVE e.value = v
    <3>1. PICK i \in 1..(n + 1) :
            /\ new[i].value = v
            /\ \A j \in (i + 1)..(n + 1) : ~(new[j].action \in A /\ new[j].about = x)
      BY <2>2 DEF Latest
    <3>2. i = n + 1
      BY <1>1, <1>2, <1>3, <3>1
    <3> QED
      BY <1>1, <3>1, <3>2
  <2> QED
    BY <2>1, <2>2
<1>4. ASSUME ~(e.action \in A /\ e.about = x)
      PROVE  Latest(new, n + 1, A, x, v) <=> Latest(log, n, A, x, v)
  <2>1. ASSUME Latest(new, n + 1, A, x, v) PROVE Latest(log, n, A, x, v)
    <3>1. PICK i \in 1..(n + 1) :
            /\ new[i].action \in A /\ new[i].about = x /\ new[i].value = v
            /\ \A j \in (i + 1)..(n + 1) : ~(new[j].action \in A /\ new[j].about = x)
      BY <2>1 DEF Latest
    <3>2. i \in 1..n
      BY <1>1, <1>2, <1>4, <3>1
    <3>3. \A j \in (i + 1)..n : j \in (i + 1)..(n + 1) /\ j \in 1..n
      BY <1>0, <3>2
    <3> QED
      BY <1>1, <3>1, <3>2, <3>3 DEF Latest
  <2>2. ASSUME Latest(log, n, A, x, v) PROVE Latest(new, n + 1, A, x, v)
    <3>1. PICK i \in 1..n :
            /\ log[i].action \in A /\ log[i].about = x /\ log[i].value = v
            /\ \A j \in (i + 1)..n : ~(log[j].action \in A /\ log[j].about = x)
      BY <2>2 DEF Latest
    <3>2. i \in 1..(n + 1)
      BY <1>0
    <3>3. \A j \in (i + 1)..(n + 1) : j = n + 1 \/ (j \in (i + 1)..n /\ j \in 1..n)
      BY <1>0
    <3>4. \A j \in (i + 1)..(n + 1) : ~(new[j].action \in A /\ new[j].about = x)
      BY <1>1, <1>4, <3>1, <3>3
    <3> QED
      BY <1>1, <3>1, <3>2, <3>4 DEF Latest
  <2> QED
    BY <2>1, <2>2
<1> QED
  BY <1>3, <1>4 DEF new, n

\* An operation that records entry e changes what the log tells accordingly.
LEMMA Told ==
  ASSUME regLog \in Seq(Entry), NEW e \in Entry, regLog' = Append(regLog, e),
         NEW A, NEW x, NEW v
  PROVE  /\ e.action \in A /\ e.about = x => (Latest(regLog', Now', A, x, v) <=> e.value = v)
         /\ ~(e.action \in A /\ e.about = x) =>
              (Latest(regLog', Now', A, x, v) <=> Latest(regLog, Now, A, x, v))
<1>1. Now' = Len(regLog) + 1 /\ Now = Len(regLog)
  BY DEF Now
<1> QED
  BY <1>1, LatestNew

\* Each table keeps agreeing with the log when an entry about another table is
\* recorded: one conjunct for each table.
LEMMA OtherTables ==
  ASSUME regLog \in Seq(Entry), NEW e \in Entry, regLog' = Append(regLog, e)
  PROVE  /\ ModeTold /\ e.action # "set_mode" /\ mode' = mode => ModeTold'
         /\ ClientsTold /\ e.action # "create_client" /\ clients' = clients => ClientsTold'
         /\ MembersTold /\ e.action \notin {"set_member", "remove_member"}
            /\ members' = members => MembersTold'
         /\ RulesTold /\ e.action \notin {"allow_source", "revoke_source"}
            /\ allowlist' = allowlist => RulesTold'
         /\ LimitsTold /\ e.action # "set_write_limit" /\ limits' = limits => LimitsTold'
<1>1. ASSUME NEW A, e.action \notin A, NEW x, NEW v
      PROVE  Latest(regLog', Now', A, x, v) <=> Latest(regLog, Now, A, x, v)
  BY <1>1, Told
<1>2. ModeTold /\ e.action # "set_mode" /\ mode' = mode => ModeTold'
  BY <1>1 DEF ModeTold, MultiAt
<1>3. ClientsTold /\ e.action # "create_client" /\ clients' = clients => ClientsTold'
  BY <1>1 DEF ClientsTold, ClientAt
<1>4. MembersTold /\ e.action \notin {"set_member", "remove_member"}
      /\ members' = members => MembersTold'
  BY <1>1 DEF MembersTold, RoleAt
<1>5. RulesTold /\ e.action \notin {"allow_source", "revoke_source"}
      /\ allowlist' = allowlist => RulesTold'
  BY <1>1 DEF RulesTold, RuleAt
<1>6. LimitsTold /\ e.action # "set_write_limit" /\ limits' = limits => LimitsTold'
  <2> SUFFICES ASSUME LimitsTold, e.action # "set_write_limit", limits' = limits, NEW s \in Slug
               PROVE  LimitAt(Now, s, limits[s])'
    BY DEF LimitsTold
  <2>1. LimitAt(Now, s, limits[s])
    BY DEF LimitsTold
  <2>2. e.action \notin {"set_write_limit"}
    OBVIOUS
  <2>3. \A v : Latest(regLog', Now', {"set_write_limit"}, s, v)
               <=> Latest(regLog, Now, {"set_write_limit"}, s, v)
    BY <1>1, <2>2
  <2> QED
    BY <2>1, <2>3 DEF LimitAt
<1> QED
  BY <1>2, <1>3, <1>4, <1>5, <1>6

RegInv == RegTypeOK /\ LogTellsTables

\* The registry as it is created, with an empty log.
LEMMA RegInitially == RegInit => RegInv
<1> SUFFICES ASSUME RegInit PROVE RegInv
  OBVIOUS
<1> USE RegistryConstants DEF RegInit
<1>1. RegTypeOK
  BY DEF RegTypeOK, MemberRole
<1>2. Now = 0
  BY DEF Now
<1>3. ASSUME NEW A, NEW x, NEW v PROVE ~Latest(regLog, Now, A, x, v)
  BY <1>2 DEF Latest
<1>4. ModeTold /\ ClientsTold /\ MembersTold /\ RulesTold
  BY <1>3 DEF ModeTold, MultiAt, ClientsTold, ClientAt, MembersTold, RoleAt, MemberRole,
              RulesTold, RuleAt
<1>5. LimitsTold
  BY <1>3 DEF LimitsTold, LimitAt
<1> QED
  BY <1>1, <1>4, <1>5 DEF RegInv, LogTellsTables

\* The mode follows the last set_mode entry.
LEMMA SetModeKeeps ==
  ASSUME RegInv, NEW m \in {"single", "multi"}, SetMode(m)
  PROVE  RegInv'
<1> DEFINE e == [action |-> "set_mode", about |-> None, value |-> m]
<1>1. e \in Entry /\ regLog' = Append(regLog, e)
  <2>1. None \in About
    BY DEF About
  <2>2. m \in Value
    BY DEF Value
  <2> QED
    BY <2>1, <2>2 DEF Entry, Action, SetMode, Record
<1>2. e.action = "set_mode" /\ e.about = None /\ e.value = m
  OBVIOUS
<1> HIDE DEF e
<1>3. RegTypeOK'
  BY <1>1 DEF RegInv, RegTypeOK, SetMode
<1>4. Latest(regLog', Now', {"set_mode"}, None, "multi") <=> m = "multi"
  BY <1>1, <1>2, Told DEF RegInv, RegTypeOK
<1>5. ModeTold'
  BY <1>4 DEF ModeTold, MultiAt, SetMode
<1>6. (ClientsTold /\ MembersTold /\ RulesTold /\ LimitsTold)'
  BY <1>1, <1>2, OtherTables DEF RegInv, RegTypeOK, LogTellsTables, SetMode
<1> QED
  BY <1>3, <1>5, <1>6 DEF RegInv, LogTellsTables

\* A client exists once its entry is recorded.
LEMMA CreateClientKeeps ==
  ASSUME RegInv, NEW s \in Slug, CreateClient(s)
  PROVE  RegInv'
<1> DEFINE e == [action |-> "create_client", about |-> s, value |-> TRUE]
<1>1. e \in Entry /\ regLog' = Append(regLog, e)
  <2>1. s \in About
    BY DEF About
  <2>2. TRUE \in Value
    BY DEF Value
  <2> QED
    BY <2>1, <2>2 DEF Entry, Action, CreateClient, Record
<1>2. e.action = "create_client" /\ e.about = s /\ e.value = TRUE
  OBVIOUS
<1> HIDE DEF e
<1>3. RegTypeOK'
  BY <1>1 DEF RegInv, RegTypeOK, CreateClient
<1>4. \A t \in Slug : Latest(regLog', Now', {"create_client"}, t, TRUE)
                        <=> t = s \/ Latest(regLog, Now, {"create_client"}, t, TRUE)
  BY <1>1, <1>2, Told DEF RegInv, RegTypeOK
<1>5. \A t \in Slug : ClientAt(Now, t)' <=> t = s \/ ClientAt(Now, t)
  BY <1>4 DEF ClientAt
<1>6. ClientsTold'
  BY <1>5 DEF ClientsTold, RegInv, LogTellsTables, CreateClient
<1>7. (ModeTold /\ MembersTold /\ RulesTold /\ LimitsTold)'
  BY <1>1, <1>2, OtherTables DEF RegInv, RegTypeOK, LogTellsTables, CreateClient
<1> QED
  BY <1>3, <1>6, <1>7 DEF RegInv, LogTellsTables

\* A role is the last one set, or none after a removal.
LEMMA MembershipKeeps ==
  ASSUME RegInv, NEW who \in Email, NEW s \in Slug, NEW role \in MemberRole \cup {None},
         SetMember(who, s, role) \/ (RemoveMember(who, s) /\ role = None)
  PROVE  RegInv'
<1> DEFINE Acts == {"set_member", "remove_member"}
<1>1. PICK a \in Acts : Record(a, <<who, s>>, role)
  BY DEF SetMember, RemoveMember
<1> DEFINE e == [action |-> a, about |-> <<who, s>>, value |-> role]
<1>2. e \in Entry /\ regLog' = Append(regLog, e)
  <2>1. <<who, s>> \in About
    BY DEF About
  <2>2. role \in Value
    BY DEF Value
  <2> QED
    BY <1>1, <2>1, <2>2 DEF Entry, Action, Record
<1>3. e.action = a /\ e.about = <<who, s>> /\ e.value = role
  OBVIOUS
<1>4. /\ members' = [members EXCEPT ![<<who, s>>] = role]
      /\ mode' = mode /\ clients' = clients /\ allowlist' = allowlist /\ limits' = limits
  BY DEF SetMember, RemoveMember
<1> HIDE DEF e
<1>5. RegTypeOK'
  BY <1>2, <1>4 DEF RegInv, RegTypeOK
<1>6. ASSUME NEW q \in Email, NEW t \in Slug, NEW r \in MemberRole
      PROVE  members'[q, t] = r <=> RoleAt(Now, q, t, r)'
  <2>1. members[q, t] = r <=> Latest(regLog, Now, Acts, <<q, t>>, r)
    BY DEF RegInv, LogTellsTables, MembersTold, RoleAt
  <2>2. CASE q = who /\ t = s
    <3>1. e.action \in Acts /\ e.about = <<q, t>> /\ e.value = role
      BY <1>1, <1>3, <2>2
    <3>3. Latest(regLog', Now', Acts, <<q, t>>, r) <=> role = r
      BY <1>2, <3>1, Told DEF RegInv, RegTypeOK
    <3>2. members'[q, t] = role
      BY <1>4, <2>2 DEF RegInv, RegTypeOK
    <3> QED
      BY <3>2, <3>3 DEF RoleAt
  <2>3. CASE ~(q = who /\ t = s)
    <3>1. <<q, t>> # <<who, s>>
      BY <2>3
    <3>2. Latest(regLog', Now', Acts, <<q, t>>, r) <=> Latest(regLog, Now, Acts, <<q, t>>, r)
      BY <1>1, <1>2, <1>3, <3>1, Told DEF RegInv, RegTypeOK
    <3>3. members'[q, t] = members[q, t]
      BY <1>4, <3>1 DEF RegInv, RegTypeOK
    <3> QED
      BY <2>1, <3>2, <3>3 DEF RoleAt
  <2> QED
    BY <2>2, <2>3
<1>7. MembersTold'
  BY <1>6 DEF MembersTold
<1>8. (ModeTold /\ ClientsTold /\ RulesTold /\ LimitsTold)'
  BY <1>1, <1>2, <1>3, <1>4, OtherTables DEF RegInv, RegTypeOK, LogTellsTables
<1> QED
  BY <1>5, <1>7, <1>8 DEF RegInv, LogTellsTables

\* A rule is in force from its entry to its revocation.
LEMMA RuleKeeps ==
  ASSUME RegInv, NEW r \in Rule, AllowSource(r) \/ RevokeSource(r)
  PROVE  RegInv'
<1> DEFINE Acts == {"allow_source", "revoke_source"}
<1>1. PICK a \in Acts, v \in {TRUE, FALSE} :
        /\ Record(a, r, v)
        /\ allowlist' = IF v THEN allowlist \cup {r} ELSE allowlist \ {r}
  BY DEF AllowSource, RevokeSource
<1> DEFINE e == [action |-> a, about |-> r, value |-> v]
<1>2. e \in Entry /\ regLog' = Append(regLog, e)
  <2>1. r \in About
    BY DEF About
  <2>2. v \in Value
    BY DEF Value
  <2> QED
    BY <1>1, <2>1, <2>2 DEF Entry, Action, Record
<1>3. e.action = a /\ e.about = r /\ e.value = v
  OBVIOUS
<1>4. mode' = mode /\ clients' = clients /\ members' = members /\ limits' = limits
  BY DEF AllowSource, RevokeSource
<1> HIDE DEF e
<1>5. RegTypeOK'
  BY <1>1, <1>2, <1>4 DEF RegInv, RegTypeOK
<1>6. \A q \in Rule : q # r => (RuleAt(Now, q)' <=> RuleAt(Now, q))
  BY <1>1, <1>2, <1>3, Told, ZenonT(60) DEF RegInv, RegTypeOK, RuleAt
<1>7. RuleAt(Now, r)' <=> v = TRUE
  <2>1. e.action \in Acts /\ e.about = r
    BY <1>1, <1>3
  <2> QED
    BY <1>2, <1>3, <2>1, Told DEF RegInv, RegTypeOK, RuleAt
<1>8. RulesTold'
  BY <1>1, <1>6, <1>7 DEF RulesTold, RegInv, LogTellsTables
<1>9. (ModeTold /\ ClientsTold /\ MembersTold /\ LimitsTold)'
  BY <1>1, <1>2, <1>3, <1>4, OtherTables DEF RegInv, RegTypeOK, LogTellsTables
<1> QED
  BY <1>5, <1>8, <1>9 DEF RegInv, LogTellsTables

\* A limit is the last one set.
LEMMA SetWriteLimitKeeps ==
  ASSUME RegInv, NEW s \in Slug, NEW n \in Limit, SetWriteLimit(s, n)
  PROVE  RegInv'
<1> DEFINE A == {"set_write_limit"}
           e == [action |-> "set_write_limit", about |-> s, value |-> n]
<1>1. e \in Entry /\ regLog' = Append(regLog, e)
  <2>1. s \in About
    BY DEF About
  <2>2. n \in Value
    BY DEF Value
  <2> QED
    BY <2>1, <2>2 DEF Entry, Action, SetWriteLimit, Record
<1>2. e.action = "set_write_limit" /\ e.about = s /\ e.value = n
  OBVIOUS
<1> HIDE DEF e
<1>3. RegTypeOK'
  BY <1>1 DEF RegInv, RegTypeOK, SetWriteLimit
<1>4. Latest(regLog', Now', A, s, n)
  BY <1>1, <1>2, Told DEF RegInv, RegTypeOK
<1>5. ASSUME NEW t \in Slug, t # s
      PROVE  \A v : Latest(regLog', Now', A, t, v) <=> Latest(regLog, Now, A, t, v)
  BY <1>1, <1>2, <1>5, Told DEF RegInv, RegTypeOK
<1>6. ASSUME NEW t \in Slug PROVE LimitAt(Now, t, limits[t])'
  <2>1. LimitAt(Now, t, limits[t])
    BY DEF RegInv, LogTellsTables, LimitsTold
  <2>2. CASE t = s
    <3>1. limits'[t] = n
      BY <2>2 DEF SetWriteLimit, RegInv, RegTypeOK
    <3> QED
      BY <1>4, <2>2, <3>1 DEF LimitAt
  <2>3. CASE t # s
    <3>1. limits'[t] = limits[t]
      BY <2>3 DEF SetWriteLimit, RegInv, RegTypeOK
    <3>2. \A v : Latest(regLog', Now', A, t, v) <=> Latest(regLog, Now, A, t, v)
      BY <1>5, <2>3
    <3> QED
      BY <2>1, <3>1, <3>2 DEF LimitAt
  <2> QED
    BY <2>2, <2>3
<1>7. LimitsTold'
  BY <1>6 DEF LimitsTold
<1>8. (ModeTold /\ ClientsTold /\ MembersTold /\ RulesTold)'
  BY <1>1, <1>2, OtherTables DEF RegInv, RegTypeOK, LogTellsTables, SetWriteLimit
<1> QED
  BY <1>3, <1>7, <1>8 DEF RegInv, LogTellsTables

\* Every operation of the administration page keeps tables and log in agreement.
LEMMA AdministerKeeps == RegInv /\ Administer => RegInv'
<1> SUFFICES ASSUME RegInv, Administer PROVE RegInv'
  OBVIOUS
<1>1. CASE \E m \in {"single", "multi"} : SetMode(m)
  BY <1>1, SetModeKeeps
<1>2. CASE \E s \in Slug : CreateClient(s)
  BY <1>2, CreateClientKeeps
<1>3. CASE \E who \in Email, s \in Slug, role \in MemberRole : SetMember(who, s, role)
  BY <1>3, MembershipKeeps
<1>4. CASE \E who \in Email, s \in Slug : RemoveMember(who, s)
  BY <1>4, MembershipKeeps
<1>5. CASE \E r \in Rule : AllowSource(r)
  BY <1>5, RuleKeeps
<1>6. CASE \E r \in allowlist : RevokeSource(r)
  BY <1>6, RuleKeeps DEF RegInv, RegTypeOK
<1>7. CASE \E s \in Slug, n \in Limit : SetWriteLimit(s, n)
  BY <1>7, SetWriteLimitKeeps
<1> QED
  BY <1>1, <1>2, <1>3, <1>4, <1>5, <1>6, <1>7 DEF Administer

\* Where the registry does not change, nor does what its log tells.
LEMMA RegUnchanged == RegInv /\ UNCHANGED regVars => RegInv'
<1> SUFFICES ASSUME RegInv, UNCHANGED regVars PROVE RegInv'
  OBVIOUS
<1>1. /\ mode' = mode /\ clients' = clients /\ members' = members
      /\ allowlist' = allowlist /\ limits' = limits /\ regLog' = regLog
  BY DEF regVars, tables
<1> QED
  BY <1>1 DEF RegInv, RegTypeOK, LogTellsTables, ModeTold, ClientsTold, MembersTold, RulesTold,
              LimitsTold, Now, MultiAt, ClientAt, RoleAt, RuleAt, LimitAt

\* What the log told of its first k entries it tells after any step.
LEMMA PastKept ==
  ASSUME RegInv, Administer \/ UNCHANGED regVars, NEW k \in 0..Now, NEW A, NEW x, NEW v
  PROVE  /\ Latest(regLog', k, A, x, v) <=> Latest(regLog, k, A, x, v)
         /\ Now' \in Nat /\ Now \in Nat /\ Now <= Now'
<1>1. regLog \in Seq(Entry) /\ Now = Len(regLog) /\ Now' = Len(regLog')
  BY DEF RegInv, RegTypeOK, Now
<1>2. CASE UNCHANGED regVars
  BY <1>1, <1>2 DEF regVars, Now
<1>3. CASE Administer
  <2>1. RegInv'
    BY <1>3, AdministerKeeps
  <2>2. PICK e : regLog' = Append(regLog, e)
    BY <1>3 DEF Administer, SetMode, CreateClient, SetMember, RemoveMember, AllowSource,
                RevokeSource, SetWriteLimit, Record
  <2>3. regLog' \in Seq(Entry)
    BY <2>1 DEF RegInv, RegTypeOK
  <2>4. e \in Entry
    <3>1. Len(regLog') = Len(regLog) + 1 /\ regLog'[Len(regLog) + 1] = e
      BY <1>1, <2>2
    <3> QED
      BY <1>1, <2>3, <3>1
  <2> QED
    BY <1>1, <2>2, <2>4, LatestKept
<1> QED
  BY <1>2, <1>3

-----------------------------------------------------------------------------
(* The requests *)

Role == {"member", "reviewer", "admin"}
Kind == {"record", "assert", "suggest", "review"}
Stage == Kind \cup {"limit", "decide", "allow", "write", "model", "suggestions"}
Origin == {"mcp", "allowlisted_source", "ai_suggestion"}

Opened ==
  [stage : Stage, kind : Kind, who : Email, app : App, slug : Slug, role : Role,
   began : Nat, limit : Nat, evidence : Content \cup {None}, source : Source \cup {None},
   origin : Origin, left : Nat, stored : Nat, dropped : Nat, offered : Nat]

\* The types of the Worker's requests and of the memories' tables.
GatewayTypeOK ==
  /\ req \in [Request -> {Idle} \cup Opened]
  /\ episodes \in [Slug \X Content -> Meta \cup {None}]
  /\ counts \in [Slug \X Principal -> Nat]

\* The rule that would make this request's evidence trusted.
RuleOf(q) == [client |-> q.slug, who |-> q.who, app |-> q.app, source |-> q.source]

\* What request q has read so far was right at some time since it arrived.
RoleWasRight(q) ==
  /\ q.began <= Now
  /\ \E k \in q.began..Now : MayOpenAt(k, q.who, q.slug, q.role)
  /\ q.kind = "review" => CanReview(q.role)

LimitWasRight(q) ==
  q.stage \notin {"limit", "decide"} =>
    \E k \in q.began..Now, n \in Limit \cup {DefaultLimit} :
      LimitAt(k, q.slug, n) /\ q.limit = n

EvidenceIsOwn(q) ==
  q.stage = "allow" \/ q.origin = "allowlisted_source" =>
    /\ q.evidence \in Content /\ q.source \in Source
    /\ episodes[q.slug, q.evidence] = [who |-> q.who, app |-> q.app, source |-> q.source]

TrustWasRight(q) ==
  q.origin = "allowlisted_source" =>
    q.stage = "write" /\ \E k \in q.began..Now : RuleAt(k, RuleOf(q))

ReadRight(q) == RoleWasRight(q) /\ LimitWasRight(q) /\ EvidenceIsOwn(q) /\ TrustWasRight(q)

RequestsOK == \A r \in Request : req[r] \in Opened => ReadRight(req[r])

AcceptedOK == WritesWhereAllowed /\ ReviewersDecide /\ TrustFollowsEvidence /\ WritesWithinLimit

GatewayInv == RegInv /\ GatewayTypeOK /\ RequestsOK /\ AcceptedOK

RegStep == Administer \/ UNCHANGED regVars

\* Every step of the system keeps the registry in agreement with its log.
LEMMA RegStepKeeps == RegInv /\ RegStep => RegInv'
BY AdministerKeeps, RegUnchanged DEF RegStep

\* What could be said of an earlier state of the registry can be said later.
LEMMA PastViews ==
  ASSUME RegInv, RegStep, NEW k \in 0..Now, NEW who, NEW s, NEW role, NEW rule, NEW n
  PROVE  /\ RoleAt(k, who, s, role)' <=> RoleAt(k, who, s, role)
         /\ MayOpenAt(k, who, s, role)' <=> MayOpenAt(k, who, s, role)
         /\ RuleAt(k, rule)' <=> RuleAt(k, rule)
         /\ LimitAt(k, s, n)' <=> LimitAt(k, s, n)
<1>1. \A A, x, v : Latest(regLog', k, A, x, v) <=> Latest(regLog, k, A, x, v)
  BY PastKept DEF RegStep
<1>2. \A q : RoleAt(k, who, s, q)' <=> RoleAt(k, who, s, q)
  BY <1>1 DEF RoleAt
<1>3. (MultiAt(k)' <=> MultiAt(k)) /\ (ClientAt(k, s)' <=> ClientAt(k, s))
  BY <1>1 DEF MultiAt, ClientAt
<1>4. MayOpenAt(k, who, s, role)' <=> MayOpenAt(k, who, s, role)
  BY <1>2, <1>3 DEF MayOpenAt
<1>5. RuleAt(k, rule)' <=> RuleAt(k, rule)
  BY <1>1 DEF RuleAt
<1>6. LimitAt(k, s, n)' <=> LimitAt(k, s, n)
  BY <1>1 DEF LimitAt
<1> QED
  BY <1>2, <1>4, <1>5, <1>6

\* The log never gets shorter.
LEMMA Later == ASSUME RegInv, RegStep PROVE Now \in Nat /\ Now' \in Nat /\ Now <= Now'
<1>1. Now \in Nat
  BY DEF RegInv, RegTypeOK, Now
<1> QED
  BY <1>1, PastKept DEF RegStep

\* What a request has read stays right while it waits: the log only grows, and
\* a stored text keeps its recorder.
LEMMA ReadRightKept ==
  ASSUME RegInv, RegStep, NEW q \in Opened, ReadRight(q),
         \A slot \in Slug \X Content : episodes[slot] # None => episodes'[slot] = episodes[slot]
  PROVE  ReadRight(q)'
<1>1. /\ q.began \in Nat /\ q.slug \in Slug /\ Now \in Nat /\ Now' \in Nat /\ Now <= Now'
      /\ q.who \in Email /\ q.app \in App
  BY Later DEF Opened
<1>2. \A k \in q.began..Now : k \in 0..Now /\ k \in q.began..Now'
  BY <1>1
<1>3. RoleWasRight(q)'
  <2>1. PICK k \in q.began..Now : MayOpenAt(k, q.who, q.slug, q.role)
    BY DEF ReadRight, RoleWasRight
  <2>2. MayOpenAt(k, q.who, q.slug, q.role)'
    BY <1>2, <2>1, PastViews
  <2>3. q.began <= Now'
    BY <1>1 DEF ReadRight, RoleWasRight
  <2> QED
    BY <1>2, <2>2, <2>3 DEF ReadRight, RoleWasRight
<1>4. LimitWasRight(q)'
  <2> SUFFICES ASSUME q.stage \notin {"limit", "decide"}
               PROVE  \E k \in q.began..Now', n \in Limit \cup {DefaultLimit} :
                        LimitAt(k, q.slug, n)' /\ q.limit = n
    BY DEF LimitWasRight
  <2>1. PICK k \in q.began..Now, n \in Limit \cup {DefaultLimit} :
          LimitAt(k, q.slug, n) /\ q.limit = n
    BY DEF ReadRight, LimitWasRight
  <2>2. LimitAt(k, q.slug, n)'
    BY <1>2, <2>1, PastViews
  <2> QED
    BY <1>2, <2>1, <2>2
<1>5. EvidenceIsOwn(q)'
  <2> SUFFICES ASSUME q.stage = "allow" \/ q.origin = "allowlisted_source"
               PROVE  /\ q.evidence \in Content /\ q.source \in Source
                      /\ episodes'[q.slug, q.evidence]
                           = [who |-> q.who, app |-> q.app, source |-> q.source]
    BY DEF EvidenceIsOwn
  <2>1. /\ q.evidence \in Content /\ q.source \in Source
        /\ episodes[q.slug, q.evidence] = [who |-> q.who, app |-> q.app, source |-> q.source]
    BY DEF ReadRight, EvidenceIsOwn
  <2>2. <<q.slug, q.evidence>> \in Slug \X Content
    BY <1>1, <2>1
  <2>3. [who |-> q.who, app |-> q.app, source |-> q.source] \in Meta
    BY <1>1, <2>1 DEF Meta
  <2> QED
    BY <2>1, <2>2, <2>3, GatewayConstants
<1>6. TrustWasRight(q)'
  <2> SUFFICES ASSUME q.origin = "allowlisted_source"
               PROVE  q.stage = "write" /\ \E k \in q.began..Now' : RuleAt(k, RuleOf(q))'
    BY DEF TrustWasRight, RuleOf
  <2>1. PICK k \in q.began..Now : RuleAt(k, RuleOf(q))
    BY DEF ReadRight, TrustWasRight
  <2>2. RuleAt(k, RuleOf(q))'
    BY <1>2, <2>1, PastViews
  <2> QED
    BY <1>2, <2>2 DEF ReadRight, TrustWasRight
<1> QED
  BY <1>3, <1>4, <1>5, <1>6 DEF ReadRight

\* From a value to the request that has it after the step.
LEMMA ReadRightNow ==
  ASSUME NEW r \in Request, NEW q, req'[r] = q, ReadRight(q)'
  PROVE  ReadRight(req[r])'
BY DEF ReadRight, RoleWasRight, LimitWasRight, EvidenceIsOwn, TrustWasRight, MayOpenAt,
       MultiAt, ClientAt, RoleAt, LimitAt, RuleAt, RuleOf

\* A step that changes one request needs to be examined at that request only.
LEMMA OneRequest ==
  ASSUME RegInv, GatewayTypeOK, RequestsOK, RegStep,
         \A slot \in Slug \X Content : episodes[slot] # None => episodes'[slot] = episodes[slot],
         NEW r \in Request, NEW q \in {Idle} \cup Opened, q \in Opened => ReadRight(q)',
         req' = [req EXCEPT ![r] = q]
  PROVE  req' \in [Request -> {Idle} \cup Opened] /\ RequestsOK'
<1>1. req' \in [Request -> {Idle} \cup Opened]
  BY DEF GatewayTypeOK
<1>2. ASSUME NEW p \in Request, req'[p] \in Opened PROVE ReadRight(req[p])'
  <2>1. CASE p = r
    <3>1. req'[p] = q
      BY <2>1 DEF GatewayTypeOK
    <3>2. ReadRight(q)'
      BY <1>2, <3>1
    <3> QED
      BY <3>1, <3>2, ReadRightNow
  <2>2. CASE p # r
    <3>1. PICK o : o = req[p]
      OBVIOUS
    <3>2. req'[p] = o
      BY <2>2, <3>1 DEF GatewayTypeOK
    <3>3. o \in Opened /\ ReadRight(o)
      BY <1>2, <3>1, <3>2 DEF RequestsOK
    <3>4. ReadRight(o)'
      BY <3>3, ReadRightKept
    <3> QED
      BY <3>2, <3>4, ReadRightNow
  <2> QED
    BY <2>1, <2>2
<1> QED
  BY <1>1, <1>2 DEF RequestsOK

\* A step that accepts nothing has nothing to justify.
LEMMA NothingAccepted == last' = Idle => AcceptedOK'
BY DEF AcceptedOK, WritesWhereAllowed, ReviewersDecide, TrustFollowsEvidence,
       WritesWithinLimit, Accepted

\* What was right stays right where neither log nor episodes change.
LEMMA SameReads ==
  ASSUME NEW q, regLog' = regLog, episodes' = episodes, ReadRight(q)
  PROVE  ReadRight(q)'
BY DEF ReadRight, RoleWasRight, LimitWasRight, EvidenceIsOwn, TrustWasRight, MayOpenAt,
       MultiAt, ClientAt, RoleAt, LimitAt, RuleAt, RuleOf, Now

\* A step that only reads: the request it is a step of must have read right.
LEMMA ReadingStep ==
  ASSUME GatewayInv, NEW r \in Request, NEW q \in {Idle} \cup Opened, q \in Opened => ReadRight(q),
         req' = [req EXCEPT ![r] = q], last' = Idle, UNCHANGED <<regVars, memVars>>
  PROVE  GatewayInv'
<1>1. regLog' = regLog /\ episodes' = episodes /\ counts' = counts /\ UNCHANGED regVars
  BY DEF regVars, memVars
<1>2. RegInv' /\ RegStep
  BY <1>1, RegUnchanged DEF GatewayInv, RegStep
<1>3. q \in Opened => ReadRight(q)'
  BY <1>1, SameReads
<1>4. req' \in [Request -> {Idle} \cup Opened] /\ RequestsOK'
  BY <1>1, <1>2, <1>3, OneRequest DEF GatewayInv
<1>5. GatewayTypeOK'
  BY <1>1, <1>4 DEF GatewayInv, GatewayTypeOK
<1> QED
  BY <1>2, <1>4, <1>5, NothingAccepted DEF GatewayInv

\* A request that was accepted is what its caller could open just then.
LEMMA AccessIsTold ==
  ASSUME RegInv, NEW who \in Email, NEW client \in Slug \cup {None}, OpenedRole(who, client) # None
  PROVE  /\ OpenedSlug(client) \in Slug /\ OpenedRole(who, client) \in Role
         /\ MayOpenAt(Now, who, OpenedSlug(client), OpenedRole(who, client))
<1>1. /\ mode = "multi" <=> MultiAt(Now)
      /\ \A s \in Slug : s \in clients <=> ClientAt(Now, s)
      /\ \A s \in Slug, role \in MemberRole : members[who, s] = role <=> RoleAt(Now, who, s, role)
      /\ \A s \in Slug : members[who, s] \in MemberRole \cup {None}
      /\ clients \subseteq Slug /\ mode \in {"single", "multi"}
  <2>1. \A s \in Slug : <<who, s>> \in Email \X Slug
    OBVIOUS
  <2>2. \A s \in Slug : members[who, s] \in MemberRole \cup {None}
    BY <2>1 DEF RegInv, RegTypeOK
  <2>3. \A s \in Slug : s \in clients <=> ClientAt(Now, s)
    BY DEF RegInv, LogTellsTables, ClientsTold
  <2>4. \A s \in Slug, role \in MemberRole : members[who, s] = role <=> RoleAt(Now, who, s, role)
    BY DEF RegInv, LogTellsTables, MembersTold
  <2> QED
    BY <2>2, <2>3, <2>4 DEF RegInv, RegTypeOK, LogTellsTables, ModeTold
<1>2. MemberRole \subseteq Role /\ None \notin Role /\ Default \in Slug /\ None \notin Slug
  BY RegistryConstants DEF MemberRole, Role
<1>3. CASE mode = "single"
  <2>1. ~MultiAt(Now) /\ OpenedSlug(client) = Default
    BY <1>1, <1>3 DEF OpenedSlug
  <2>2. CASE who \in Admins
    BY <1>2, <1>3, <2>1, <2>2 DEF OpenedRole, MayOpenAt, Role
  <2>3. CASE who \notin Admins /\ members[who, Default] # None
    BY <1>1, <1>2, <1>3, <2>1, <2>3 DEF OpenedRole, MayOpenAt
  <2>4. CASE who \notin Admins /\ members[who, Default] = None
    <3>1. OpenedRole(who, client) = "member"
      BY <1>3, <2>4 DEF OpenedRole
    <3>2. \A q \in MemberRole : ~RoleAt(Now, who, Default, q)
      BY <1>1, <1>2, <2>4
    <3> QED
      BY <1>2, <2>1, <2>4, <3>1, <3>2 DEF MayOpenAt, MemberRole
  <2> QED
    BY <2>2, <2>3, <2>4
<1>4. CASE mode = "multi"
  <2>1. MultiAt(Now) /\ OpenedSlug(client) = client /\ client \in clients
    BY <1>1, <1>4 DEF OpenedSlug, OpenedRole
  <2>2. CASE who \in Admins
    BY <1>1, <1>2, <1>4, <2>1, <2>2, ZenonT(60) DEF OpenedRole, MayOpenAt, Role
  <2>3. CASE who \notin Admins
    <3>1. OpenedRole(who, client) = members[who, client]
      BY <1>4, <2>1, <2>3 DEF OpenedRole
    <3>2. client \in Slug /\ members[who, client] \in MemberRole
      BY <1>1, <2>1, <3>1
    <3>3. RoleAt(Now, who, client, members[who, client])
      BY <1>1, <3>2
    <3> QED
      BY <1>2, <2>1, <2>3, <3>1, <3>2, <3>3 DEF MayOpenAt
  <2> QED
    BY <2>2, <2>3
<1> QED
  BY <1>1, <1>3, <1>4

\* A request carries the client and role resolveAccess gave it.
LEMMA ArriveKeeps ==
  ASSUME GatewayInv, NEW r \in Request, NEW kind \in Kinds, NEW who \in Email, NEW app \in App,
         NEW client \in Slug \cup {None}, Arrive(r, kind, who, app, client)
  PROVE  GatewayInv'
<1> DEFINE stage == IF kind = "review" THEN "decide" ELSE "limit"
           role == OpenedRole(who, client)
           slug == OpenedSlug(client)
           q == Open(kind, who, app, slug, role, stage)
<1>1. /\ role # None /\ (kind = "review" => CanReview(role))
      /\ req' = [req EXCEPT ![r] = q] /\ last' = Idle /\ UNCHANGED <<regVars, memVars>>
  BY DEF Quiet, Arrive
<1>2. slug \in Slug /\ role \in Role /\ MayOpenAt(Now, who, slug, role)
  BY <1>1, AccessIsTold DEF GatewayInv
<1>3. Now \in Nat /\ kind \in Kind /\ stage \in Stage /\ stage \in {"limit", "decide"}
  BY GatewayConstants DEF GatewayInv, RegInv, RegTypeOK, Now, Kind, Stage
<1>4. q \in Opened
  <2> HIDE DEF stage, role, slug
  <2> QED
    BY <1>2, <1>3 DEF Open, Opened, Origin
<1>5. /\ q.stage = stage /\ q.kind = kind /\ q.who = who /\ q.slug = slug /\ q.role = role
      /\ q.began = Now /\ q.origin = "mcp"
  BY DEF Open
<1> HIDE DEF q, stage, role, slug
<1>6. RoleWasRight(q)
  <2>1. Now \in q.began..Now /\ q.began <= Now
    BY <1>3, <1>5
  <2>2. MayOpenAt(Now, q.who, q.slug, q.role)
    BY <1>2, <1>5
  <2>3. q.kind = "review" => CanReview(q.role)
    BY <1>1, <1>5
  <2> QED
    BY <2>1, <2>2, <2>3 DEF RoleWasRight
<1>7. LimitWasRight(q) /\ EvidenceIsOwn(q) /\ TrustWasRight(q)
  BY <1>3, <1>5 DEF LimitWasRight, EvidenceIsOwn, TrustWasRight
<1> QED
  BY <1>1, <1>4, <1>6, <1>7, ReadingStep DEF ReadRight

\* A request past resolveAccess has read right.
LEMMA InProgress ==
  ASSUME GatewayInv, NEW r \in Request, req[r].stage # "idle"
  PROVE  req[r] \in Opened /\ ReadRight(req[r])
<1>1. req[r] \in {Idle} \cup Opened
  BY DEF GatewayInv, GatewayTypeOK
<1>2. Idle.stage = "idle"
  BY DEF Idle
<1>3. req[r] \in Opened
  BY <1>1, <1>2
<1> QED
  BY <1>3 DEF GatewayInv, RequestsOK

\* What a step leaves of what was read is still right.
LEMMA SameRequest ==
  ASSUME NEW o, NEW q, ReadRight(o),
         q.kind = o.kind, q.who = o.who, q.slug = o.slug, q.role = o.role, q.began = o.began
  PROVE  /\ RoleWasRight(q)
         /\ q.limit = o.limit /\ o.stage \notin {"limit", "decide"} => LimitWasRight(q)
<1>1. RoleWasRight(q)
  BY DEF ReadRight, RoleWasRight
<1>2. q.limit = o.limit /\ o.stage \notin {"limit", "decide"} => LimitWasRight(q)
  BY DEF ReadRight, LimitWasRight
<1> QED
  BY <1>1, <1>2

\* It carries the limit in force when it asked.
LEMMA ReadLimitKeeps ==
  ASSUME GatewayInv, NEW r \in Request, ReadLimit(r)
  PROVE  GatewayInv'
<1>1. PICK o \in Opened : o = req[r] /\ o.stage = "limit" /\ ReadRight(o)
  BY InProgress DEF ReadLimit, Step
<1> DEFINE q == [o EXCEPT !.limit = limits[o.slug], !.stage = o.kind]
<1>2. req' = [req EXCEPT ![r] = q] /\ last' = Idle /\ UNCHANGED <<regVars, memVars>>
  BY <1>1 DEF Quiet, ReadLimit, GatewayInv, GatewayTypeOK
<1>3. o.slug \in Slug /\ limits[o.slug] \in Limit \cup {DefaultLimit}
  BY <1>1 DEF Opened, GatewayInv, RegInv, RegTypeOK
<1>4. limits[o.slug] \in Nat /\ o.kind \in Kind /\ o.kind \in Stage
  BY <1>1, <1>3, RegistryConstants DEF Opened, Stage
<1>5. q \in Opened
  BY <1>4 DEF Opened
<1>6. /\ q.limit = limits[o.slug] /\ q.stage = o.kind /\ q.origin = o.origin
      /\ q.kind = o.kind /\ q.who = o.who /\ q.slug = o.slug /\ q.role = o.role
      /\ q.began = o.began
  BY <1>1 DEF Opened
<1> HIDE DEF q
<1>7. LimitWasRight(q)
  <2>1. LimitAt(Now, o.slug, limits[o.slug])
    BY <1>3 DEF GatewayInv, RegInv, LogTellsTables, LimitsTold
  <2>2. Now \in o.began..Now
    BY <1>1, Later DEF ReadRight, RoleWasRight, Opened, GatewayInv, RegInv, RegTypeOK, Now
  <2> QED
    BY <1>3, <1>6, <2>1, <2>2 DEF LimitWasRight
<1>8. q.origin # "allowlisted_source" /\ q.stage # "allow"
  BY <1>1, <1>4, <1>6 DEF ReadRight, TrustWasRight, Kind
<1>9. ReadRight(q)
  BY <1>1, <1>6, <1>7, <1>8, SameRequest DEF ReadRight, EvidenceIsOwn, TrustWasRight
<1> QED
  BY <1>2, <1>5, <1>9, ReadingStep

\* It asks for trust only on its own evidence.
LEMMA ReadEvidenceKeeps ==
  ASSUME GatewayInv, NEW r \in Request, NEW c \in Content, ReadEvidence(r, c)
  PROVE  GatewayInv'
<1>1. PICK o \in Opened : o = req[r] /\ o.stage = "assert" /\ ReadRight(o)
  BY InProgress DEF ReadEvidence, Step
<1>2. o.slug \in Slug /\ o.who \in Email /\ o.app \in App
  BY DEF Opened
<1>3. PICK meta : meta = episodes[o.slug, c]
  OBVIOUS
<1>4. <<o.slug, c>> \in Slug \X Content /\ meta # None
  BY <1>1, <1>2, <1>3 DEF ReadEvidence
<1>5. meta \in Meta
  BY <1>3, <1>4 DEF GatewayInv, GatewayTypeOK
<1> DEFINE own == meta.who = o.who /\ meta.app = o.app
           stage == IF own THEN "allow" ELSE "write"
           q == [o EXCEPT !.evidence = c, !.source = meta.source, !.stage = stage]
<1>6. req' = [req EXCEPT ![r] = q] /\ last' = Idle /\ UNCHANGED <<regVars, memVars>>
  BY <1>1, <1>3 DEF Quiet, ReadEvidence, GatewayInv, GatewayTypeOK
<1>7. meta.source \in Source /\ stage \in Stage
  BY <1>5 DEF Meta, Stage
<1>8. own => meta = [who |-> o.who, app |-> o.app, source |-> meta.source]
  BY <1>5 DEF Meta
<1>9. stage = "allow" => own
  OBVIOUS
<1> HIDE DEF stage, own
<1>10. q \in Opened
  BY <1>7 DEF Opened
<1>11. /\ q.stage = stage /\ q.evidence = c /\ q.source = meta.source /\ q.limit = o.limit
       /\ q.origin = o.origin /\ q.kind = o.kind /\ q.who = o.who /\ q.app = o.app
       /\ q.slug = o.slug /\ q.role = o.role /\ q.began = o.began
  BY <1>1 DEF Opened
<1> HIDE DEF q
<1>12. q.origin # "allowlisted_source"
  BY <1>1, <1>11 DEF ReadRight, TrustWasRight
<1>13. EvidenceIsOwn(q)
  BY <1>3, <1>7, <1>8, <1>9, <1>11, <1>12 DEF EvidenceIsOwn
<1>14. ReadRight(q)
  BY <1>1, <1>11, <1>12, <1>13, SameRequest DEF ReadRight, TrustWasRight
<1> QED
  BY <1>6, <1>10, <1>14, ReadingStep

\* It is trusted only by a rule in force when it asked.
LEMMA AskAllowlistKeeps ==
  ASSUME GatewayInv, NEW r \in Request, AskAllowlist(r)
  PROVE  GatewayInv'
<1>1. PICK o \in Opened : o = req[r] /\ o.stage = "allow" /\ ReadRight(o)
  BY InProgress DEF AskAllowlist, Step
<1> DEFINE origin == IF IsAllowlisted(o.slug, o.who, o.app, o.source)
                     THEN "allowlisted_source" ELSE "mcp"
           q == [o EXCEPT !.stage = "write", !.origin = origin]
<1>2. req' = [req EXCEPT ![r] = q] /\ last' = Idle /\ UNCHANGED <<regVars, memVars>>
  BY <1>1 DEF Quiet, AskAllowlist, GatewayInv, GatewayTypeOK
<1>3. origin = "allowlisted_source" => RuleOf(o) \in allowlist
  BY DEF IsAllowlisted, RuleOf
<1>4. origin \in Origin /\ "write" \in Stage
  BY DEF Origin, Stage
<1> HIDE DEF origin
<1>5. q \in Opened
  BY <1>4 DEF Opened
<1>6. /\ q.stage = "write" /\ q.origin = origin /\ q.evidence = o.evidence
      /\ q.source = o.source /\ q.limit = o.limit /\ q.kind = o.kind /\ q.who = o.who
      /\ q.app = o.app /\ q.slug = o.slug /\ q.role = o.role /\ q.began = o.began
  BY <1>1 DEF Opened
<1> HIDE DEF q
<1>7. EvidenceIsOwn(q)
  BY <1>1, <1>6 DEF ReadRight, EvidenceIsOwn
<1>8. TrustWasRight(q)
  <2> SUFFICES ASSUME origin = "allowlisted_source"
               PROVE  \E k \in q.began..Now : RuleAt(k, RuleOf(q))
    BY <1>6 DEF TrustWasRight
  <2>1. RuleAt(Now, RuleOf(o))
    BY <1>3 DEF GatewayInv, RegInv, LogTellsTables, RulesTold
  <2>2. RuleOf(q) = RuleOf(o)
    BY <1>6 DEF RuleOf
  <2>3. Now \in q.began..Now
    BY <1>1, <1>6 DEF ReadRight, RoleWasRight, Opened, GatewayInv, RegInv, RegTypeOK, Now
  <2> QED
    BY <2>1, <2>2, <2>3
<1>9. ReadRight(q)
  BY <1>1, <1>6, <1>7, <1>8, SameRequest DEF ReadRight
<1> QED
  BY <1>2, <1>5, <1>9, ReadingStep

\* suggest_facts never claims a trusted source.
LEMMA SuggestReadsKeep ==
  ASSUME GatewayInv, NEW r \in Request,
         \/ \E c \in Content : ReadEpisode(r, c)
         \/ \E v, b, s \in 0..MaxOffer : ModelAnswers(r, v, b, s)
  PROVE  GatewayInv'
<1>1. CASE \E c \in Content : ReadEpisode(r, c)
  <2>1. PICK c \in Content : ReadEpisode(r, c)
    BY <1>1
  <2>2. PICK o \in Opened : o = req[r] /\ o.stage = "suggest" /\ ReadRight(o)
    BY <2>1, InProgress DEF ReadEpisode, Step
  <2> DEFINE q == [o EXCEPT !.evidence = c, !.origin = "ai_suggestion", !.stage = "model"]
  <2>3. req' = [req EXCEPT ![r] = q] /\ last' = Idle /\ UNCHANGED <<regVars, memVars>>
    BY <2>1, <2>2 DEF Quiet, ReadEpisode, GatewayInv, GatewayTypeOK
  <2>4. q \in Opened
    BY DEF Opened, Origin, Stage
  <2>5. /\ q.stage = "model" /\ q.origin = "ai_suggestion" /\ q.limit = o.limit
        /\ q.kind = o.kind /\ q.who = o.who /\ q.slug = o.slug /\ q.role = o.role
        /\ q.began = o.began
    BY <2>2 DEF Opened
  <2> HIDE DEF q
  <2>6. ReadRight(q)
    BY <2>2, <2>5, SameRequest DEF ReadRight, EvidenceIsOwn, TrustWasRight
  <2> QED
    BY <2>3, <2>4, <2>6, ReadingStep
<1>2. CASE \E v, b, s \in 0..MaxOffer : ModelAnswers(r, v, b, s)
  <2>1. PICK v \in 0..MaxOffer, b \in 0..MaxOffer, s \in 0..MaxOffer : ModelAnswers(r, v, b, s)
    BY <1>2
  <2>2. PICK o \in Opened : o = req[r] /\ o.stage = "model" /\ ReadRight(o)
    BY <2>1, InProgress DEF ModelAnswers, Step
  <2> DEFINE q == [o EXCEPT !.left = v, !.dropped = b, !.offered = v + b + s,
                            !.stage = "suggestions"]
  <2>3. req' = [req EXCEPT ![r] = q] /\ last' = Idle /\ UNCHANGED <<regVars, memVars>>
    BY <2>1, <2>2 DEF Quiet, ModelAnswers, GatewayInv, GatewayTypeOK
  <2>4. v \in Nat /\ b \in Nat /\ v + b + s \in Nat
    OBVIOUS
  <2>5. q \in Opened
    BY <2>4 DEF Opened, Stage
  <2>6. /\ q.stage = "suggestions" /\ q.origin = o.origin /\ q.limit = o.limit
        /\ q.kind = o.kind /\ q.who = o.who /\ q.slug = o.slug /\ q.role = o.role
        /\ q.began = o.began
    BY <2>2 DEF Opened
  <2> HIDE DEF q
  <2>7. q.origin # "allowlisted_source"
    BY <2>2, <2>6 DEF ReadRight, TrustWasRight
  <2>8. ReadRight(q)
    BY <2>2, <2>6, <2>7, SameRequest DEF ReadRight, EvidenceIsOwn, TrustWasRight
  <2> QED
    BY <2>3, <2>5, <2>8, ReadingStep
<1> QED
  BY <1>1, <1>2

\* A call that is accepted was right in what it is based on.
LEMMA AcceptedRight ==
  ASSUME GatewayInv, UNCHANGED regVars, NEW r \in Request, NEW o \in Opened, o = req[r],
         ReadRight(o), NEW nth \in Nat, Accept(r, nth),
         nth > 0 => nth <= o.limit /\ o.stage \notin {"limit", "decide"},
         o.stage = "write" => episodes' = episodes
  PROVE  AcceptedOK'
<1>1. regLog' = regLog /\ Now' = Now /\ Now \in Nat
  BY DEF regVars, GatewayInv, RegInv, RegTypeOK, Now
<1>2. /\ last'.kind = o.kind /\ last'.who = o.who /\ last'.app = o.app /\ last'.slug = o.slug
      /\ last'.role = o.role /\ last'.evidence = o.evidence /\ last'.origin = o.origin
      /\ last'.nth = nth /\ last'.began = o.began /\ last'.at = Now
  BY DEF Accept
<1>3. During(last)' = o.began..Now
  BY <1>2 DEF During
<1>4. PICK k \in o.began..Now : MayOpenAt(k, o.who, o.slug, o.role)
  BY DEF ReadRight, RoleWasRight
<1>5. WritesWhereAllowed'
  <2>1. MayOpenAt(k, last.who, last.slug, last.role)'
    BY <1>1, <1>2, <1>4 DEF MayOpenAt, MultiAt, ClientAt, RoleAt
  <2> QED
    BY <1>3, <2>1 DEF WritesWhereAllowed
<1>6. ReviewersDecide'
  <2> SUFFICES ASSUME o.kind = "review", o.who \notin Admins
               PROVE  RoleAt(k, last.who, last.slug, "reviewer")'
    BY <1>2, <1>3 DEF ReviewersDecide
  <2>1. o.role \in {"reviewer", "admin"} /\ o.role \in MemberRole
    BY <1>4 DEF ReadRight, RoleWasRight, CanReview, MayOpenAt
  <2>2. o.role = "reviewer"
    BY <2>1 DEF MemberRole
  <2>3. RoleAt(k, o.who, o.slug, "reviewer")
    BY <1>4, <2>2 DEF MayOpenAt
  <2> QED
    BY <1>1, <1>2, <2>3 DEF RoleAt
<1>7. TrustFollowsEvidence'
  <2> SUFFICES ASSUME o.origin = "allowlisted_source" PROVE TrustFollowsEvidence'
    BY <1>2 DEF TrustFollowsEvidence
  <2>1. /\ o.stage = "write" /\ o.source \in Source /\ o.who \in Email /\ o.app \in App
        /\ episodes[o.slug, o.evidence] = [who |-> o.who, app |-> o.app, source |-> o.source]
    BY DEF ReadRight, EvidenceIsOwn, TrustWasRight, Opened
  <2>2. PICK meta : meta = [who |-> o.who, app |-> o.app, source |-> o.source]
    OBVIOUS
  <2>3. episodes'[last'.slug, last'.evidence] = meta
    BY <1>2, <2>1, <2>2
  <2>4. meta # None /\ meta.who = o.who /\ meta.app = o.app /\ meta.source = o.source
    <3>1. meta \in Meta
      BY <2>1, <2>2 DEF Meta
    <3> QED
      BY <2>2, <3>1, GatewayConstants
  <2>5. PICK i \in o.began..Now : RuleAt(i, RuleOf(o))
    BY DEF ReadRight, TrustWasRight
  <2>6. Latest(regLog', i, {"allow_source", "revoke_source"}, RuleOf(o), TRUE)
    BY <1>1, <2>5 DEF RuleAt
  <2>7. RuleOf(o) = [client |-> last'.slug, who |-> last'.who, app |-> last'.app,
                     source |-> episodes'[last'.slug, last'.evidence].source]
    BY <1>2, <2>3, <2>4 DEF RuleOf
  <2> QED
    BY <1>2, <1>3, <2>3, <2>4, <2>5, <2>6, <2>7 DEF TrustFollowsEvidence, RuleAt
<1>8. WritesWithinLimit'
  <2> SUFFICES ASSUME nth > 0
               PROVE  \E i \in o.began..Now, n \in Limit \cup {DefaultLimit} :
                        LimitAt(i, o.slug, n)' /\ nth <= n
    BY <1>2, <1>3 DEF WritesWithinLimit, LimitAt
  <2>1. PICK i \in o.began..Now, n \in Limit \cup {DefaultLimit} :
          LimitAt(i, o.slug, n) /\ o.limit = n
    BY DEF ReadRight, LimitWasRight
  <2>2. LimitAt(i, o.slug, n)'
    BY <1>1, <2>1 DEF LimitAt
  <2> QED
    BY <2>1, <2>2
<1> QED
  BY <1>5, <1>6, <1>7, <1>8 DEF AcceptedOK

\* A write takes one more of its minute, within the limit the request read.
LEMMA Counted ==
  ASSUME GatewayInv, NEW r \in Request, NEW o \in Opened, o = req[r], Count(r)
  PROVE  /\ counts' \in [Slug \X Principal -> Nat]
         /\ \E nth \in Nat : Accept(r, nth) /\ nth > 0 /\ nth <= o.limit
<1>1. Counter(r) \in Slug \X Principal
  BY DEF Counter, Opened, Principal
<1>2. counts[Counter(r)] \in Nat /\ o.limit \in Nat
  BY <1>1 DEF GatewayInv, GatewayTypeOK, Opened
<1>3. Accept(r, counts[Counter(r)] + 1) /\ counts[Counter(r)] + 1 <= o.limit
  BY <1>2 DEF Count
<1>4. counts' \in [Slug \X Principal -> Nat]
  BY <1>1, <1>2 DEF Count, GatewayInv, GatewayTypeOK
<1> QED
  BY <1>2, <1>3, <1>4

\* A new text gets a recorder, a stored one keeps its own.
LEMMA RecordEpisodeKeeps ==
  ASSUME GatewayInv, NEW r \in Request, NEW c \in Content, NEW source \in Source,
         RecordEpisode(r, c, source)
  PROVE  GatewayInv'
<1>1. PICK o \in Opened : o = req[r] /\ o.stage = "record" /\ ReadRight(o)
  BY InProgress DEF RecordEpisode, Step
<1>2. RegInv' /\ RegStep /\ UNCHANGED regVars
  BY RegUnchanged DEF RecordEpisode, GatewayInv, RegStep
<1> DEFINE slot == <<o.slug, c>>
           mine == [who |-> o.who, app |-> o.app, source |-> source]
<1>3. slot \in Slug \X Content /\ mine \in Meta
  BY DEF Opened, Meta
<1>4. /\ Count(r) /\ req' = [req EXCEPT ![r] = Idle]
      /\ episodes' = [episodes EXCEPT ![slot] = IF episodes[slot] = None THEN mine
                                                ELSE episodes[slot]]
  BY <1>1 DEF RecordEpisode
<1> HIDE DEF slot, mine
<1>5. /\ episodes' \in [Slug \X Content -> Meta \cup {None}]
      /\ \A p \in Slug \X Content : episodes[p] # None => episodes'[p] = episodes[p]
  BY <1>3, <1>4 DEF GatewayInv, GatewayTypeOK
<1>6. PICK nth \in Nat : Accept(r, nth) /\ nth > 0 /\ nth <= o.limit
  BY <1>1, <1>4, Counted
<1>7. AcceptedOK'
  BY <1>1, <1>2, <1>6, AcceptedRight
<1>8. req' \in [Request -> {Idle} \cup Opened] /\ RequestsOK'
  <2>1. Idle \notin Opened
    BY DEF Idle, Opened, Stage, Kind
  <2> QED
    BY <1>2, <1>4, <1>5, <2>1, OneRequest DEF GatewayInv
<1>9. counts' \in [Slug \X Principal -> Nat]
  BY <1>1, <1>4, Counted
<1> QED
  BY <1>2, <1>5, <1>7, <1>8, <1>9 DEF GatewayInv, GatewayTypeOK

\* Facts are accepted on what the request has read.
LEMMA WriteKeeps ==
  ASSUME GatewayInv, NEW r \in Request, AssertFact(r) \/ WriteSuggestion(r)
  PROVE  GatewayInv'
<1>1. PICK o \in Opened : o = req[r] /\ o.stage \in {"write", "suggestions"} /\ ReadRight(o)
  BY InProgress DEF AssertFact, WriteSuggestion, Step
<1>2. RegInv' /\ RegStep /\ UNCHANGED regVars /\ regLog' = regLog /\ episodes' = episodes
  BY RegUnchanged DEF AssertFact, WriteSuggestion, GatewayInv, RegStep, regVars
<1>3. Count(r)
  BY DEF AssertFact, WriteSuggestion
<1>4. PICK nth \in Nat : Accept(r, nth) /\ nth > 0 /\ nth <= o.limit
  BY <1>1, <1>3, Counted
<1>5. AcceptedOK'
  BY <1>1, <1>2, <1>4, AcceptedRight
<1>6. \E q \in {Idle} \cup Opened : (q \in Opened => ReadRight(q)') /\ req' = [req EXCEPT ![r] = q]
  <2>1. CASE AssertFact(r)
    <3>1. Idle \notin Opened
      BY DEF Idle, Opened, Stage, Kind
    <3> QED
      BY <2>1, <3>1 DEF AssertFact
  <2>2. CASE WriteSuggestion(r)
    <3> DEFINE q == [o EXCEPT !.left = o.left - 1, !.stored = o.stored + 1]
    <3>1. req' = [req EXCEPT ![r] = q] /\ o.stage = "suggestions" /\ o.left > 0
      BY <1>1, <2>2 DEF WriteSuggestion, Step, GatewayInv, GatewayTypeOK
    <3>2. o.left - 1 \in Nat /\ o.stored + 1 \in Nat
      BY <3>1 DEF Opened
    <3>3. q \in Opened
      BY <3>2 DEF Opened
    <3>4. /\ q.stage = o.stage /\ q.origin = o.origin /\ q.limit = o.limit
          /\ q.kind = o.kind /\ q.who = o.who /\ q.slug = o.slug /\ q.role = o.role
          /\ q.began = o.began
      BY DEF Opened
    <3> HIDE DEF q
    <3>5. q.origin # "allowlisted_source"
      BY <1>1, <3>1, <3>4 DEF ReadRight, TrustWasRight
    <3>6. ReadRight(q)
      BY <1>1, <3>1, <3>4, <3>5, SameRequest DEF ReadRight, EvidenceIsOwn, TrustWasRight
    <3>7. ReadRight(q)'
      BY <1>2, <3>6, SameReads
    <3> QED
      BY <3>1, <3>3, <3>7
  <2> QED
    BY <2>1, <2>2
<1>7. req' \in [Request -> {Idle} \cup Opened] /\ RequestsOK'
  BY <1>2, <1>6, OneRequest DEF GatewayInv
<1>8. counts' \in [Slug \X Principal -> Nat]
  BY <1>1, <1>3, Counted
<1> QED
  BY <1>2, <1>5, <1>7, <1>8 DEF GatewayInv, GatewayTypeOK

\* A decision is accepted on the role the request has read.
LEMMA DecideKeeps ==
  ASSUME GatewayInv, NEW r \in Request, Decide(r)
  PROVE  GatewayInv'
<1>1. PICK o \in Opened : o = req[r] /\ o.stage = "decide" /\ ReadRight(o)
  BY InProgress DEF Decide, Step
<1>2. RegInv' /\ RegStep /\ UNCHANGED regVars /\ episodes' = episodes /\ counts' = counts
  BY RegUnchanged DEF Decide, GatewayInv, RegStep, memVars
<1>3. AcceptedOK'
  BY <1>1, <1>2, AcceptedRight DEF Decide
<1>4. req' \in [Request -> {Idle} \cup Opened] /\ RequestsOK'
  <2>1. Idle \notin Opened
    BY DEF Idle, Opened, Stage, Kind
  <2> QED
    BY <1>2, <2>1, OneRequest DEF Decide, GatewayInv
<1> QED
  BY <1>2, <1>3, <1>4 DEF GatewayInv, GatewayTypeOK

\* A request that ends accepts nothing.
LEMMA EndKeeps ==
  ASSUME GatewayInv, NEW r \in Request, AnswerSuggest(r) \/ Fail(r)
  PROVE  GatewayInv'
<1>1. /\ req' = [req EXCEPT ![r] = Idle] /\ last' = Idle /\ UNCHANGED <<regVars, memVars>>
  BY DEF AnswerSuggest, Fail, Quiet
<1>2. Idle \notin Opened
  BY DEF Idle, Opened, Stage, Kind
<1> QED
  BY <1>1, <1>2, ReadingStep

\* Steps in which every request waits.
LEMMA WaitKeeps ==
  ASSUME GatewayInv, RegStep, last' = Idle, req' = req, episodes' = episodes,
         counts' \in [Slug \X Principal -> Nat]
  PROVE  GatewayInv'
<1>1. ASSUME NEW p \in Request, req'[p] \in Opened PROVE ReadRight(req[p])'
  <2>1. PICK o : o = req[p] /\ req'[p] = o
    OBVIOUS
  <2>2. ReadRight(o)'
    BY <1>1, <2>1, ReadRightKept DEF GatewayInv, RequestsOK
  <2> QED
    BY <2>1, <2>2, ReadRightNow
<1>2. RequestsOK'
  BY <1>1 DEF RequestsOK
<1>3. RegInv' /\ AcceptedOK'
  BY RegStepKeeps, NothingAccepted DEF GatewayInv
<1> QED
  BY <1>2, <1>3 DEF GatewayInv, GatewayTypeOK

\* What the requests have read is right in every reachable state.
THEOREM ReadsAreRight == Spec => []GatewayInv
<1>1. Init => GatewayInv
  <2> SUFFICES ASSUME Init PROVE GatewayInv
    OBVIOUS
  <2>1. RegInv /\ GatewayTypeOK
    BY RegInitially DEF Init, GatewayTypeOK
  <2>2. RequestsOK
    BY DEF Init, RequestsOK, Idle, Opened, Stage, Kind
  <2>3. AcceptedOK
    BY DEF Init, AcceptedOK, WritesWhereAllowed, ReviewersDecide, TrustFollowsEvidence,
           WritesWithinLimit, Accepted
  <2> QED
    BY <2>1, <2>2, <2>3 DEF GatewayInv
<1>2. GatewayInv /\ [Next]_vars => GatewayInv'
  <2> SUFFICES ASSUME GatewayInv, [Next]_vars PROVE GatewayInv'
    OBVIOUS
  <2>1. CASE AdminStep
    BY <2>1, WaitKeeps DEF AdminStep, Quiet, RegStep, memVars, GatewayInv, GatewayTypeOK
  <2>2. CASE NextMinute
    <3>1. counts' \in [Slug \X Principal -> Nat]
      BY <2>2 DEF NextMinute
    <3> QED
      BY <2>2, <3>1, WaitKeeps DEF NextMinute, Quiet, RegStep
  <2>3. ASSUME NEW r \in Request, Work(r) PROVE GatewayInv'
    <3>1. CASE \E kind \in Kinds, who \in Email, app \in App, client \in Slug \cup {None} :
                 Arrive(r, kind, who, app, client)
      BY <3>1, ArriveKeeps
    <3>2. CASE ReadLimit(r)
      BY <3>2, ReadLimitKeeps
    <3>3. CASE \E c \in Content, source \in Source : RecordEpisode(r, c, source)
      BY <3>3, RecordEpisodeKeeps
    <3>4. CASE \E c \in Content : ReadEvidence(r, c)
      BY <3>4, ReadEvidenceKeeps
    <3>5. CASE AskAllowlist(r)
      BY <3>5, AskAllowlistKeeps
    <3>6. CASE \/ \E c \in Content : ReadEpisode(r, c)
               \/ \E v, b, s \in 0..MaxOffer : ModelAnswers(r, v, b, s)
      BY <3>6, SuggestReadsKeep
    <3>7. CASE AssertFact(r) \/ WriteSuggestion(r)
      BY <3>7, WriteKeeps
    <3>8. CASE AnswerSuggest(r) \/ Fail(r)
      BY <3>8, EndKeeps
    <3>9. CASE Decide(r)
      BY <3>9, DecideKeeps
    <3> QED
      BY <2>3, <3>1, <3>2, <3>3, <3>4, <3>5, <3>6, <3>7, <3>8, <3>9 DEF Work
  <2>4. CASE UNCHANGED vars
    <3>1. /\ regLog' = regLog /\ UNCHANGED regVars /\ req' = req /\ episodes' = episodes
          /\ counts' = counts /\ last' = last
      BY <2>4 DEF vars, regVars, memVars
    <3>2. RegInv' /\ RegStep
      BY <3>1, RegUnchanged DEF GatewayInv, RegStep
    <3>3. ASSUME NEW p \in Request, req'[p] \in Opened PROVE ReadRight(req[p])'
      <4>1. PICK o : o = req[p] /\ req'[p] = o
        BY <3>1
      <4>2. ReadRight(o)'
        BY <3>1, <3>2, <3>3, <4>1, ReadRightKept DEF GatewayInv, RequestsOK
      <4> QED
        BY <4>1, <4>2, ReadRightNow
    <3>4. AcceptedOK'
      BY <3>1 DEF GatewayInv, AcceptedOK, WritesWhereAllowed, ReviewersDecide, WritesWithinLimit,
                  TrustFollowsEvidence, Accepted, During, MayOpenAt, MultiAt, ClientAt, RoleAt,
                  RuleAt, LimitAt
    <3> QED
      BY <3>1, <3>2, <3>3, <3>4 DEF GatewayInv, GatewayTypeOK, RequestsOK
  <2> QED
    BY <2>1, <2>2, <2>3, <2>4 DEF Next
<1> QED
  BY <1>1, <1>2, PTL DEF Spec

\* The registry's tables are what its audit log says, for any number of
\* administrators, clients, rules and operations.  (registry/Registry.ts)
THEOREM TablesFollowLog == Spec => []LogTellsTables
<1>1. GatewayInv => LogTellsTables
  BY DEF GatewayInv, RegInv
<1> QED
  BY <1>1, ReadsAreRight, PTL

\* Whatever administrators change between its calls, a request writes only
\* where its caller could, with that role, since it arrived.
\* (mcp/context.ts openClient)
THEOREM AccessIsRight == Spec => []WritesWhereAllowed
<1>1. GatewayInv => WritesWhereAllowed
  BY DEF GatewayInv, AcceptedOK
<1> QED
  BY <1>1, ReadsAreRight, PTL

\* A decision is made by an administrator, or by somebody who was a reviewer
\* of that client at some time since the request arrived.  (web/review.ts)
THEOREM DecisionsByReviewers == Spec => []ReviewersDecide
<1>1. GatewayInv => ReviewersDecide
  BY DEF GatewayInv, AcceptedOK
<1> QED
  BY <1>1, ReadsAreRight, PTL

\* No fact arrives trusted on somebody else's evidence, or without a rule for
\* its source since the request arrived.  (tools/facts.ts originForEvidence)
THEOREM TrustIsEarned == Spec => []TrustFollowsEvidence
<1>1. GatewayInv => TrustFollowsEvidence
  BY DEF GatewayInv, AcceptedOK
<1> QED
  BY <1>1, ReadsAreRight, PTL

\* However many requests of a principal race, and whatever limit each of them
\* read, none of their writes goes beyond a limit in force since it arrived.
THEOREM LimitHolds == Spec => []WritesWithinLimit
<1>1. GatewayInv => WritesWithinLimit
  BY DEF GatewayInv, AcceptedOK
<1> QED
  BY <1>1, ReadsAreRight, PTL
=============================================================================
