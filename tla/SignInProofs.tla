---------------------------- MODULE SignInProofs ----------------------------
(***************************************************************************)
(* Signing in, for any number of browsers, applications, people and        *)
(* requests and however far the store's locations are apart: what a        *)
(* request has read so far agrees with the store, the provider's codes and *)
(* the browser's history, so every grant rests on an approval and on one   *)
(* unused sign-in; and the list a browser carries tells its approvals.     *)
(***************************************************************************)
EXTENDS SignIn, TLAPS

-----------------------------------------------------------------------------
(* The list of approved applications *)

\* Leaving an application out yields a list of the others.
LEMMA WithoutType ==
  ASSUME NEW s \in Seq(App), NEW a \in App
  PROVE  /\ Without(s, a) \in Seq(App)
         /\ Apps(Without(s, a)) \subseteq Apps(s)
<1>1. CASE a \notin Apps(s)
  BY <1>1 DEF Without
<1>2. CASE a \in Apps(s)
  <2> DEFINE at == CHOOSE i \in DOMAIN s : s[i] = a
             rest == [i \in 1 .. Len(s) - 1 |-> IF i < at THEN s[i] ELSE s[i + 1]]
  <2>1. Without(s, a) = rest
    BY <1>2 DEF Without
  <2>2. at \in DOMAIN s
    BY <1>2 DEF Apps
  <2>3. at \in 1 .. Len(s) /\ Len(s) \in Nat
    BY <2>2
  <2> HIDE DEF at
  <2>4. \A i \in 1 .. Len(s) - 1 : i \in 1 .. Len(s) /\ i + 1 \in 1 .. Len(s)
    BY <2>3
  <2>5. \A i \in 1 .. Len(s) - 1 : rest[i] \in App /\ rest[i] \in Apps(s)
    BY <2>3, <2>4 DEF Apps
  <2>6. Len(s) - 1 \in Nat
    BY <2>3
  <2>7. rest \in Seq(App) /\ DOMAIN rest = 1 .. Len(s) - 1
    BY <2>5, <2>6
  <2> QED BY <2>1, <2>5, <2>7 DEF Apps
<1> QED BY <1>1, <1>2

\* approvedClientsCookie yields at most MaxApproved applications, the new one
\* and ones from before.
LEMMA ApproveType ==
  ASSUME NEW s \in Seq(App), NEW a \in App
  PROVE  /\ Approve(s, a) \in Seq(App)
         /\ Apps(Approve(s, a)) \subseteq Apps(s) \cup {a}
         /\ Len(Approve(s, a)) <= MaxApproved
<1> DEFINE w == Without(s, a)
           all == Append(w, a)
           last == SubSeq(all, Len(all) - MaxApproved + 1, Len(all))
<1>1. w \in Seq(App) /\ Apps(w) \subseteq Apps(s)
  BY WithoutType
<1>2. MaxApproved \in Nat \ {0}
  BY SignInConstants
<1> HIDE DEF w
<1>3. all \in Seq(App) /\ Len(all) \in Nat
  BY <1>1
<1>4. Apps(all) \subseteq Apps(s) \cup {a}
  BY <1>1, SMTT(30) DEF Apps
<1>5. Approve(s, a) = IF Len(all) <= MaxApproved THEN all ELSE last
  BY DEF Approve, w
<1> HIDE DEF all
<1>6. ASSUME ~(Len(all) <= MaxApproved)
      PROVE  /\ last \in Seq(App)
             /\ Len(last) = MaxApproved
             /\ Apps(last) \subseteq Apps(all)
  <2>1. Len(all) - MaxApproved + 1 \in 1 .. Len(all)
    BY <1>2, <1>3, <1>6
  <2>2. last \in Seq(App) /\ Len(last) = MaxApproved
    BY <1>2, <1>3, <2>1
  <2>3. \A i \in DOMAIN last : last[i] \in Apps(all)
    BY <1>2, <1>3, <2>1, <2>2, SMTT(30) DEF Apps
  <2> QED BY <2>2, <2>3 DEF Apps
<1> QED BY <1>2, <1>3, <1>4, <1>5, <1>6

-----------------------------------------------------------------------------
(* Who changes what *)

\* The store changes when a value is put or deleted.
LEMMA PutsAndDeletes ==
  ASSUME Next, kv' # kv
  PROVE  \/ \E b \in Browser, i \in Id, a \in App :
              SkipConsent(b, a, i) \/ ShowConsent(b, a, i)
         \/ \E b \in Browser, i \in Id : StartBrowserSignIn(b, i)
         \/ \E r \in Request : DeleteTaken(r)
         \/ \E r \in Request, i \in Id : Agree(r, i)
BY DEF Next, Browse, Work, ServePage, SubmitForm, ReturnFromProvider, Refuse,
       ExchangeCode, VerifyToken, ReturnToPage, CompleteAuthorization, Fail,
       SignAtProvider, Tick

\* A browser's cookies change with the answer to an approval or a callback.
LEMMA CookieAnswers ==
  ASSUME Next, jar' # jar
  PROVE  \/ \E r \in Request, i \in Id : Agree(r, i)
         \/ \E r \in Request : ReturnToPage(r) \/ CompleteAuthorization(r)
BY DEF Next, Browse, Work, ServePage, SkipConsent, ShowConsent, StartBrowserSignIn,
       SubmitForm, ReturnFromProvider, DeleteTaken, Refuse, ExchangeCode,
       VerifyToken, Fail, SignAtProvider, Tick

\* The provider's codes change when one is issued and when one is exchanged.
LEMMA CodeSteps ==
  ASSUME Next, codes' # codes
  PROVE  \/ \E p \in Person, i \in Id, c \in Code : SignAtProvider(p, i, c)
         \/ \E r \in Request : ExchangeCode(r)
BY ZenonT(60) DEF Next, Browse, Work, ServePage, SkipConsent, ShowConsent, StartBrowserSignIn,
       SubmitForm, ReturnFromProvider, DeleteTaken, Refuse, Agree,
       VerifyToken, ReturnToPage, CompleteAuthorization, Fail, Tick

\* Only completeAuthorization grants.
LEMMA GrantSteps ==
  ASSUME Next, grants' # grants
  PROVE  \E r \in Request : CompleteAuthorization(r)
BY ZenonT(60) DEF Next, Browse, Work, ServePage, SkipConsent, ShowConsent, StartBrowserSignIn,
       SubmitForm, ReturnFromProvider, DeleteTaken, Refuse, Agree, ExchangeCode,
       VerifyToken, ReturnToPage, Fail, SignAtProvider, Tick, history

\* A session is made when a token is accepted.
LEMMA LoginSteps ==
  ASSUME Next, logins' # logins
  PROVE  \E r \in Request : VerifyToken(r)
BY ZenonT(60) DEF Next, Browse, Work, ServePage, SkipConsent, ShowConsent, StartBrowserSignIn,
       SubmitForm, ReturnFromProvider, DeleteTaken, Refuse, Agree, ExchangeCode,
       ReturnToPage, CompleteAuthorization, Fail, SignAtProvider, Tick, history

\* Approvals are given on the consent screen.
LEMMA AgreedSteps ==
  ASSUME Next, agreed' # agreed
  PROVE  \E r \in Request, i \in Id : Agree(r, i)
BY ZenonT(60) DEF Next, Browse, Work, ServePage, SkipConsent, ShowConsent, StartBrowserSignIn,
       SubmitForm, ReturnFromProvider, DeleteTaken, Refuse, ExchangeCode,
       VerifyToken, ReturnToPage, CompleteAuthorization, Fail, SignAtProvider,
       Tick, history

\* A value counts as spent when its delete has returned.
LEMMA SpentSteps ==
  ASSUME Next, spent' # spent
  PROVE  \E r \in Request : DeleteTaken(r)
BY ZenonT(60) DEF Next, Browse, Work, ServePage, SkipConsent, ShowConsent, StartBrowserSignIn,
       SubmitForm, ReturnFromProvider, Refuse, Agree, ExchangeCode,
       VerifyToken, ReturnToPage, CompleteAuthorization, Fail, SignAtProvider,
       Tick, history

\* Only the clock's own step moves it.
LEMMA ClockSteps ==
  ASSUME Next, clock' # clock
  PROVE  Tick
BY ZenonT(60) DEF Next, Browse, Work, ServePage, SkipConsent, ShowConsent, StartBrowserSignIn,
       SubmitForm, ReturnFromProvider, DeleteTaken, Refuse, Agree, ExchangeCode,
       VerifyToken, ReturnToPage, CompleteAuthorization, Fail, SignAtProvider

\* A page is served by ServePage, from the state that stays.
LEMMA ServedSteps ==
  ASSUME Next
  PROVE  served' = None \/ \E b \in Browser : ServePage(b)
BY ZenonT(60) DEF Next, Browse, Work, SkipConsent, ShowConsent, StartBrowserSignIn,
       SubmitForm, ReturnFromProvider, DeleteTaken, Refuse, Agree, ExchangeCode,
       VerifyToken, ReturnToPage, CompleteAuthorization, Fail, SignAtProvider,
       Tick, Quiet

-----------------------------------------------------------------------------
(* What stays *)

\* What putOnce changes: one free identifier gets a value.
LEMMA PutOne ==
  ASSUME TypeOK, NEW i \in Id, NEW kind \in {"consent", "upstream"},
         NEW a \in App \cup {None}, NEW b \in Browser, Put(i, kind, a, b)
  PROVE  /\ kv[i] = None
         /\ kv' \in [Id -> Value \cup {None}]
         /\ kv'[i] = [kind |-> kind, app |-> a, browser |-> b, deleted |-> 0]
         /\ kv'[i] \in Value
         /\ \A j \in Id : j # i => kv'[j] = kv[j]
<1>1. [kind |-> kind, app |-> a, browser |-> b, deleted |-> 0] \in Value
  BY DEF Value
<1> QED BY <1>1 DEF TypeOK, Put

\* A value under an identifier is never replaced, a code is never issued to
\* somebody else, and what was agreed to or made stays on record.
LEMMA Kept ==
  ASSUME TypeOK, [Next]_vars
  PROVE  /\ \A i \in Id : kv[i] # None =>
              /\ kv'[i] # None
              /\ kv'[i].kind = kv[i].kind
              /\ kv'[i].app = kv[i].app
              /\ kv'[i].browser = kv[i].browser
         /\ \A c \in Code : codes[c] # None =>
              /\ codes'[c] # None
              /\ codes'[c].who = codes[c].who
              /\ codes[c].used => codes'[c].used
         /\ agreed \subseteq agreed'
         /\ logins \subseteq logins'
<1>1. kv' # kv => \A i \in Id : kv[i] # None =>
              /\ kv'[i] # None
              /\ kv'[i].kind = kv[i].kind
              /\ kv'[i].app = kv[i].app
              /\ kv'[i].browser = kv[i].browser
  <2> SUFFICES ASSUME kv' # kv, NEW i \in Id, kv[i] # None
               PROVE  /\ kv'[i] # None
                      /\ kv'[i].kind = kv[i].kind
                      /\ kv'[i].app = kv[i].app
                      /\ kv'[i].browser = kv[i].browser
    OBVIOUS
  <2>0. Next
    BY DEF vars
  <2>1. kv[i] \in Value /\ kv[i] = [kind |-> kv[i].kind, app |-> kv[i].app,
                   browser |-> kv[i].browser, deleted |-> kv[i].deleted]
    BY DEF TypeOK, Value
  <2>2. ASSUME NEW j \in Id, NEW kind, NEW a, NEW b, Put(j, kind, a, b)
        PROVE  kv'[i] = kv[i]
    BY <2>2 DEF Put, TypeOK
  <2>3. ASSUME NEW r \in Request, DeleteTaken(r)
        PROVE  kv'[i] \in {kv[i], [kv[i] EXCEPT !.deleted = clock]}
    BY <2>3 DEF DeleteTaken, TypeOK, Deleted
  <2>4. kv'[i] \in {kv[i], [kv[i] EXCEPT !.deleted = clock]}
    BY <2>0, <2>2, <2>3, PutsAndDeletes
       DEF SkipConsent, ShowConsent, StartBrowserSignIn, Agree
  <2>5. clock \in Nat
    BY DEF TypeOK
  <2>6. kv'[i] \in Value
    BY <2>1, <2>4, <2>5 DEF Value
  <2> QED BY <2>1, <2>4, <2>6, SignInConstants
<1>2. codes' # codes => \A c \in Code : codes[c] # None =>
              /\ codes'[c] # None
              /\ codes'[c].who = codes[c].who
              /\ codes[c].used => codes'[c].used
  <2> SUFFICES ASSUME codes' # codes, NEW c \in Code, codes[c] # None
               PROVE  /\ codes'[c] # None
                      /\ codes'[c].who = codes[c].who
                      /\ codes[c].used => codes'[c].used
    OBVIOUS
  <2>0. Next
    BY DEF vars
  <2>1. codes[c] \in CodeRow
    BY DEF TypeOK
  <2>2. ASSUME NEW p, NEW i, NEW d \in Code, SignAtProvider(p, i, d)
        PROVE  codes'[c] = codes[c]
    BY <2>2 DEF SignAtProvider, TypeOK
  <2>3. ASSUME NEW r \in Request, ExchangeCode(r)
        PROVE  codes'[c] \in {codes[c], [codes[c] EXCEPT !.used = TRUE]}
    BY <2>3 DEF ExchangeCode, TypeOK
  <2>4. codes'[c] \in {codes[c], [codes[c] EXCEPT !.used = TRUE]}
    BY <2>0, <2>2, <2>3, CodeSteps
  <2> QED BY <2>1, <2>4, SignInConstants DEF CodeRow
<1>3. agreed \subseteq agreed'
  BY AgreedSteps DEF vars, history, Agree
<1>4. logins \subseteq logins'
  BY LoginSteps DEF vars, history, VerifyToken
<1> QED BY <1>1, <1>2, <1>3, <1>4 DEF vars

\* A request in progress has the columns of its record.
LEMMA Columns ==
  ASSUME TypeOK, NEW r \in Request, req[r] # Idle
  PROVE  /\ req[r] \in InProgress
         /\ req[r].stage # "idle"
         /\ req[r].browser \in Browser /\ req[r].id \in Id
         /\ req[r].cookie \in Seq(App)
         /\ req[r].code \in Code \cup {None}
         /\ req[r].session \in Session \cup {None}
         /\ req[r].answer \in Answer \cup {None}
BY DEF TypeOK, InProgress, Stage

\* A request at some stage is in progress.
LEMMA Busy ==
  ASSUME NEW r \in Request, req[r].stage # "idle"
  PROVE  req[r] # Idle
BY DEF Idle

\* Only its own steps change a request.
LEMMA OwnSteps ==
  ASSUME TypeOK, Next, NEW r \in Request, req'[r] # req[r]
  PROVE  Work(r)
<1>1. ASSUME NEW q \in Request, Work(q), q # r
      PROVE  FALSE
  BY <1>1 DEF TypeOK, Work, SubmitForm, ReturnFromProvider, DeleteTaken, Refuse,
       Agree, ExchangeCode, VerifyToken, ReturnToPage, CompleteAuthorization, Fail
<1>2. ASSUME NEW b \in Browser, Browse(b)
      PROVE  FALSE
  BY <1>2 DEF Browse, ServePage, SkipConsent, ShowConsent, StartBrowserSignIn
<1> QED BY <1>1, <1>2, SMTT(30) DEF Next, SignAtProvider, Tick

-----------------------------------------------------------------------------
(* The inductive invariant, part by part *)

\* The value a request in progress has taken, or is about to take.
LEMMA Taken ==
  ASSUME TypeOK, StoreOK, RequestsOK, NEW r \in Request, req[r] # Idle
  PROVE  /\ kv[req[r].id] \in Value
         /\ kv[req[r].id].kind = "consent" => kv[req[r].id].app \in App
         /\ kv[req[r].id].app \in App \cup {None}
         /\ RequestOK(r)
<1>1. req[r].id \in Id
  BY Columns
<1>2. kv[req[r].id] # None /\ RequestOK(r)
  BY DEF RequestsOK, RequestOK
<1> QED BY <1>1, <1>2 DEF TypeOK, StoreOK, Value

LEMMA TypeInit == ASSUME Init PROVE TypeOK
<1>1. jar \in [Browser -> [approved: Seq(App), session: Session \cup {None}]]
  BY DEF Init, NoCookies
<1> QED BY <1>1 DEF Init, TypeOK, Idle

\* The tables of the store and of the provider, and the counters.
LEMMA TablesStep ==
  ASSUME TypeOK, StoreOK, RequestsOK, [Next]_vars
  PROVE  /\ kv' \in [Id -> Value \cup {None}]
         /\ codes' \in [Code -> CodeRow \cup {None}]
         /\ spent' \in [Id -> Nat]
         /\ clock' \in Nat \ {0}
<1>1. kv' # kv => kv' \in [Id -> Value \cup {None}]
  <2> SUFFICES ASSUME kv' # kv PROVE kv' \in [Id -> Value \cup {None}]
    OBVIOUS
  <2>1. ASSUME NEW b \in Browser, NEW i \in Id, NEW a \in App,
               SkipConsent(b, a, i) \/ ShowConsent(b, a, i)
        PROVE  kv' \in [Id -> Value \cup {None}]
    BY <2>1, PutOne DEF SkipConsent, ShowConsent
  <2>2. ASSUME NEW b \in Browser, NEW i \in Id, StartBrowserSignIn(b, i)
        PROVE  kv' \in [Id -> Value \cup {None}]
    BY <2>2, PutOne DEF StartBrowserSignIn
  <2>3. ASSUME NEW r \in Request, DeleteTaken(r)
        PROVE  kv' \in [Id -> Value \cup {None}]
    <3> DEFINE i == req[r].id
    <3>1. req[r] # Idle /\ i \in Id
      BY <2>3, Busy, Columns DEF DeleteTaken
    <3>2. kv[i] \in Value
      BY <3>1, Taken
    <3>3. Deleted(kv[i]) \in Value
      BY <3>2 DEF Deleted, Value, TypeOK
    <3> QED BY <2>3, <3>1, <3>3 DEF DeleteTaken, TypeOK
  <2>4. ASSUME NEW r \in Request, NEW i \in Id, Agree(r, i)
        PROVE  kv' \in [Id -> Value \cup {None}]
    <3>1. req[r] # Idle /\ req[r].browser \in Browser /\ req[r].id \in Id
      BY <2>4, Busy, Columns DEF Agree
    <3>2. PICK a : a = kv[req[r].id].app
      OBVIOUS
    <3>3. a \in App \cup {None}
      BY <3>1, <3>2, Taken
    <3> QED BY <2>4, <3>1, <3>2, <3>3, PutOne DEF Agree
  <2> QED BY <2>1, <2>2, <2>3, <2>4, PutsAndDeletes DEF vars
<1>2. codes' # codes => codes' \in [Code -> CodeRow \cup {None}]
  <2> SUFFICES ASSUME codes' # codes PROVE codes' \in [Code -> CodeRow \cup {None}]
    OBVIOUS
  <2>1. ASSUME NEW p \in Person, NEW i \in Id, NEW c \in Code, SignAtProvider(p, i, c)
        PROVE  codes' \in [Code -> CodeRow \cup {None}]
    BY <2>1 DEF SignAtProvider, TypeOK, CodeRow
  <2>2. ASSUME NEW r \in Request, ExchangeCode(r)
        PROVE  codes' \in [Code -> CodeRow \cup {None}]
    <3>1. req[r] # Idle /\ req[r].code \in Code
      BY <2>2, Busy, Columns DEF ExchangeCode
    <3>2. codes[req[r].code] \in CodeRow
      BY <2>2, <3>1 DEF ExchangeCode, Exchangeable, TypeOK
    <3>3. [codes[req[r].code] EXCEPT !.used = TRUE] \in CodeRow
      BY <3>2 DEF CodeRow
    <3> QED BY <2>2, <3>1, <3>3 DEF ExchangeCode, TypeOK
  <2> QED BY <2>1, <2>2, CodeSteps DEF vars
<1>3. spent' # spent => spent' \in [Id -> Nat]
  BY SpentSteps DEF DeleteTaken, TypeOK, vars, history
<1>4. clock' # clock => clock' \in Nat \ {0}
  BY ClockSteps DEF Tick, TypeOK, vars
<1> QED BY <1>1, <1>2, <1>3, <1>4 DEF TypeOK

\* A step of a request changes its own record only.
LEMMA RequestSteps ==
  ASSUME [Next]_vars
  PROVE  req' = req \/ \E r \in Request : Work(r)
BY DEF Next, vars, Browse, ServePage, SkipConsent, ShowConsent, StartBrowserSignIn,
       SignAtProvider, Tick

\* The session a request makes is for the person its code stands for.
LEMMA SessionMade ==
  ASSUME TypeOK, StoreOK, RequestsOK, NEW r \in Request, VerifyToken(r)
  PROVE  /\ req[r] # Idle /\ req[r].code \in Code
         /\ codes[req[r].code] \in CodeRow
         /\ NewSession(codes[req[r].code].who) \in Session
<1>1. req[r] # Idle
  BY Busy DEF VerifyToken
<1>2. req[r].code \in Code /\ codes[req[r].code] # None
  BY <1>1, Taken, Columns, SignInConstants DEF VerifyToken, RequestOK, Exchanged
<1>3. codes[req[r].code] \in CodeRow
  BY <1>2 DEF TypeOK
<1> QED BY <1>1, <1>2, <1>3, SignInConstants DEF NewSession, Session, CodeRow, TypeOK

\* The requests' records.
LEMMA RecordsStep ==
  ASSUME TypeOK, StoreOK, RequestsOK, [Next]_vars
  PROVE  req' \in [Request -> InProgress \cup {Idle}]
<1>1. req \in [Request -> InProgress \cup {Idle}]
  BY SMTT(30) DEF TypeOK
<1>2. ASSUME NEW r \in Request, Work(r)
      PROVE  \E q \in InProgress \cup {Idle} : req' = [req EXCEPT ![r] = q]
  <2>1. ASSUME NEW b \in Browser, NEW i \in Id, NEW answer \in Answer,
               SubmitForm(r, b, i, answer)
        PROVE  \E q \in InProgress : req' = [req EXCEPT ![r] = q]
    <3>1. jar[b].approved \in Seq(App)
      BY DEF TypeOK
    <3>2. Took(b, i, jar[b].approved, answer, None) \in InProgress
      BY <3>1 DEF Took, InProgress, Stage
    <3> QED BY <2>1, <3>2 DEF SubmitForm
  <2>2. ASSUME NEW b \in Browser, NEW i \in Id, NEW c \in Code \cup {None},
               ReturnFromProvider(r, b, i, c)
        PROVE  \E q \in InProgress : req' = [req EXCEPT ![r] = q]
    <3>1. << >> \in Seq(App)
      OBVIOUS
    <3>2. Took(b, i, << >>, None, c) \in InProgress
      BY <3>1 DEF Took, InProgress, Stage
    <3> QED BY <2>2, <3>2 DEF ReturnFromProvider
  <2>3. ASSUME DeleteTaken(r)
        PROVE  \E q \in InProgress : req' = [req EXCEPT ![r] = q]
    <3>1. req[r] # Idle
      BY <2>3, Busy DEF DeleteTaken
    <3>2. req[r] \in InProgress /\ kv[req[r].id].kind \in Stage
      BY <3>1, Columns, Taken DEF Value, Stage
    <3>3. [req[r] EXCEPT !.stage = kv[req[r].id].kind] \in InProgress
      BY <3>2 DEF InProgress
    <3> QED BY <2>3, <3>3 DEF DeleteTaken
  <2>4. ASSUME ExchangeCode(r)
        PROVE  \E q \in InProgress : req' = [req EXCEPT ![r] = q]
    <3>1. req[r] \in InProgress
      BY <2>4, Busy, Columns DEF ExchangeCode
    <3>2. [req[r] EXCEPT !.stage = "token"] \in InProgress
      BY <3>1 DEF InProgress, Stage
    <3> QED BY <2>4, <3>2 DEF ExchangeCode
  <2>5. ASSUME VerifyToken(r)
        PROVE  \E q \in InProgress : req' = [req EXCEPT ![r] = q]
    <3>1. PICK s : s = NewSession(codes[req[r].code].who)
      OBVIOUS
    <3>2. req[r] \in InProgress /\ s \in Session
      BY <2>5, <3>1, SessionMade, Columns
    <3>3. [req[r] EXCEPT !.stage = "verified", !.session = s] \in InProgress
      BY <3>2 DEF InProgress, Stage
    <3> QED BY <2>5, <3>1, <3>3 DEF VerifyToken
  <2> QED BY <1>2, <2>1, <2>2, <2>3, <2>4, <2>5
          DEF Work, Refuse, Agree, ReturnToPage, CompleteAuthorization, Fail
<1> QED BY <1>1, <1>2, RequestSteps

\* The browsers' cookies.
LEMMA JarStep ==
  ASSUME TypeOK, StoreOK, RequestsOK, [Next]_vars
  PROVE  jar' \in [Browser -> [approved: Seq(App), session: Session \cup {None}]]
<1> DEFINE Cookies == [approved: Seq(App), session: Session \cup {None}]
<1>1. jar \in [Browser -> Cookies]
  BY DEF TypeOK
<1>2. ASSUME NEW b \in Browser, NEW cookies \in Cookies, Receive(b, cookies)
      PROVE  jar' \in [Browser -> Cookies]
  BY <1>1, <1>2 DEF Receive
<1>3. ASSUME NEW r \in Request, NEW i \in Id, Agree(r, i)
      PROVE  jar' \in [Browser -> Cookies]
  <2>1. req[r] # Idle
    BY <1>3, Busy DEF Agree
  <2>2. PICK b \in Browser : b = req[r].browser
    BY <2>1, Columns, SMTT(30)
  <2>3. PICK a \in App : a = kv[req[r].id].app
    BY <1>3, <2>1, Taken DEF RequestOK, Agree
  <2>4. PICK list \in Seq(App) : list = Approve(req[r].cookie, a)
    BY <2>1, Columns, ApproveType
  <2>5. [jar[b] EXCEPT !.approved = list] \in Cookies
    BY <1>1, SMTT(30)
  <2>6. Receive(b, [jar[b] EXCEPT !.approved = list])
    BY <1>3, <2>2, <2>3, <2>4 DEF Agree
  <2> QED BY <1>2, <2>5, <2>6
<1>4. ASSUME NEW r \in Request, ReturnToPage(r) \/ CompleteAuthorization(r)
      PROVE  jar' \in [Browser -> Cookies]
  <2>1. req[r] # Idle
    BY <1>4, Busy DEF ReturnToPage, CompleteAuthorization
  <2>2. PICK b \in Browser : b = req[r].browser
    BY <2>1, Columns
  <2>3. [jar[b] EXCEPT !.session = req[r].session] \in Cookies
    BY <1>1, <2>1, Columns
  <2>4. Receive(b, [jar[b] EXCEPT !.session = req[r].session])
    BY <1>4, <2>2 DEF ReturnToPage, CompleteAuthorization
  <2> QED BY <1>2, <2>3, <2>4
<1> QED BY <1>1, <1>3, <1>4, CookieAnswers DEF vars

\* What is only recorded.
LEMMA HistoryStep ==
  ASSUME TypeOK, StoreOK, CookiesOK, RequestsOK, [Next]_vars
  PROVE  /\ agreed' \subseteq Browser \X App
         /\ grants' \subseteq [app: App, who: Person, code: Code]
         /\ logins' \subseteq Page
         /\ served' \in Page \cup {None}
<1>1. agreed' # agreed => agreed' \subseteq Browser \X App
  <2> SUFFICES ASSUME NEW r \in Request, NEW i \in Id, Agree(r, i)
               PROVE  agreed' \subseteq Browser \X App
    BY AgreedSteps DEF vars, history
  <2>1. req[r] # Idle
    BY Busy, SMTT(30) DEF Agree
  <2>2. req[r].browser \in Browser /\ kv[req[r].id].app \in App
    BY <2>1, Columns, Taken DEF RequestOK, Agree
  <2> QED BY <2>2 DEF Agree, TypeOK
<1>2. grants' # grants => grants' \subseteq [app: App, who: Person, code: Code]
  <2> SUFFICES ASSUME NEW r \in Request, CompleteAuthorization(r)
               PROVE  grants' \subseteq [app: App, who: Person, code: Code]
    BY GrantSteps DEF vars, history
  <2>1. req[r] # Idle
    BY Busy DEF CompleteAuthorization
  <2>2. kv[req[r].id].app \in App
    BY <2>1, Taken DEF CompleteAuthorization
  <2>3. req[r].code \in Code /\ req[r].session \in Session
    BY <2>1, Taken, Columns DEF RequestOK, Exchanged, CompleteAuthorization
  <2>4. [app |-> kv[req[r].id].app, who |-> req[r].session.who, code |-> req[r].code]
          \in [app: App, who: Person, code: Code]
    BY <2>2, <2>3 DEF Session
  <2> QED BY <2>4 DEF CompleteAuthorization, TypeOK
<1>3. logins' # logins => logins' \subseteq Page
  <2> SUFFICES ASSUME NEW r \in Request, VerifyToken(r)
               PROVE  logins' \subseteq Page
    BY LoginSteps DEF vars, history
  <2>1. req[r].browser \in Browser /\ codes[req[r].code].who \in Person
    BY SessionMade, Columns DEF CodeRow
  <2>2. [browser |-> req[r].browser, who |-> codes[req[r].code].who, at |-> clock] \in Page
    BY <2>1 DEF Page, TypeOK
  <2> QED BY <2>2 DEF VerifyToken, TypeOK
<1>4. served' \in Page \cup {None}
  <2>1. ASSUME NEW b \in Browser, ServePage(b)
        PROVE  served' \in Page
    <3>1. jar[b].session \in Session
      BY <2>1 DEF ServePage, LiveSession, TypeOK
    <3> QED BY <2>1, <3>1 DEF ServePage, Page, Session, TypeOK
  <2> QED BY <2>1, ServedSteps DEF vars, TypeOK
<1> QED BY <1>1, <1>2, <1>3, <1>4 DEF TypeOK

LEMMA TypeStep ==
  ASSUME TypeOK, StoreOK, CookiesOK, RequestsOK, [Next]_vars
  PROVE  TypeOK'
BY TablesStep, RecordsStep, JarStep, HistoryStep DEF TypeOK

\* What is kept in the store was agreed to in the browser that had it put.
LEMMA StoreStep ==
  ASSUME TypeOK, StoreOK, CookiesOK, RequestsOK, [Next]_vars
  PROVE  StoreOK'
<1> DEFINE Row(i) ==
      /\ kv[i] = None => spent[i] = 0
      /\ kv[i] # None =>
           /\ kv[i].kind = "consent" => kv[i].app \in App
           /\ kv[i].kind = "upstream" => kv[i].app \in Agreed(kv[i].browser) \cup {None}
           /\ kv[i].deleted = spent[i]
<1> SUFFICES ASSUME NEW i \in Id PROVE Row(i)'
  BY DEF StoreOK
<1>0. Row(i)
  BY DEF StoreOK
<1>1. \A b : Agreed(b) \subseteq Agreed(b)'
  BY Kept DEF Agreed
<1>2. CASE kv'[i] = kv[i] /\ spent'[i] = spent[i]
  BY <1>0, <1>1, <1>2
<1>3. ASSUME NEW j \in Id, NEW kind \in {"consent", "upstream"},
             NEW a \in App \cup {None}, NEW b \in Browser, Put(j, kind, a, b),
             spent' = spent,
             kind = "consent" => a \in App,
             kind = "upstream" => a \in Agreed(b)' \cup {None}
      PROVE  Row(i)'
  <2>1. CASE i # j
    BY <1>2, <1>3, <2>1, PutOne
  <2>2. CASE i = j
    <3>1. kv[i] = None /\ kv'[i] = [kind |-> kind, app |-> a, browser |-> b, deleted |-> 0]
          /\ kv'[i] \in Value
      BY <1>3, <2>2, PutOne
    <3>2. spent'[i] = 0
      BY <1>0, <1>3, <3>1
    <3> QED BY <1>3, <3>1, <3>2, SignInConstants
  <2> QED BY <2>1, <2>2
<1>4. ASSUME NEW b \in Browser, NEW j \in Id, NEW a \in App,
             SkipConsent(b, a, j) \/ ShowConsent(b, a, j)
      PROVE  Row(i)'
  <2>1. spent' = spent /\ agreed' = agreed
    BY <1>4 DEF SkipConsent, ShowConsent, history
  <2>2. SkipConsent(b, a, j) => a \in Agreed(b)
    BY DEF SkipConsent, CookiesOK
  <2> QED BY <1>1, <1>3, <1>4, <2>1, <2>2 DEF SkipConsent, ShowConsent
<1>5. ASSUME NEW b \in Browser, NEW j \in Id, StartBrowserSignIn(b, j)
      PROVE  Row(i)'
  <2>1. spent' = spent
    BY <1>5 DEF StartBrowserSignIn, history
  <2> QED BY <1>3, <1>5, <2>1, SMTT(30) DEF StartBrowserSignIn
<1>6. ASSUME NEW r \in Request, NEW j \in Id, Agree(r, j)
      PROVE  Row(i)'
  <2>1. req[r] # Idle
    BY <1>6, Busy DEF Agree
  <2>2. PICK b \in Browser : b = req[r].browser
    BY <2>1, Columns, SMTT(30)
  <2>3. PICK a \in App : a = kv[req[r].id].app
    BY <1>6, <2>1, Taken, SMTT(30) DEF RequestOK, Agree
  <2>4. req[r].answer = "approve"
    BY <1>6, <2>1, Taken DEF RequestOK, Agree, TokenMatches, Answer
  <2>5. a \in Agreed(b)'
    BY <1>6, <2>2, <2>3, <2>4 DEF Agree, Agreed
  <2> QED BY <1>3, <1>6, <2>2, <2>3, <2>5 DEF Agree
<1>7. ASSUME NEW r \in Request, DeleteTaken(r)
      PROVE  Row(i)'
  <2>1. req[r] # Idle
    BY <1>7, Busy DEF DeleteTaken
  <2>2. PICK j \in Id : j = req[r].id
    BY <2>1, Columns
  <2>3. kv[j] \in Value
    BY <2>1, <2>2, Taken
  <2>4. CASE i # j
    BY <1>2, <1>7, <2>2, <2>4 DEF DeleteTaken, TypeOK
  <2>5. CASE i = j
    <3>1. /\ kv'[i] = Deleted(kv[i])
          /\ spent'[i] = IF spent[i] = 0 THEN clock ELSE spent[i]
          /\ agreed' = agreed
      BY <1>7, <2>2, <2>5 DEF DeleteTaken, TypeOK
    <3>2. kv[i] # None
      BY <2>3, <2>5, SignInConstants
    <3>3. clock \in Nat \ {0}
      BY DEF TypeOK
    <3>4. Deleted(kv[i]) \in Value
      BY <2>3, <2>5, <3>3 DEF Deleted, Value
    <3>5. Deleted(kv[i]) # None
      BY <3>4, SignInConstants
    <3>6. /\ Deleted(kv[i]).kind = kv[i].kind /\ Deleted(kv[i]).app = kv[i].app
          /\ Deleted(kv[i]).browser = kv[i].browser
          /\ Deleted(kv[i]).deleted = IF kv[i].deleted = 0 THEN clock ELSE kv[i].deleted
      BY <2>3, <2>5 DEF Deleted, Value
    <3> QED BY <1>0, <1>1, <3>1, <3>2, <3>5, <3>6
  <2> QED BY <2>4, <2>5
<1>8. CASE kv' = kv /\ spent' = spent
  BY <1>2, <1>8
<1>9. kv' # kv \/ spent' # spent => Next
  BY DEF vars, history
<1> QED BY <1>4, <1>5, <1>6, <1>7, <1>8, <1>9, PutsAndDeletes, SpentSteps

\* A browser's cookies say what it agreed to and how it signed in.
LEMMA CookiesStep ==
  ASSUME TypeOK, StoreOK, CookiesOK, RequestsOK, [Next]_vars
  PROVE  CookiesOK'
<1> DEFINE AgreedNow(b) == {a \in App : <<b, a>> \in agreed'}
           LoggedIn(b, s) == \E l \in logins' :
             l.browser = b /\ l.who = s.who /\ s.ends = l.at + SessionLife
           Fine(b, cookies) ==
             /\ Apps(cookies.approved) \subseteq AgreedNow(b)
             /\ Len(cookies.approved) <= MaxApproved
             /\ cookies.session # None => LoggedIn(b, cookies.session)
<1>0. agreed \subseteq agreed' /\ logins \subseteq logins'
  BY Kept
<1>1. \A b \in Browser : Fine(b, jar[b])
  BY <1>0 DEF CookiesOK, Agreed, FromLogin
<1>2. ASSUME NEW b \in Browser, NEW cookies, Receive(b, cookies), Fine(b, cookies)
      PROVE  \A q \in Browser : Fine(q, jar'[q])
  <2> HIDE DEF Fine
  <2> QED BY <1>1, <1>2 DEF Receive, TypeOK
<1>3. ASSUME NEW r \in Request, NEW i \in Id, Agree(r, i)
      PROVE  \A q \in Browser : Fine(q, jar'[q])
  <2>1. req[r] # Idle
    BY <1>3, Busy DEF Agree
  <2>2. PICK b \in Browser : b = req[r].browser
    BY <2>1, Columns, SMTT(30)
  <2>3. PICK a \in App : a = kv[req[r].id].app
    BY <1>3, <2>1, Taken, SMTT(30) DEF RequestOK, Agree
  <2>4. req[r].answer = "approve"
    BY <1>3, <2>1, Taken DEF RequestOK, Agree, TokenMatches, Answer
  <2>5. a \in AgreedNow(b)
    BY <1>3, <2>2, <2>3, <2>4 DEF Agree
  <2>6. Apps(req[r].cookie) \subseteq AgreedNow(b)
    BY <1>0, <2>1, <2>2, Taken DEF RequestOK, Agreed
  <2>7. PICK list \in Seq(App) : list = Approve(req[r].cookie, a)
    BY <2>1, Columns, ApproveType
  <2>8. Apps(list) \subseteq AgreedNow(b) /\ Len(list) <= MaxApproved
    <3>1. PICK s \in Seq(App) : s = req[r].cookie
      BY <2>1, Columns
    <3>2. Apps(list) \subseteq Apps(s) \cup {a} /\ Len(list) <= MaxApproved
      BY <2>7, <3>1, ApproveType
    <3> QED BY <2>5, <2>6, <3>1, <3>2
  <2>9. Receive(b, [jar[b] EXCEPT !.approved = list])
    BY <1>3, <2>2, <2>3, <2>7 DEF Agree
  <2>10. jar[b] \in [approved: Seq(App), session: Session \cup {None}]
    BY DEF TypeOK
  <2>11. Fine(b, [jar[b] EXCEPT !.approved = list])
    BY <1>1, <2>8, <2>10
  <2> QED BY <1>2, <2>9, <2>11
<1>4. ASSUME NEW r \in Request, ReturnToPage(r) \/ CompleteAuthorization(r)
      PROVE  \A q \in Browser : Fine(q, jar'[q])
  <2>1. req[r] # Idle
    BY <1>4, Busy DEF ReturnToPage, CompleteAuthorization
  <2>2. PICK b \in Browser : b = req[r].browser
    BY <2>1, Columns
  <2>3. PICK s : s = req[r].session
    OBVIOUS
  <2>4. LoggedIn(b, s)
    BY <1>0, <1>4, <2>1, <2>2, <2>3, Taken
       DEF RequestOK, FromLogin, ReturnToPage, CompleteAuthorization
  <2>5. Receive(b, [jar[b] EXCEPT !.session = s])
    BY <1>4, <2>2, <2>3 DEF ReturnToPage, CompleteAuthorization
  <2>6. jar[b] \in [approved: Seq(App), session: Session \cup {None}]
    BY DEF TypeOK
  <2>7. Fine(b, [jar[b] EXCEPT !.session = s])
    BY <1>1, <2>4, <2>6
  <2> QED BY <1>2, <2>5, <2>7
<1>5. \A q \in Browser : Fine(q, jar'[q])
  BY <1>1, <1>3, <1>4, CookieAnswers DEF vars
<1> QED BY <1>5 DEF CookiesOK, Agreed, FromLogin

\* A request that stays as it is remains right.
LEMMA RequestKept ==
  ASSUME TypeOK, StoreOK, RequestsOK, [Next]_vars, NEW r \in Request,
         req[r] # Idle, req'[r] = req[r]
  PROVE  RequestOK(r)'
<1>1. RequestOK(r)
  BY Taken
<1>2. req[r].id \in Id /\ req[r].code \in Code \cup {None}
  BY Columns
<1>3. PICK q : q = req[r]
  OBVIOUS
<1>4. \A c \in Code : codes[c] # None =>
        /\ codes'[c] # None
        /\ codes'[c].who = codes[c].who
        /\ codes[c].used => codes'[c].used
  BY Kept
<1>5. /\ kv'[q.id] # None
      /\ kv'[q.id].kind = kv[q.id].kind
  BY <1>1, <1>2, <1>3, Kept DEF RequestOK
<1>6. agreed \subseteq agreed' /\ logins \subseteq logins'
  BY Kept
<1> QED BY <1>1, <1>2, <1>3, <1>4, <1>5, <1>6
           DEF RequestOK, Agreed, FromLogin, Exchanged

\* What each request has read so far agrees with where it came from.
LEMMA RequestsStep ==
  ASSUME TypeOK, StoreOK, CookiesOK, RequestsOK, [Next]_vars
  PROVE  RequestsOK'
<1> SUFFICES ASSUME NEW q \in Request, Work(q), req'[q] # req[q], req'[q] # Idle
             PROVE  RequestOK(q)'
  BY RequestKept, OwnSteps DEF RequestsOK, vars
<1>1. ASSUME NEW b \in Browser, NEW i \in Id, NEW answer \in Answer,
             SubmitForm(q, b, i, answer)
      PROVE  RequestOK(q)'
  <2>1. req'[q] = Took(b, i, jar[b].approved, answer, None)
    BY <1>1 DEF SubmitForm, TypeOK
  <2>2. /\ kv' = kv /\ agreed' = agreed
        /\ kv[i] # None /\ kv[i].kind = "consent"
    BY <1>1 DEF SubmitForm, history, Readable
  <2>3. Apps(jar[b].approved) \subseteq Agreed(b)
    BY DEF CookiesOK
  <2> QED BY <2>1, <2>2, <2>3 DEF RequestOK, Took, Exchanged, Agreed
<1>2. ASSUME NEW b \in Browser, NEW i \in Id, NEW c \in Code \cup {None},
             ReturnFromProvider(q, b, i, c)
      PROVE  RequestOK(q)'
  <2>1. req'[q] = Took(b, i, << >>, None, c)
    BY <1>2 DEF ReturnFromProvider, TypeOK
  <2>2. /\ kv' = kv /\ codes' = codes
        /\ kv[i] # None /\ kv[i].kind = "upstream"
        /\ c # None => codes[c] # None
    BY <1>2 DEF ReturnFromProvider, Readable
  <2>3. Apps(<< >>) = {}
    BY DEF Apps
  <2> QED BY <2>1, <2>2, <2>3 DEF RequestOK, Took, Exchanged
<1>3. ASSUME DeleteTaken(q)
      PROVE  RequestOK(q)'
  <2>1. req[q] # Idle
    BY <1>3, Busy DEF DeleteTaken
  <2>2. RequestOK(q) /\ req[q] \in InProgress /\ req[q].id \in Id
    BY <2>1, Taken, Columns
  <2>3. PICK kind : kind = kv[req[q].id].kind
    OBVIOUS
  <2>4. kind \in {"consent", "upstream"}
    BY <2>1, <2>3, Taken DEF Value
  <2>5. PICK new : new = req'[q]
    OBVIOUS
  <2>6. /\ new.stage = kind /\ new.id = req[q].id /\ new.browser = req[q].browser
        /\ new.cookie = req[q].cookie /\ new.answer = req[q].answer
        /\ new.code = req[q].code
    BY <1>3, <2>2, <2>3, <2>5 DEF DeleteTaken, TypeOK, InProgress
  <2>7. codes' = codes /\ agreed' = agreed
    BY <1>3 DEF DeleteTaken
  <2>8. /\ kv'[req[q].id] # None
        /\ kv'[req[q].id].kind = kind
    BY <2>2, <2>3, Kept DEF RequestOK
  <2> QED BY <2>2, <2>3, <2>4, <2>5, <2>6, <2>7, <2>8 DEF RequestOK, Exchanged, Agreed
<1>4. ASSUME ExchangeCode(q)
      PROVE  RequestOK(q)'
  <2>1. req[q] # Idle
    BY <1>4, Busy DEF ExchangeCode
  <2>2. RequestOK(q) /\ req[q] \in InProgress /\ req[q].id \in Id
    BY <2>1, Taken, Columns
  <2>3. PICK new : new = req'[q]
    OBVIOUS
  <2>4. /\ new.stage = "token" /\ new.id = req[q].id /\ new.browser = req[q].browser
        /\ new.cookie = req[q].cookie /\ new.answer = req[q].answer
        /\ new.code = req[q].code
    BY <1>4, <2>2, <2>3 DEF ExchangeCode, TypeOK, InProgress
  <2>5. kv' = kv /\ agreed' = agreed /\ req[q].stage = "upstream"
    BY <1>4 DEF ExchangeCode, history
  <2>6. PICK c \in Code : c = req[q].code
    BY <1>4, <2>1, Columns DEF ExchangeCode
  <2>7. codes[c] \in CodeRow
    BY <1>4, <2>6 DEF ExchangeCode, Exchangeable, TypeOK
  <2>8. codes'[c] = [codes[c] EXCEPT !.used = TRUE]
    BY <1>4, <2>6 DEF ExchangeCode, TypeOK
  <2>9. codes'[c] \in CodeRow /\ codes'[c].used
    BY <2>7, <2>8 DEF CodeRow
  <2>10. codes'[c] # None /\ c # None
    BY <2>9, SignInConstants
  <2> QED BY <2>2, <2>3, <2>4, <2>5, <2>6, <2>9, <2>10 DEF RequestOK, Exchanged, Agreed
<1>5. ASSUME VerifyToken(q)
      PROVE  RequestOK(q)'
  <2>1. req[q] # Idle /\ req[q].code \in Code
    BY <1>5, SessionMade
  <2>2. RequestOK(q) /\ req[q] \in InProgress /\ req[q].id \in Id
    BY <2>1, Taken, Columns
  <2>3. PICK new : new = req'[q]
    OBVIOUS
  <2>4. PICK s \in Session : s = NewSession(codes[req[q].code].who)
    BY <1>5, SessionMade
  <2>5. /\ new.stage = "verified" /\ new.id = req[q].id /\ new.browser = req[q].browser
        /\ new.cookie = req[q].cookie /\ new.answer = req[q].answer
        /\ new.code = req[q].code /\ new.session = s
    BY <1>5, <2>2, <2>3, <2>4 DEF VerifyToken, TypeOK, InProgress
  <2>6. kv' = kv /\ agreed' = agreed /\ codes' = codes /\ req[q].stage = "token"
    BY <1>5 DEF VerifyToken
  <2>7. s.who = codes[req[q].code].who /\ s.ends = clock + SessionLife
    BY <2>4 DEF NewSession
  <2> PICK b : b = req[q].browser
    OBVIOUS
  <2>8. FromLogin(b, s)'
    <3>1. PICK l : l = [browser |-> req[q].browser, who |-> codes[req[q].code].who,
                        at |-> clock]
      OBVIOUS
    <3>2. l \in logins'
      BY <1>5, <3>1 DEF VerifyToken
    <3> QED BY <2>5, <2>7, <3>1, <3>2 DEF FromLogin
  <2>9. s # None
    BY <2>4, SignInConstants
  <2> QED BY <2>2, <2>3, <2>5, <2>6, <2>7, <2>8, <2>9 DEF RequestOK, Exchanged, Agreed, FromLogin
<1>6. ASSUME Refuse(q) \/ (\E i \in Id : Agree(q, i)) \/ ReturnToPage(q)
               \/ CompleteAuthorization(q) \/ Fail(q)
      PROVE  FALSE
  BY <1>6 DEF Refuse, Agree, ReturnToPage, CompleteAuthorization, Fail, TypeOK
<1> QED BY <1>1, <1>2, <1>3, <1>4, <1>5, <1>6 DEF Work

\* Grants rest on codes that were issued, to the same person, and exchanged.
LEMMA GrantsStep ==
  ASSUME TypeOK, StoreOK, RequestsOK, GrantsOK, [Next]_vars
  PROVE  GrantsOK'
<1> DEFINE Backed(g) == /\ codes[g.code] # None
                        /\ codes[g.code].used
                        /\ codes[g.code].who = g.who
<1>1. ASSUME NEW g \in [app: App, who: Person, code: Code], Backed(g)
      PROVE  Backed(g)'
  BY <1>1, Kept
<1>2. \A g \in grants : g \in [app: App, who: Person, code: Code] /\ Backed(g)
  BY DEF GrantsOK, TypeOK
<1>3. ASSUME NEW r \in Request, CompleteAuthorization(r)
      PROVE  \A g \in grants' : Backed(g)'
  <2>1. req[r] # Idle
    BY <1>3, Busy DEF CompleteAuthorization
  <2>2. /\ req[r].code \in Code
        /\ req[r].session \in Session
        /\ kv[req[r].id].app \in App
        /\ codes[req[r].code] # None /\ codes[req[r].code].used
        /\ req[r].session.who = codes[req[r].code].who
    BY <1>3, <2>1, Columns, Taken DEF RequestOK, Exchanged, CompleteAuthorization
  <2>3. PICK new : new = [app |-> kv[req[r].id].app, who |-> req[r].session.who,
                          code |-> req[r].code]
    OBVIOUS
  <2>4. new \in [app: App, who: Person, code: Code] /\ Backed(new)
    BY <2>2, <2>3 DEF Session
  <2>5. grants' = grants \cup {new}
    BY <1>3, <2>3 DEF CompleteAuthorization
  <2> QED BY <1>1, <1>2, <2>4, <2>5
<1>4. CASE grants' = grants
  BY <1>1, <1>2, <1>4 DEF GrantsOK
<1>5. CASE grants' # grants
  BY <1>3, <1>5, GrantSteps DEF GrantsOK, vars, history
<1> QED BY <1>4, <1>5

\* A code is exchanged once: by one request, before one grant.
LEMMA OneUseStep ==
  ASSUME TypeOK, StoreOK, RequestsOK, GrantsOK, OneUsePerSignIn, [Next]_vars
  PROVE  OneUsePerSignIn'
<1> DEFINE Using(r, c) == Exchanged(r) /\ req[r].code = c
<1>1. ASSUME NEW r \in Request, ExchangeCode(r)
      PROVE  OneUsePerSignIn'
  <2>1. req[r] # Idle /\ req[r].code \in Code
    BY <1>1, Busy, Columns DEF ExchangeCode
  <2>2. ~codes[req[r].code].used
    BY <1>1 DEF ExchangeCode, Exchangeable
  <2>3. \A q \in Request : Exchanged(q) => req[q].code # req[r].code
    BY <2>2, Busy, Taken DEF RequestOK, Exchanged
  <2>4. \A g \in grants : g.code # req[r].code
    BY <2>2 DEF GrantsOK
  <2>5. req[r] \in InProgress
    BY <2>1, Columns
  <2>6. req'[r].code = req[r].code /\ grants' = grants
    BY <1>1, <2>5 DEF ExchangeCode, InProgress, TypeOK, history
  <2>7. \A q \in Request : q # r => req'[q] = req[q]
    BY <1>1 DEF ExchangeCode, TypeOK
  <2> QED BY <2>3, <2>4, <2>6, <2>7 DEF OneUsePerSignIn, Exchanged
<1>2. ASSUME NEW r \in Request, CompleteAuthorization(r)
      PROVE  OneUsePerSignIn'
  <2>1. Exchanged(r)
    BY <1>2 DEF CompleteAuthorization, Exchanged
  <2>2. PICK new : new = [app |-> kv[req[r].id].app, who |-> req[r].session.who,
                          code |-> req[r].code]
    OBVIOUS
  <2>3. grants' = grants \cup {new} /\ new.code = req[r].code
    BY <1>2, <2>2 DEF CompleteAuthorization
  <2>4. req'[r] = Idle /\ \A q \in Request : q # r => req'[q] = req[q]
    BY <1>2 DEF CompleteAuthorization, TypeOK
  <2>5. ~Exchanged(r)'
    BY <2>4 DEF Exchanged, Idle
  <2>6. \A q \in Request : Exchanged(q)' => q # r /\ Exchanged(q) /\ req'[q] = req[q]
    BY <2>4, <2>5 DEF Exchanged
  <2>7. \A g \in grants : g.code # new.code
    BY <2>1, <2>3 DEF OneUsePerSignIn
  <2>8. \A q \in Request : Exchanged(q)' => req'[q].code # new.code
    BY <2>1, <2>3, <2>6 DEF OneUsePerSignIn
  <2>9. \A g, h \in grants' : g.code = h.code => g = h
    BY <2>3, <2>7 DEF OneUsePerSignIn
  <2>10. \A q, p \in Request :
           Exchanged(q)' /\ Exchanged(p)' /\ req'[q].code = req'[p].code => q = p
    BY <2>6 DEF OneUsePerSignIn
  <2>11. \A g \in grants', q \in Request : Exchanged(q)' => req'[q].code # g.code
    BY <2>3, <2>6, <2>8 DEF OneUsePerSignIn
  <2> QED BY <2>9, <2>10, <2>11 DEF OneUsePerSignIn
<1>3. ASSUME \A r \in Request : ~ExchangeCode(r) /\ ~CompleteAuthorization(r)
      PROVE  OneUsePerSignIn'
  <2>1. grants' = grants
    BY <1>3, GrantSteps DEF vars, history
  <2>2. \A q \in Request : Exchanged(q)' => Exchanged(q) /\ req'[q].code = req[q].code
    <3> SUFFICES ASSUME NEW q \in Request, req'[q] # req[q], Exchanged(q)'
                 PROVE  Exchanged(q) /\ req'[q].code = req[q].code
      BY DEF Exchanged
    <3>1. Work(q)
      BY OwnSteps DEF vars
    <3>2. VerifyToken(q)
      <4>1. ASSUME NEW b \in Browser, NEW i \in Id, NEW answer \in Answer,
                   SubmitForm(q, b, i, answer)
            PROVE  FALSE
        BY <4>1 DEF SubmitForm, Took, TypeOK, Exchanged
      <4>2. ASSUME NEW b \in Browser, NEW i \in Id, NEW c \in Code \cup {None},
                   ReturnFromProvider(q, b, i, c)
            PROVE  FALSE
        BY <4>2 DEF ReturnFromProvider, Took, TypeOK, Exchanged
      <4>3. ASSUME DeleteTaken(q)
            PROVE  FALSE
        <5>1. req[q] # Idle
          BY <4>3, Busy DEF DeleteTaken
        <5>2. req[q] \in InProgress /\ kv[req[q].id].kind \in {"consent", "upstream"}
          BY <5>1, Columns, Taken, SMTT(30) DEF Value
        <5> QED BY <4>3, <5>2 DEF DeleteTaken, TypeOK, InProgress, Exchanged
      <4>4. ASSUME Refuse(q) \/ (\E i \in Id : Agree(q, i)) \/ ReturnToPage(q)
                     \/ CompleteAuthorization(q) \/ Fail(q)
            PROVE  FALSE
        BY <4>4 DEF Refuse, Agree, ReturnToPage, CompleteAuthorization, Fail, TypeOK,
                    Exchanged, Idle
      <4> QED BY <1>3, <3>1, <4>1, <4>2, <4>3, <4>4 DEF Work
    <3>3. req[q] \in InProgress
      BY <3>2, SessionMade, Columns
    <3> QED BY <3>2, <3>3 DEF VerifyToken, Exchanged, TypeOK, InProgress
  <2> QED BY <2>1, <2>2 DEF OneUsePerSignIn
<1> QED BY <1>1, <1>2, <1>3

\* A page is served with a session that lasts, and so with a login.
LEMMA ServedStep ==
  ASSUME TypeOK, CookiesOK, ServedAsSignedIn, [Next]_vars
  PROVE  ServedAsSignedIn'
<1>1. logins \subseteq logins'
  BY Kept
<1>2. ASSUME NEW b \in Browser, ServePage(b)
      PROVE  ServedAsSignedIn'
  <2>1. PICK s : s = jar[b].session
    OBVIOUS
  <2>2. s \in Session /\ s.ends > clock
    BY <1>2, <2>1 DEF ServePage, LiveSession, TypeOK
  <2>3. PICK l \in logins : l.browser = b /\ l.who = s.who /\ s.ends = l.at + SessionLife
    BY <1>2, <2>1 DEF CookiesOK, FromLogin, ServePage, LiveSession
  <2>4. served' = [browser |-> b, who |-> s.who, at |-> clock]
    BY <1>2, <2>1 DEF ServePage
  <2> QED BY <1>1, <2>2, <2>3, <2>4 DEF ServedAsSignedIn
<1>3. CASE served' = None
  BY <1>3 DEF ServedAsSignedIn
<1>4. CASE UNCHANGED vars
  BY <1>4 DEF ServedAsSignedIn, vars, history
<1> QED BY <1>2, <1>3, <1>4, ServedSteps

-----------------------------------------------------------------------------
(* The theorems *)

LEMMA InvInit == Init => SignInInv
<1> SUFFICES ASSUME Init PROVE SignInInv
  OBVIOUS
<1>1. TypeOK
  BY TypeInit
<1>2. StoreOK
  BY DEF Init, StoreOK
<1>3. CookiesOK
  <2>1. MaxApproved >= 0
    BY SignInConstants
  <2> SUFFICES ASSUME Init, NEW b \in Browser
               PROVE  /\ Apps(jar[b].approved) \subseteq Agreed(b)
                      /\ Len(jar[b].approved) <= MaxApproved
                      /\ jar[b].session = None
    BY DEF CookiesOK
  <2>2. jar[b].approved = << >> /\ jar[b].session = None
    BY DEF Init, NoCookies
  <2> QED BY <2>1, <2>2 DEF Apps
<1>4. RequestsOK /\ GrantsOK /\ ServedAsSignedIn
  BY DEF Init, RequestsOK, GrantsOK, ServedAsSignedIn
<1>5. OneUsePerSignIn
  BY DEF Init, OneUsePerSignIn, Exchanged, Idle
<1> QED BY <1>1, <1>2, <1>3, <1>4, <1>5 DEF SignInInv

LEMMA InvStep == SignInInv /\ [Next]_vars => SignInInv'
BY TypeStep, StoreStep, CookiesStep, RequestsStep, GrantsStep, OneUseStep, ServedStep
   DEF SignInInv

\* Whatever a request has read from the store agrees with the provider's codes
\* and the browser's history, in every reachable state.
THEOREM SignInInvariance == Spec => []SignInInv
BY InvInit, InvStep, PTL DEF Spec

\* A code leads to one grant, and only one request ever exchanges it.
THEOREM CodesUsedOnce == Spec => []OneUsePerSignIn
<1>1. SignInInv => OneUsePerSignIn
  BY DEF SignInInv
<1> QED BY <1>1, SignInInvariance, PTL

\* Pages are served as whoever signed in through that browser, within the
\* session's life.
THEOREM PagesServedRight == Spec => []ServedAsSignedIn
<1>1. SignInInv => ServedAsSignedIn
  BY DEF SignInInv
<1> QED BY <1>1, SignInInvariance, PTL

\* Lag after a request's delete returned, no other takes the value.
THEOREM NoLateReuseEver == Spec => SpentStaysSpent
<1>1. SignInInv /\ [Next]_vars => NoLateReuse
  <2> SUFFICES ASSUME SignInInv, Next, NEW r \in Request,
                      req[r] = Idle, req'[r] # Idle, spent[req'[r].id] # 0
               PROVE  clock < spent[req'[r].id] + Lag
    BY DEF NoLateReuse, vars
  <2>1. Work(r)
    BY OwnSteps DEF SignInInv
  <2>2. \/ \E b \in Browser, i \in Id, answer \in Answer : SubmitForm(r, b, i, answer)
        \/ \E b \in Browser, i \in Id, c \in Code \cup {None} : ReturnFromProvider(r, b, i, c)
    BY <2>1 DEF Work, DeleteTaken, Refuse, Agree, ExchangeCode, VerifyToken,
                ReturnToPage, CompleteAuthorization, Fail, Idle
  <2>3. PICK i \in Id : /\ Readable(i, "consent") \/ Readable(i, "upstream")
                        /\ req'[r].id = i
    BY <2>2 DEF SubmitForm, ReturnFromProvider, SignInInv, TypeOK, Took
  <2>4. kv[i] # None /\ kv[i].deleted = spent[i]
    BY <2>3 DEF Readable, SignInInv, StoreOK
  <2> QED BY <2>3, <2>4 DEF Readable
<1> QED BY <1>1, SignInInvariance, PTL DEF Spec, SpentStaysSpent

-----------------------------------------------------------------------------
(* The refinement *)

\* Consent pages are shown by ShowConsent, and stay on record.
LEMMA ShownStays ==
  ASSUME TypeOK, StoreOK, RequestsOK, Next,
         ~\E b \in Browser, i \in Id, a \in App : ShowConsent(b, a, i)
  PROVE  Shown' = Shown
<1> DEFINE Asked(i) == kv[i] # None /\ kv[i].kind = "consent"
<1>1. ASSUME NEW i \in Id
      PROVE  /\ Asked(i)' <=> Asked(i)
             /\ Asked(i) => kv'[i].browser = kv[i].browser /\ kv'[i].app = kv[i].app
  <2>1. CASE kv[i] # None
    BY <2>1, Kept
  <2>2. CASE kv[i] = None /\ kv'[i] # None
    <3>1. ASSUME NEW j \in Id, NEW a, NEW b, Put(j, "upstream", a, b)
          PROVE  kv'[i].kind = "upstream"
      BY <2>2, <3>1 DEF Put, TypeOK
    <3>2. ASSUME NEW b \in Browser, NEW j \in Id, NEW a \in App, SkipConsent(b, a, j)
          PROVE  kv'[i].kind = "upstream"
      BY <3>1, <3>2 DEF SkipConsent
    <3>3. ASSUME NEW b \in Browser, NEW j \in Id, StartBrowserSignIn(b, j)
          PROVE  kv'[i].kind = "upstream"
      BY <3>1, <3>3 DEF StartBrowserSignIn
    <3>4. ASSUME NEW r \in Request, NEW j \in Id, Agree(r, j)
          PROVE  kv'[i].kind = "upstream"
      BY <3>1, <3>4 DEF Agree
    <3>5. ASSUME NEW r \in Request, DeleteTaken(r)
          PROVE  kv'[i].kind = "upstream"
      <4>1. kv[req[r].id] # None
        BY <3>5, Busy, Taken DEF DeleteTaken, RequestOK
      <4>2. req[r].id # i
        BY <2>2, <4>1
      <4> QED BY <2>2, <3>5, <4>2 DEF DeleteTaken, TypeOK
    <3>6. kv'[i].kind = "upstream"
      BY <2>2, <3>2, <3>3, <3>4, <3>5, PutsAndDeletes
    <3> QED BY <2>2, <3>6
  <2>3. CASE kv[i] = None /\ kv'[i] = None
    BY <2>3
  <2> QED BY <2>1, <2>2, <2>3
<1> QED BY <1>1 DEF Shown

\* Showing the consent screen is the promise's Show.
LEMMA MapsShow ==
  ASSUME SignInInv, NEW b \in Browser, NEW i \in Id, NEW a \in App,
         ShowConsent(b, a, i)
  PROVE  Promise!Show(b, a)
<1>1. TypeOK
  BY DEF SignInInv
<1>2. /\ kv[i] = None
      /\ kv'[i] = [kind |-> "consent", app |-> a, browser |-> b, deleted |-> 0]
      /\ kv'[i] \in Value
      /\ \A j \in Id : j # i => kv'[j] = kv[j]
  BY <1>1, PutOne DEF ShowConsent
<1>3. kv'[i] # None
  BY <1>2, SignInConstants
<1>4. Shown' = Shown \cup {<<b, a>>}
  BY <1>2, <1>3 DEF Shown
<1>5. Vouched' = Vouched /\ Used' = Used /\ grants' = grants /\ agreed' = agreed
  BY DEF ShowConsent, Vouched, Used, history
<1> QED BY <1>4, <1>5 DEF Promise!Show

\* Issuing a code is the promise's Vouch.
LEMMA MapsVouch ==
  ASSUME SignInInv, NEW p \in Person, NEW i \in Id, NEW c \in Code,
         SignAtProvider(p, i, c)
  PROVE  Promise!Vouch(c, p)
<1>1. codes[c] = None /\ TypeOK
  BY DEF SignAtProvider, SignInInv
<1>2. PICK row : row = [who |-> p, id |-> i, used |-> FALSE]
  OBVIOUS
<1>3. codes' = [codes EXCEPT ![c] = row] /\ row \in CodeRow
  BY <1>2 DEF SignAtProvider, CodeRow
<1>4. /\ codes'[c] = row
      /\ \A d \in Code : d # c => codes'[d] = codes[d]
      /\ row # None /\ row.who = p /\ ~row.used
  BY <1>1, <1>2, <1>3, SignInConstants DEF TypeOK
<1>5. \A q \in Person : <<c, q>> \notin Vouched
  BY <1>1 DEF Vouched
<1>6. Vouched' = Vouched \cup {<<c, p>>}
  BY <1>1, <1>4 DEF Vouched
<1>7. Used' = Used
  BY <1>1, <1>4 DEF Used
<1>8. agreed' = agreed /\ grants' = grants /\ Shown' = Shown
  BY DEF SignAtProvider, history, Shown
<1> QED BY <1>5, <1>6, <1>7, <1>8 DEF Promise!Vouch

\* Exchanging a code is its Spend.
LEMMA MapsSpend ==
  ASSUME SignInInv, NEW r \in Request, ExchangeCode(r)
  PROVE  \E c \in Code : Promise!Spend(c)
<1>1. TypeOK /\ req[r] # Idle
  BY Busy DEF ExchangeCode, SignInInv
<1>2. PICK c \in Code : c = req[r].code
  BY <1>1, Columns DEF ExchangeCode
<1>3. codes[c] # None /\ ~codes[c].used /\ codes[c] \in CodeRow
  BY <1>1, <1>2 DEF ExchangeCode, Exchangeable, TypeOK
<1>4. PICK row : row = [codes[c] EXCEPT !.used = TRUE]
  OBVIOUS
<1>5. row \in CodeRow /\ row.who = codes[c].who /\ row.used
  BY <1>3, <1>4 DEF CodeRow
<1>6. codes'[c] = row /\ \A d \in Code : d # c => codes'[d] = codes[d]
  BY <1>1, <1>2, <1>4 DEF ExchangeCode, TypeOK
<1>7. row # None
  BY <1>5, SignInConstants
<1>8. Vouched' = Vouched
  BY <1>3, <1>5, <1>6, <1>7 DEF Vouched
<1>9. c \notin Used /\ Used' = Used \cup {c}
  BY <1>3, <1>5, <1>6, <1>7 DEF Used
<1>10. agreed' = agreed /\ grants' = grants /\ Shown' = Shown
  BY DEF ExchangeCode, history, Shown
<1> QED BY <1>8, <1>9, <1>10 DEF Promise!Spend

\* Completing an authorization is its Grant: the value the request took says
\* for which application, and that one was agreed to.
LEMMA MapsGrant ==
  ASSUME SignInInv, NEW r \in Request, CompleteAuthorization(r)
  PROVE  \E a \in App, p \in Person, c \in Code : Promise!Grant(a, p, c)
<1>1. /\ TypeOK /\ StoreOK /\ RequestsOK /\ OneUsePerSignIn
      /\ req[r] # Idle /\ req[r].stage = "verified"
  BY Busy DEF CompleteAuthorization, SignInInv
<1>2. PICK i \in Id : i = req[r].id
  BY <1>1, Columns
<1>3. PICK a \in App : a = kv[i].app
  BY <1>1, <1>2, Taken DEF CompleteAuthorization
<1>4. PICK c \in Code : c = req[r].code
  BY <1>1, Columns, Taken DEF RequestOK, Exchanged
<1>5. codes[c] # None /\ codes[c].used /\ codes[c] \in CodeRow
      /\ req[r].session.who = codes[c].who
  BY <1>1, <1>4, Taken DEF RequestOK, Exchanged, TypeOK
<1>6. PICK p \in Person : p = codes[c].who
  BY <1>5 DEF CodeRow
<1>7. kv[i] \in Value /\ kv[i].kind = "upstream"
  BY <1>1, <1>2, Taken DEF RequestOK, Value
<1>8. a \in Agreed(kv[i].browser) /\ kv[i].browser \in Browser
  BY <1>1, <1>3, <1>7, SignInConstants DEF StoreOK, Value
<1>9. \E b \in Browser : <<b, a>> \in agreed
  BY <1>8 DEF Agreed
<1>10. <<c, p>> \in Vouched /\ c \in Used
  BY <1>5, <1>6 DEF Vouched, Used
<1>11. \A g \in grants : g.code # c
  BY <1>1, <1>4 DEF OneUsePerSignIn, Exchanged
<1>12. grants' = grants \cup {[app |-> a, who |-> p, code |-> c]}
  BY <1>2, <1>3, <1>4, <1>5, <1>6 DEF CompleteAuthorization
<1>13. Vouched' = Vouched /\ Used' = Used /\ agreed' = agreed /\ Shown' = Shown
  BY DEF CompleteAuthorization, Vouched, Used, Shown
<1> QED BY <1>9, <1>10, <1>11, <1>12, <1>13 DEF Promise!Grant

\* An approval with the stored token is its Agree: the value the request took
\* is that of a consent page shown, in some browser, for the application.
LEMMA MapsAgree ==
  ASSUME SignInInv, NEW r \in Request, NEW i \in Id, Agree(r, i)
  PROVE  \E b \in Browser, a \in App : Promise!Agree(b, a)
<1>1. TypeOK /\ StoreOK /\ RequestsOK /\ req[r] # Idle /\ req[r].stage = "consent"
  BY Busy DEF Agree, SignInInv
<1>2. PICK b \in Browser : b = req[r].browser
  BY <1>1, Columns
<1>3. PICK a \in App : a = kv[req[r].id].app
  BY <1>1, Taken, SMTT(30) DEF RequestOK
<1>4. req[r].answer = "approve"
  BY <1>1, Taken DEF RequestOK, Agree, TokenMatches, Answer
<1>5. agreed' = agreed \cup {<<b, a>>}
  BY <1>2, <1>3, <1>4 DEF Agree
<1>6. Vouched' = Vouched /\ Used' = Used /\ grants' = grants
  BY DEF Agree, Vouched, Used
<1>7. \E q \in Browser : <<q, a>> \in Shown
  <2>1. PICK j \in Id : j = req[r].id
    BY <1>1, Columns
  <2>2. kv[j] # None /\ kv[j] \in Value /\ kv[j].kind = "consent"
    BY <1>1, <2>1, Taken DEF RequestOK
  <2>3. kv[j].browser \in Browser
    BY <2>2 DEF Value
  <2>4. <<kv[j].browser, a>> \in Shown
    BY <1>3, <2>1, <2>2, <2>3 DEF Shown
  <2> QED BY <2>3, <2>4
<1>8. ~\E q \in Browser, j \in Id, x \in App : ShowConsent(q, x, j)
  <2>1. req' # req
    BY <1>1 DEF Agree, TypeOK
  <2> QED BY <2>1 DEF ShowConsent
<1>9. Shown' = Shown
  BY <1>1, <1>8, ShownStays DEF Next, Work
<1> QED BY <1>5, <1>6, <1>7, <1>9 DEF Promise!Agree

\* Every step of signing in is a step of what it promises, or changes nothing
\* of it.
LEMMA PromiseStep ==
  ASSUME SignInInv, [Next]_vars
  PROVE  [Promise!Next]_(Promise!vars)
<1>1. CASE Shown' = Shown /\ agreed' = agreed /\ codes' = codes /\ grants' = grants
  BY <1>1 DEF Promise!vars, Vouched, Used
<1>2. CASE ~(agreed' = agreed /\ codes' = codes /\ grants' = grants)
  <2>1. Next
    BY <1>2 DEF vars, history
  <2> QED BY <1>2, <2>1, AgreedSteps, CodeSteps, GrantSteps,
             MapsAgree, MapsVouch, MapsSpend, MapsGrant DEF Promise!Next
<1>3. CASE Shown' # Shown
  <2>1. Next
    BY <1>3 DEF vars, Shown
  <2>2. PICK b \in Browser, i \in Id, a \in App : ShowConsent(b, a, i)
    BY <1>3, <2>1, ShownStays DEF SignInInv
  <2> QED BY <2>2, MapsShow DEF Promise!Next
<1> QED BY <1>1, <1>2, <1>3

\* Signing in implements its promise: a grant needs an approval that carries
\* the token of a consent page shown for the application, from whichever
\* browser sends it, and one unused sign-in at the provider.
THEOREM PromiseKept == Spec => ImplementsPromise
<1>1. Init => Promise!Init
  BY DEF Init, Promise!Init, Vouched, Used, Shown
<1>2. SignInInv /\ [Next]_vars => [Promise!Next]_(Promise!vars)
  BY PromiseStep
<1> QED BY <1>1, <1>2, SignInInvariance, PTL DEF Spec, ImplementsPromise, Promise!Spec
-----------------------------------------------------------------------------
(* What a browser remembers of its approvals *)

NoRepeats(s) == \A i, j \in DOMAIN s : s[i] = s[j] => i = j

\* In s, x stands somewhere before y.
Before(s, x, y) == \E i, j \in DOMAIN s : i < j /\ s[i] = x /\ s[j] = y

\* Leaving an application out keeps the others, in their order.
LEMMA WithoutKeeps ==
  ASSUME NEW s \in Seq(App), NEW a \in App, NoRepeats(s)
  PROVE  /\ Without(s, a) \in Seq(App)
         /\ Len(Without(s, a)) \in {Len(s), Len(s) - 1}
         /\ NoRepeats(Without(s, a))
         /\ Apps(Without(s, a)) = Apps(s) \ {a}
         /\ \A i, j \in DOMAIN Without(s, a) :
              i < j => Before(s, Without(s, a)[i], Without(s, a)[j])
<1>1. CASE a \notin Apps(s)
  <2>1. Without(s, a) = s
    BY <1>1 DEF Without
  <2>2. Apps(s) = Apps(s) \ {a}
    BY <1>1
  <2>3. \A i, j \in DOMAIN s : i < j => Before(s, s[i], s[j])
    BY DEF Before
  <2> QED BY <2>1, <2>2, <2>3
<1>2. CASE a \in Apps(s)
  <2> DEFINE at == CHOOSE i \in DOMAIN s : s[i] = a
             n == Len(s)
             from(i) == IF i < at THEN i ELSE i + 1
             rest == [i \in 1 .. n - 1 |-> IF i < at THEN s[i] ELSE s[i + 1]]
  <2>1. Without(s, a) = rest
    BY <1>2 DEF Without
  <2>2. at \in 1 .. n /\ s[at] = a /\ n \in Nat \ {0} /\ DOMAIN s = 1 .. n
    <3>1. \E i \in DOMAIN s : s[i] = a
      BY <1>2 DEF Apps
    <3>2. at \in DOMAIN s /\ s[at] = a
      BY <3>1
    <3> HIDE DEF at
    <3> QED BY <3>2
  <2> HIDE DEF at, n
  <2>3. \A i \in 1 .. n - 1 : from(i) \in (1 .. n) \ {at} /\ rest[i] = s[from(i)]
    BY <2>2
  <2>4. \A i, j \in 1 .. n - 1 : i < j => from(i) < from(j)
    BY <2>2
  <2>5. \A k \in (1 .. n) \ {at} : \E i \in 1 .. n - 1 : from(i) = k
    <3> SUFFICES ASSUME NEW k \in (1 .. n) \ {at}
                 PROVE  \E i \in 1 .. n - 1 : from(i) = k
      OBVIOUS
    <3>1. CASE k < at
      BY <2>2, <3>1
    <3>2. CASE k > at
      <4>1. k - 1 \in 1 .. n - 1 /\ from(k - 1) = k
        BY <2>2, <3>2
      <4> QED BY <4>1
    <3> QED BY <2>2, <3>1, <3>2
  <2>6. \A i \in 1 .. n - 1 : rest[i] \in App
    BY <2>2, <2>3
  <2>7. DOMAIN rest = 1 .. n - 1 /\ n - 1 \in Nat
    BY <2>2
  <2>8. rest \in Seq(App) /\ Len(rest) = n - 1
    BY <2>6, <2>7
  <2> HIDE DEF rest, from
  <2>9. NoRepeats(rest)
    <3> SUFFICES ASSUME NEW i \in 1 .. n - 1, NEW j \in 1 .. n - 1, rest[i] = rest[j]
                 PROVE  i = j
      BY <2>7 DEF NoRepeats
    <3>1. from(i) = from(j)
      BY <2>2, <2>3 DEF NoRepeats
    <3>2. ~(i < j) /\ ~(j < i)
      BY <2>2, <2>3, <2>4, <3>1
    <3> QED BY <2>2, <3>2
  <2>10. \A k \in 1 .. n : s[k] = a <=> k = at
    BY <2>2 DEF NoRepeats
  <2>11. Apps(rest) = Apps(s) \ {a}
    <3>1. ASSUME NEW x \in Apps(rest)
          PROVE  x \in Apps(s) \ {a}
      BY <2>2, <2>3, <2>7, <2>10, <3>1 DEF Apps
    <3>2. ASSUME NEW x \in Apps(s) \ {a}
          PROVE  x \in Apps(rest)
      <4>1. PICK k \in 1 .. n : s[k] = x /\ k # at
        BY <2>2, <3>2 DEF Apps
      <4>2. PICK i \in 1 .. n - 1 : from(i) = k
        BY <2>5, <4>1
      <4> QED BY <2>3, <2>7, <4>1, <4>2 DEF Apps
    <3> QED BY <3>1, <3>2
  <2>12. \A i, j \in 1 .. n - 1 : i < j => Before(s, rest[i], rest[j])
    BY <2>2, <2>3, <2>4 DEF Before
  <2> QED BY <2>1, <2>7, <2>8, <2>9, <2>11, <2>12 DEF n
<1> QED BY <1>1, <1>2

\* approvedClientsCookie puts the application last; of the others it keeps
\* the latest, in their order, and drops none while there is room.
LEMMA ApproveKeeps ==
  ASSUME NEW s \in Seq(App), NEW a \in App, NoRepeats(s), NEW l, l = Approve(s, a)
  PROVE  /\ l \in Seq(App) /\ Len(l) \in 1 .. MaxApproved
         /\ l[Len(l)] = a
         /\ NoRepeats(l)
         /\ Apps(l) \subseteq Apps(s) \cup {a}
         /\ Len(s) = MaxApproved => Len(l) = MaxApproved
         /\ \A i, j \in DOMAIN l : i < j =>
              l[i] # a /\ (l[j] = a \/ Before(s, l[i], l[j]))
         /\ \A x \in Apps(s) \ Apps(l) :
              /\ Len(l) = MaxApproved
              /\ \A i \in DOMAIN l : l[i] = a \/ Before(s, x, l[i])
<1> DEFINE w == Without(s, a)
           all == Append(w, a)
           m == Len(w) + 1
           d == IF m <= MaxApproved THEN 0 ELSE m - MaxApproved
<1>1. /\ w \in Seq(App) /\ Len(w) \in {Len(s), Len(s) - 1} /\ NoRepeats(w)
      /\ Apps(w) = Apps(s) \ {a}
      /\ \A i, j \in DOMAIN w : i < j => Before(s, w[i], w[j])
  BY WithoutKeeps
<1>2. MaxApproved \in Nat \ {0}
  BY SignInConstants
<1>3. l = IF Len(all) <= MaxApproved THEN all
          ELSE SubSeq(all, Len(all) - MaxApproved + 1, Len(all))
  BY DEF Approve
<1> HIDE DEF w
<1>4. /\ all \in Seq(App) /\ Len(all) = m /\ m \in Nat \ {0}
      /\ DOMAIN w = 1 .. m - 1 /\ DOMAIN all = 1 .. m
      /\ all[m] = a
      /\ \A i \in 1 .. m - 1 : all[i] = w[i] /\ w[i] \in Apps(s) \ {a}
  <2>1. \A i \in DOMAIN w : w[i] \in Apps(s) \ {a}
    BY <1>1 DEF Apps
  <2>2. /\ all \in Seq(App) /\ Len(all) = m /\ m \in Nat \ {0}
        /\ DOMAIN w = 1 .. m - 1 /\ DOMAIN all = 1 .. m
    BY <1>1
  <2>3. all[m] = a /\ \A i \in 1 .. m - 1 : all[i] = w[i]
    BY <1>1
  <2> QED BY <2>1, <2>2, <2>3
<1> HIDE DEF all, m
<1>5. d \in 0 .. m - 1
  BY <1>2, <1>4
<1>6. /\ l \in Seq(App) /\ Len(l) = m - d /\ DOMAIN l = 1 .. m - d
      /\ \A i \in 1 .. m - d : l[i] = all[i + d]
  <2>1. CASE m <= MaxApproved
    BY <1>2, <1>3, <1>4, <2>1
  <2>2. CASE ~(m <= MaxApproved)
    <3>1. l = SubSeq(all, d + 1, m) /\ d + 1 \in 1 .. m
      BY <1>2, <1>3, <1>4, <2>2
    <3> HIDE DEF d
    <3> QED BY <1>4, <1>5, <3>1
  <2> QED BY <2>1, <2>2
<1>7. m - d \in 1 .. MaxApproved /\ (d # 0 => m - d = MaxApproved)
  BY <1>2, <1>4
<1>8. m - d >= MaxApproved \/ d = 0
  BY <1>2, <1>4
<1> HIDE DEF d
<1>9. ASSUME NEW i \in 1 .. m - d
      PROVE  /\ i + d \in 1 .. m
             /\ i < m - d => i + d \in 1 .. m - 1 /\ l[i] = w[i + d] /\ l[i] \in Apps(s) \ {a}
             /\ i = m - d => l[i] = a
  <2>1. i + d \in 1 .. m /\ (i < m - d => i + d \in 1 .. m - 1) /\ (i = m - d => i + d = m)
    BY <1>4, <1>5
  <2> QED BY <1>4, <1>6, <2>1
<1>10. m - d \in Nat /\ \A i \in 1 .. m - d : i < m - d \/ i = m - d
  BY <1>4, <1>5
<1>11. l[Len(l)] = a /\ Len(l) \in 1 .. MaxApproved
  BY <1>6, <1>7, <1>9
<1>12. NoRepeats(l)
  <2> SUFFICES ASSUME NEW i \in 1 .. m - d, NEW j \in 1 .. m - d, l[i] = l[j]
               PROVE  i = j
    BY <1>6 DEF NoRepeats
  <2>1. CASE i = m - d \/ j = m - d
    BY <1>9, <1>10, <2>1
  <2>2. CASE i < m - d /\ j < m - d
    <3>1. w[i + d] = w[j + d] /\ i + d \in 1 .. m - 1 /\ j + d \in 1 .. m - 1
      BY <1>9, <2>2
    <3>2. i + d = j + d
      BY <1>1, <1>4, <3>1 DEF NoRepeats
    <3> QED BY <1>5, <1>4, <3>2
  <2> QED BY <1>10, <2>1, <2>2
<1>13. Apps(l) \subseteq Apps(s) \cup {a}
  BY <1>6, <1>9, <1>10 DEF Apps
<1>14. Len(s) = MaxApproved => Len(l) = MaxApproved
  <2>1. Len(s) \in Nat /\ Len(w) \in Nat /\ m = Len(w) + 1
    BY <1>1 DEF m
  <2>2. m >= Len(s)
    BY <1>1, <2>1
  <2> QED BY <1>2, <1>4, <1>5, <1>6, <1>7, <1>8, <2>1, <2>2
<1>15. ASSUME NEW i \in DOMAIN l, NEW j \in DOMAIN l, i < j
       PROVE  l[i] # a /\ (l[j] = a \/ Before(s, l[i], l[j]))
  <2>1. i \in 1 .. m - d /\ j \in 1 .. m - d /\ i < m - d
    BY <1>4, <1>5, <1>6, <1>15
  <2>2. CASE j = m - d
    BY <1>9, <2>1, <2>2
  <2>3. CASE j < m - d
    <3>1. /\ l[i] = w[i + d] /\ i + d \in DOMAIN w
          /\ l[j] = w[j + d] /\ j + d \in DOMAIN w
      BY <1>4, <1>9, <2>1, <2>3
    <3>2. i + d < j + d
      BY <1>4, <1>5, <1>15, <2>1
    <3> QED BY <1>1, <1>9, <2>1, <3>1, <3>2
  <2> QED BY <1>10, <2>1, <2>2, <2>3
<1>16. ASSUME NEW x \in Apps(s) \ Apps(l)
       PROVE  /\ Len(l) = MaxApproved
              /\ \A i \in DOMAIN l : l[i] = a \/ Before(s, x, l[i])
  <2>1. a \in Apps(l)
    BY <1>6, <1>7, <1>9 DEF Apps
  <2>2. x \in Apps(w)
    BY <1>1, <1>16, <2>1
  <2>3. PICK k \in 1 .. m - 1 : w[k] = x
    BY <1>4, <2>2 DEF Apps
  <2>4. k \in 1 .. d
    <3> SUFFICES ASSUME ~(k \in 1 .. d) PROVE FALSE
      OBVIOUS
    <3>1. k - d \in 1 .. m - d /\ k - d < m - d /\ (k - d) + d = k
      BY <1>4, <1>5, <2>3
    <3>2. l[k - d] = x
      BY <1>9, <2>3, <3>1
    <3> QED BY <1>6, <1>16, <3>1, <3>2 DEF Apps
  <2>5. d # 0
    BY <1>4, <1>5, <2>4
  <2>6. ASSUME NEW i \in 1 .. m - d, i < m - d
        PROVE  Before(s, x, l[i])
    <3>1. l[i] = w[i + d] /\ i + d \in DOMAIN w /\ k < i + d
      BY <1>4, <1>5, <1>9, <2>4, <2>6
    <3> QED BY <1>1, <1>4, <2>3, <3>1
  <2> QED BY <1>6, <1>7, <1>9, <1>10, <2>5, <2>6
<1> QED BY <1>6, <1>11, <1>12, <1>13, <1>14, <1>15, <1>16

\* x's latest approval in s is the i-th of all.
IsLatest(s, x, i) ==
  /\ i \in DOMAIN s
  /\ s[i] = x
  /\ \A j \in DOMAIN s : s[j] = x => j <= i

EachHasALatest(s) == \A x \in Apps(s) : \E i : IsLatest(s, x, i)

LEMMA LatestIs ==
  ASSUME NEW s \in Seq(App), NEW x, NEW i, IsLatest(s, x, i)
  PROVE  LastApproval(s, x) = i
<1> DEFINE Latest(k) == s[k] = x /\ \A j \in DOMAIN s : s[j] = x => j <= k
<1>1. i \in DOMAIN s /\ Latest(i)
  BY DEF IsLatest
<1>2. \A k \in DOMAIN s : Latest(k) => k = i
  <2> SUFFICES ASSUME NEW k \in DOMAIN s, Latest(k) PROVE k = i
    OBVIOUS
  <2>1. k <= i /\ i <= k
    BY <1>1
  <2>2. k \in Nat /\ i \in Nat
    BY <1>1
  <2> QED BY <2>1, <2>2
<1>3. LastApproval(s, x) = CHOOSE k \in DOMAIN s : Latest(k)
  BY DEF LastApproval
<1> HIDE DEF Latest
<1> QED BY <1>1, <1>2, <1>3

\* t is s and one approval more, which is the latest of all; those of other
\* applications are where they were.
OneMore(s, a, t) ==
  /\ t \in Seq(App) /\ t # << >> /\ t[Len(t)] = a
  /\ Apps(t) = Apps(s) \cup {a}
  /\ EachHasALatest(t)
  /\ LastApproval(t, a) = Len(s) + 1
  /\ \A x \in Apps(s) : /\ LastApproval(s, x) \in 1 .. Len(s)
                        /\ x # a => LastApproval(t, x) = LastApproval(s, x)

LEMMA ToldOnceMore ==
  ASSUME NEW s \in Seq(App), NEW a \in App, EachHasALatest(s)
  PROVE  OneMore(s, a, Append(s, a))
<1> DEFINE n == Len(s)
           t == Append(s, a)
<1>1. /\ t \in Seq(App) /\ Len(t) = n + 1 /\ n \in Nat
      /\ DOMAIN s = 1 .. n /\ DOMAIN t = 1 .. n + 1
  OBVIOUS
<1>2. t[n + 1] = a /\ \A i \in 1 .. n : t[i] = s[i]
  OBVIOUS
<1> HIDE DEF n, t
<1>3. \A i \in 1 .. n + 1 : i \in 1 .. n \/ i = n + 1
  BY <1>1
<1>4. IsLatest(t, a, n + 1)
  BY <1>1, <1>2 DEF IsLatest
<1>5. ASSUME NEW x, x # a, NEW i, IsLatest(s, x, i)
      PROVE  IsLatest(t, x, i)
  <2>1. i \in 1 .. n + 1 /\ t[i] = x
    BY <1>1, <1>2, <1>5 DEF IsLatest
  <2>2. ASSUME NEW j \in 1 .. n + 1, t[j] = x
        PROVE  j <= i
    BY <1>1, <1>2, <1>3, <1>5, <2>2 DEF IsLatest
  <2> QED BY <1>1, <2>1, <2>2 DEF IsLatest
<1>6. Apps(t) = Apps(s) \cup {a}
  <2>1. ASSUME NEW x \in Apps(t)
        PROVE  x \in Apps(s) \cup {a}
    BY <1>1, <1>2, <1>3 DEF Apps
  <2>2. ASSUME NEW x \in Apps(s) \cup {a}
        PROVE  x \in Apps(t)
    <3>1. CASE x = a
      BY <1>1, <1>2, <3>1 DEF Apps
    <3>2. CASE x \in Apps(s)
      <4>1. PICK i \in 1 .. n : s[i] = x
        BY <1>1, <3>2 DEF Apps
      <4>2. i \in 1 .. n + 1 /\ t[i] = x
        BY <1>1, <1>2, <4>1
      <4> QED BY <1>1, <4>2 DEF Apps
    <3> QED BY <3>1, <3>2
  <2> QED BY <2>1, <2>2
<1>7. EachHasALatest(t)
  BY <1>4, <1>5, <1>6 DEF EachHasALatest
<1>8. LastApproval(t, a) = n + 1
  BY <1>1, <1>4, LatestIs
<1>9. ASSUME NEW x \in Apps(s)
      PROVE  /\ LastApproval(s, x) \in 1 .. n
             /\ x # a => LastApproval(t, x) = LastApproval(s, x)
  <2>1. PICK i : IsLatest(s, x, i)
    BY DEF EachHasALatest
  <2>2. LastApproval(s, x) = i /\ i \in 1 .. n
    BY <1>1, <2>1, LatestIs DEF IsLatest
  <2>3. x # a => LastApproval(t, x) = i
    BY <1>1, <1>5, <2>1, LatestIs
  <2> QED BY <2>2, <2>3
<1>10. t # << >> /\ t[Len(t)] = a
  BY <1>1, <1>2
<1> QED BY <1>1, <1>6, <1>7, <1>8, <1>9, <1>10 DEF OneMore, n, t

\* What RemembersApprovals says of a browser whose approvals were told in
\* this order: always, and as long as no two overlapped.
Listed(list, told) ==
  /\ Len(list) <= MaxApproved
  /\ Apps(list) \subseteq Apps(told)
  /\ told # << >> => list[Len(list)] = told[Len(told)]
  /\ NoRepeats(list)

Exact(list, told) ==
  /\ \A i, j \in DOMAIN list :
       i < j => LastApproval(told, list[i]) < LastApproval(told, list[j])
  /\ \A x \in Apps(told) \ Apps(list) :
       /\ Len(list) = MaxApproved
       /\ \A i \in DOMAIN list : LastApproval(told, x) < LastApproval(told, list[i])

\* An approval the browser hears of keeps both: the first whatever list came
\* with the form, the second when it is the browser's list.
LEMMA ApprovalHeard ==
  ASSUME NEW s \in Seq(App), NEW told \in Seq(App), NEW a \in App,
         NoRepeats(s), Apps(s) \subseteq Apps(told), EachHasALatest(told)
  PROVE  /\ Listed(Approve(s, a), Append(told, a))
         /\ Exact(s, told) => Exact(Approve(s, a), Append(told, a))
<1> DEFINE l == Approve(s, a)
           t == Append(told, a)
<1>1. /\ l \in Seq(App) /\ Len(l) \in 1 .. MaxApproved
      /\ l[Len(l)] = a
      /\ NoRepeats(l)
      /\ Apps(l) \subseteq Apps(s) \cup {a}
      /\ Len(s) = MaxApproved => Len(l) = MaxApproved
      /\ \A i, j \in DOMAIN l : i < j =>
           l[i] # a /\ (l[j] = a \/ Before(s, l[i], l[j]))
      /\ \A x \in Apps(s) \ Apps(l) :
           /\ Len(l) = MaxApproved
           /\ \A i \in DOMAIN l : l[i] = a \/ Before(s, x, l[i])
  BY ApproveKeeps, ZenonT(30)
<1>2. /\ t[Len(t)] = a
      /\ Apps(t) = Apps(told) \cup {a}
      /\ LastApproval(t, a) = Len(told) + 1
      /\ \A x \in Apps(told) : /\ LastApproval(told, x) \in 1 .. Len(told)
                               /\ x # a => LastApproval(t, x) = LastApproval(told, x)
  BY ToldOnceMore DEF OneMore
<1>3. Len(told) \in Nat /\ MaxApproved \in Nat
  BY SignInConstants
<1> HIDE DEF l, t
<1>4. Listed(l, t)
  <2>1. Len(l) <= MaxApproved
    BY <1>1, <1>3
  <2> QED BY <1>1, <1>2, <2>1 DEF Listed
<1>5. ASSUME NEW x \in Apps(told), x # a
      PROVE  LastApproval(t, x) < LastApproval(t, a)
  BY <1>2, <1>3, <1>5
<1>6. ASSUME Exact(s, told), NEW x, NEW y, x # a, y # a, Before(s, x, y)
      PROVE  LastApproval(t, x) < LastApproval(t, y)
  <2>1. PICK i \in DOMAIN s, j \in DOMAIN s : i < j /\ s[i] = x /\ s[j] = y
    BY <1>6 DEF Before
  <2>2. x \in Apps(told) /\ y \in Apps(told)
    BY <2>1 DEF Apps
  <2>3. LastApproval(told, x) < LastApproval(told, y)
    BY <1>6, <2>1 DEF Exact
  <2> QED BY <1>2, <1>6, <2>2, <2>3
<1>7. \A i \in DOMAIN l : l[i] \in Apps(s) \cup {a}
  BY <1>1 DEF Apps
<1>8. ASSUME Exact(s, told), NEW i \in DOMAIN l, NEW j \in DOMAIN l, i < j
      PROVE  LastApproval(t, l[i]) < LastApproval(t, l[j])
  <2>1. l[i] # a /\ l[i] \in Apps(told) /\ (l[j] = a \/ Before(s, l[i], l[j]))
    BY <1>1, <1>7, <1>8
  <2>2. CASE l[j] = a
    BY <1>5, <2>1, <2>2
  <2>3. CASE l[j] # a
    BY <1>6, <1>8, <2>1, <2>3
  <2> QED BY <2>2, <2>3
<1>9. a \in Apps(l)
  <2>1. Len(l) \in DOMAIN l
    BY <1>1
  <2> QED BY <1>1, <2>1 DEF Apps
<1>10. ASSUME Exact(s, told), NEW x \in Apps(t) \ Apps(l)
       PROVE  /\ Len(l) = MaxApproved
              /\ \A i \in DOMAIN l : LastApproval(t, x) < LastApproval(t, l[i])
  <2>1. x \in Apps(told) /\ x # a
    BY <1>2, <1>9, <1>10
  <2>2. CASE x \in Apps(s)
    <3>1. /\ Len(l) = MaxApproved
          /\ \A i \in DOMAIN l : l[i] = a \/ Before(s, x, l[i])
      BY <1>1, <1>10, <2>2
    <3>2. ASSUME NEW i \in DOMAIN l
          PROVE  LastApproval(t, x) < LastApproval(t, l[i])
      <4>1. CASE l[i] = a
        BY <1>5, <2>1, <4>1
      <4>2. CASE l[i] # a
        BY <1>6, <1>10, <2>1, <3>1, <4>2
      <4> QED BY <4>1, <4>2
    <3> QED BY <3>1, <3>2
  <2>3. CASE x \notin Apps(s)
    <3>1. /\ Len(s) = MaxApproved
          /\ \A i \in DOMAIN s : LastApproval(told, x) < LastApproval(told, s[i])
      BY <1>10, <2>1, <2>3 DEF Exact
    <3>2. ASSUME NEW i \in DOMAIN l
          PROVE  LastApproval(t, x) < LastApproval(t, l[i])
      <4>1. CASE l[i] = a
        BY <1>5, <2>1, <4>1
      <4>2. CASE l[i] # a
        <5>1. PICK k \in DOMAIN s : s[k] = l[i]
          BY <1>7, <4>2 DEF Apps
        <5>2. l[i] \in Apps(told)
          BY <1>7, <4>2
        <5>3. LastApproval(told, x) < LastApproval(told, l[i])
          BY <3>1, <5>1
        <5> QED BY <1>2, <2>1, <4>2, <5>2, <5>3
      <4> QED BY <4>1, <4>2
    <3> QED BY <1>1, <3>1, <3>2
  <2> QED BY <2>2, <2>3
<1>11. Exact(s, told) => Exact(l, t)
  BY <1>8, <1>10, SMTT(30) DEF Exact
<1> QED BY <1>4, <1>11 DEF l, t

\* Each browser's list tells its approvals, exactly unless two overlapped, and
\* a form's list was the browser's at some time.
BrowserRemembers(b) ==
  /\ order[b] \in Seq(App)
  /\ EachHasALatest(order[b])
  /\ Listed(jar[b].approved, order[b])
  /\ raced[b] \/ Exact(jar[b].approved, order[b])

FormRemembers(r) ==
  /\ NoRepeats(req[r].cookie)
  /\ Apps(req[r].cookie) \subseteq Apps(order[req[r].browser])

Remembering ==
  /\ order \in [Browser -> Seq(App)]
  /\ raced \in [Browser -> BOOLEAN]
  /\ \A b \in Browser : BrowserRemembers(b)
  /\ \A r \in Request : req[r] # Idle => FormRemembers(r)

\* A cookie is told of an approval by the answer to it.
LEMMA ToldSteps ==
  ASSUME Next, order' # order \/ raced' # raced
  PROVE  \E r \in Request, i \in Id : Agree(r, i)
BY ZenonT(60) DEF Next, Browse, Work, ServePage, SkipConsent, ShowConsent, StartBrowserSignIn,
       SubmitForm, ReturnFromProvider, DeleteTaken, Refuse, ExchangeCode,
       VerifyToken, ReturnToPage, CompleteAuthorization, Fail, SignAtProvider,
       Tick, history

\* What an approval does to a browser's list and to what it was told.
LEMMA AgreeTells ==
  ASSUME SignInInv, Remembering, NEW r \in Request, NEW i \in Id, Agree(r, i)
  PROVE  \E b \in Browser, a \in App :
           /\ b = req[r].browser
           /\ \/ jar' = jar /\ order' = order
              \/ /\ jar' = [jar EXCEPT ![b] =
                              [jar[b] EXCEPT !.approved = Approve(req[r].cookie, a)]]
                 /\ jar' # jar
                 /\ order' = [order EXCEPT ![b] = Append(order[b], a)]
           /\ raced' = [raced EXCEPT ![b] =
                          raced[b] \/ (jar' # jar /\ jar[b].approved # req[r].cookie)]
<1>1. req[r] # Idle
  BY Busy DEF Agree
<1>2. TypeOK /\ StoreOK /\ RequestsOK
  BY DEF SignInInv
<1>3. PICK b \in Browser : b = req[r].browser
  BY <1>1, <1>2, Columns, SMTT(30)
<1>4. PICK a \in App : a = kv[req[r].id].app
  BY <1>1, <1>2, Taken DEF RequestOK, Agree
<1>5. Receive(b, [jar[b] EXCEPT !.approved = Approve(req[r].cookie, a)])
  BY <1>3, <1>4 DEF Agree
<1>6. jar' = jar \/ jar' = [jar EXCEPT ![b] =
                              [jar[b] EXCEPT !.approved = Approve(req[r].cookie, a)]]
  BY <1>5 DEF Receive
<1>7. order' = IF jar' = jar THEN order
               ELSE [order EXCEPT ![b] = Append(order[b], a)]
  BY <1>3, <1>4 DEF Agree
<1>8. raced' = [raced EXCEPT ![b] =
                  raced[b] \/ (jar' # jar /\ jar[b].approved # req[r].cookie)]
  BY <1>3 DEF Agree
<1> QED BY <1>3, <1>6, <1>7, <1>8

LEMMA BrowserStep ==
  ASSUME SignInInv, Remembering, [Next]_vars
  PROVE  /\ order' \in [Browser -> Seq(App)]
         /\ raced' \in [Browser -> BOOLEAN]
         /\ \A b \in Browser : /\ BrowserRemembers(b)'
                               /\ Apps(order[b]) \subseteq Apps(order'[b])
<1> DEFINE Goal == /\ order' \in [Browser -> Seq(App)]
                   /\ raced' \in [Browser -> BOOLEAN]
                   /\ \A b \in Browser : /\ BrowserRemembers(b)'
                                         /\ Apps(order[b]) \subseteq Apps(order'[b])
<1>0. /\ TypeOK
      /\ jar \in [Browser -> [approved: Seq(App), session: Session \cup {None}]]
  BY DEF SignInInv, TypeOK
<1>1. CASE UNCHANGED <<order, raced>>
           /\ \A b \in Browser : jar'[b].approved = jar[b].approved
  BY <1>1 DEF Remembering, BrowserRemembers
<1>2. ASSUME NEW r \in Request, ReturnToPage(r) \/ CompleteAuthorization(r)
      PROVE  UNCHANGED <<order, raced>>
             /\ \A b \in Browser : jar'[b].approved = jar[b].approved
  <2>1. req[r] # Idle
    BY <1>2, Busy DEF ReturnToPage, CompleteAuthorization
  <2>2. PICK b \in Browser : b = req[r].browser
    BY <1>0, <2>1, Columns
  <2>3. jar' \in {jar, [jar EXCEPT ![b] = [jar[b] EXCEPT !.session = req[r].session]]}
    BY <1>2, <2>2 DEF ReturnToPage, CompleteAuthorization, Receive
  <2>4. \A q \in Browser : jar'[q].approved = jar[q].approved
    BY <1>0, <2>3, SMTT(30)
  <2>5. UNCHANGED <<order, raced>>
    BY <1>2 DEF ReturnToPage, CompleteAuthorization, history
  <2> QED BY <2>4, <2>5
<1>3. ASSUME NEW r \in Request, NEW i \in Id, Agree(r, i)
      PROVE  Goal
  <2>1. PICK b \in Browser, a \in App :
           /\ b = req[r].browser
           /\ \/ jar' = jar /\ order' = order
              \/ /\ jar' = [jar EXCEPT ![b] =
                              [jar[b] EXCEPT !.approved = Approve(req[r].cookie, a)]]
                 /\ jar' # jar
                 /\ order' = [order EXCEPT ![b] = Append(order[b], a)]
           /\ raced' = [raced EXCEPT ![b] =
                          raced[b] \/ (jar' # jar /\ jar[b].approved # req[r].cookie)]
    BY <1>3, AgreeTells
  <2>2. raced' \in [Browser -> BOOLEAN]
    BY <2>1 DEF Remembering
  <2>3. \A q \in Browser : q # b => raced'[q] = raced[q]
    BY <2>1 DEF Remembering
  <2>4. raced'[b] = (raced[b] \/ (jar' # jar /\ jar[b].approved # req[r].cookie))
    BY <2>1 DEF Remembering
  <2>5. CASE jar' = jar /\ order' = order
    <3>1. raced'[b] = raced[b]
      <4>1. raced[b] \in BOOLEAN
        BY DEF Remembering
      <4> QED BY <2>4, <2>5, <4>1
    <3>2. \A q \in Browser : raced'[q] = raced[q]
      BY <2>3, <3>1
    <3> QED BY <2>2, <2>5, <3>2 DEF Remembering, BrowserRemembers
  <2>6. CASE /\ jar' = [jar EXCEPT ![b] =
                          [jar[b] EXCEPT !.approved = Approve(req[r].cookie, a)]]
             /\ jar' # jar
             /\ order' = [order EXCEPT ![b] = Append(order[b], a)]
    <3>1. req[r] # Idle
      BY <1>3, Busy DEF Agree
    <3>2. PICK s \in Seq(App) : s = req[r].cookie
      BY <1>0, <3>1, Columns
    <3>3. PICK told \in Seq(App) : told = order[b]
      BY DEF Remembering
    <3>4. /\ NoRepeats(s) /\ Apps(s) \subseteq Apps(told)
          /\ EachHasALatest(told)
      BY <2>1, <3>1, <3>2, <3>3 DEF Remembering, FormRemembers, BrowserRemembers
    <3>5. order' \in [Browser -> Seq(App)]
      BY <2>6, <3>3 DEF Remembering
    <3>6. /\ order'[b] = Append(told, a)
          /\ \A q \in Browser : q # b => order'[q] = order[q]
      BY <2>6, <3>3 DEF Remembering
    <3>7. /\ jar'[b].approved = Approve(s, a)
          /\ \A q \in Browser : q # b => jar'[q] = jar[q]
      BY <1>0, <2>6, <3>2
    <3>8. OneMore(told, a, order'[b])
      BY <3>4, <3>6, ToldOnceMore
    <3>9. /\ Listed(jar'[b].approved, order'[b])
          /\ Exact(s, told) => Exact(jar'[b].approved, order'[b])
      BY <3>4, <3>6, <3>7, ApprovalHeard
    <3>10. raced'[b] \/ Exact(s, told)
      <4>1. ASSUME ~raced'[b]
            PROVE  ~raced[b] /\ jar[b].approved = s
        BY <2>4, <2>6, <3>2, <4>1, Zenon
      <4>2. raced[b] \/ Exact(jar[b].approved, told)
        BY <3>3 DEF Remembering, BrowserRemembers
      <4> QED BY <4>1, <4>2
    <3>11. EachHasALatest(order'[b]) /\ Apps(told) \subseteq Apps(order'[b])
      BY <3>8 DEF OneMore
    <3>12. BrowserRemembers(b)' /\ Apps(order[b]) \subseteq Apps(order'[b])
      BY <3>3, <3>5, <3>9, <3>10, <3>11 DEF BrowserRemembers
    <3>13. \A q \in Browser : q # b => /\ BrowserRemembers(q)'
                                       /\ Apps(order[q]) \subseteq Apps(order'[q])
      BY <2>3, <3>6, <3>7 DEF Remembering, BrowserRemembers
    <3> QED BY <2>2, <3>5, <3>12, <3>13
  <2> QED BY <2>1, <2>5, <2>6
<1>4. CASE jar' = jar /\ order' = order /\ raced' = raced
  BY <1>1, <1>4
<1>5. Next \/ (jar' = jar /\ order' = order /\ raced' = raced)
  BY DEF vars, history
<1> HIDE DEF Goal
<1>6. Goal
  BY <1>1, <1>2, <1>3, <1>4, <1>5, CookieAnswers, ToldSteps DEF Goal
<1> QED BY <1>6 DEF Goal

\* A request keeps the list it came with.
LEMMA FormStep ==
  ASSUME SignInInv, Remembering, [Next]_vars, NEW r \in Request, req'[r] # Idle
  PROVE  FormRemembers(r)'
<1>0. /\ TypeOK
      /\ \A b \in Browser : /\ BrowserRemembers(b)
                            /\ Apps(order[b]) \subseteq Apps(order'[b])
  BY BrowserStep DEF SignInInv, Remembering
<1>1. ASSUME req[r] # Idle, req'[r].cookie = req[r].cookie,
             req'[r].browser = req[r].browser
      PROVE  FormRemembers(r)'
  <2>1. FormRemembers(r) /\ req[r].browser \in Browser
    BY <1>0, <1>1, Columns DEF Remembering
  <2> QED BY <1>0, <1>1, <2>1 DEF FormRemembers
<1>2. CASE req'[r] = req[r]
  BY <1>1, <1>2
<1>3. CASE req'[r] # req[r]
  <2>1. Work(r)
    BY <1>0, <1>3, OwnSteps DEF vars
  <2>2. ASSUME NEW b \in Browser, NEW i \in Id, NEW answer \in Answer,
               SubmitForm(r, b, i, answer)
        PROVE  FormRemembers(r)'
    <3>1. req'[r] = Took(b, i, jar[b].approved, answer, None)
      BY <1>0, <2>2 DEF SubmitForm, TypeOK
    <3>2. req'[r].cookie = jar[b].approved /\ req'[r].browser = b
      BY <3>1 DEF Took
    <3>3. NoRepeats(jar[b].approved) /\ Apps(jar[b].approved) \subseteq Apps(order[b])
      BY <1>0 DEF BrowserRemembers, Listed
    <3> QED BY <1>0, <3>2, <3>3 DEF FormRemembers
  <2>3. ASSUME NEW b \in Browser, NEW i \in Id, NEW c \in Code \cup {None},
               ReturnFromProvider(r, b, i, c)
        PROVE  FormRemembers(r)'
    <3>1. req'[r].cookie = << >>
      BY <1>0, <2>3 DEF ReturnFromProvider, TypeOK, Took
    <3> QED BY <3>1 DEF FormRemembers, NoRepeats, Apps
  <2>4. CASE DeleteTaken(r) \/ ExchangeCode(r) \/ VerifyToken(r)
    <3>1. req[r] # Idle
      BY <2>4, Busy DEF DeleteTaken, ExchangeCode, VerifyToken
    <3>2. req[r] \in InProgress
      BY <1>0, <3>1, Columns
    <3>3. req'[r].cookie = req[r].cookie /\ req'[r].browser = req[r].browser
      BY <1>0, <2>4, <3>2 DEF DeleteTaken, ExchangeCode, VerifyToken, TypeOK, InProgress
    <3> QED BY <1>1, <3>1, <3>3
  <2>5. CASE Refuse(r) \/ (\E i \in Id : Agree(r, i)) \/ ReturnToPage(r)
               \/ CompleteAuthorization(r) \/ Fail(r)
    BY <1>0, <2>5 DEF Refuse, Agree, ReturnToPage, CompleteAuthorization, Fail, TypeOK
  <2> QED BY <2>1, <2>2, <2>3, <2>4, <2>5 DEF Work
<1> QED BY <1>2, <1>3

\* A browser's list holds applications approved in it, each once, in the order
\* of their last approvals, and lacks none but those MaxApproved later ones
\* pushed out, unless two approvals overlapped.
THEOREM ApprovalsRemembered == Spec => []RemembersApprovals
<1>1. Init => Remembering
  <2> SUFFICES ASSUME Init PROVE Remembering
    OBVIOUS
  <2>1. \A b \in Browser : order[b] = << >> /\ jar[b].approved = << >>
    BY DEF Init, NoCookies
  <2>2. Apps(<< >>) = {} /\ NoRepeats(<< >>) /\ EachHasALatest(<< >>)
    BY DEF Apps, NoRepeats, EachHasALatest
  <2>3. Listed(<< >>, << >>) /\ Exact(<< >>, << >>)
    BY <2>2, SignInConstants DEF Listed, Exact
  <2>4. order \in [Browser -> Seq(App)] /\ raced \in [Browser -> BOOLEAN]
    BY DEF Init
  <2>5. \A r \in Request : req[r] = Idle
    BY DEF Init
  <2> QED BY <2>1, <2>2, <2>3, <2>4, <2>5 DEF Remembering, BrowserRemembers
<1>2. SignInInv /\ Remembering /\ [Next]_vars => Remembering'
  BY BrowserStep, FormStep DEF Remembering
<1>3. Remembering => RemembersApprovals
  BY DEF Remembering, BrowserRemembers, Listed, Exact, NoRepeats, RemembersApprovals
<1> QED BY <1>1, <1>2, <1>3, SignInInvariance, PTL DEF Spec
=============================================================================
