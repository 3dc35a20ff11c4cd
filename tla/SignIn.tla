------------------------------- MODULE SignIn -------------------------------
(***************************************************************************)
(* Signing in: the consent screen that asks whether an application may     *)
(* connect, the hop to the identity provider, the callback that completes  *)
(* the authorization, and the browser session of the pages.  Between its   *)
(* calls a request holds what it took from a key-value store which is only *)
(* eventually consistent; other requests, of the same browser too, go on.  *)
(*                                                                         *)
(* Abstractions of data.  A random identifier is a member of Id, used for  *)
(* one value at most; the verifier and the challenge of that value are its *)
(* identifier; a signature always verifies, since no other cookie is       *)
(* signed with the key; a form's token either is the stored one or is not. *)
(* A stored value's browser, the one that had it put, is a history of the  *)
(* model: no call of the code knows it, and a form or a callback may come  *)
(* from any browser.                                                       *)
(* An answer that only shows a message changes nothing and has no action   *)
(* of its own.                                                             *)
(***************************************************************************)
EXTENDS Naturals, Sequences

CONSTANTS
  Browser, App, Person,
  ConsentId,    \* identifiers under CONSENT_PREFIX; a run has as many as given
  SignInId,     \* identifiers under UPSTREAM_PREFIX; likewise
  Code,         \* authorization codes the identity provider can issue
  Request,      \* forms and callbacks in progress at one time
  None,
  Lag,          \* how long a deleted value may still be read somewhere
  SessionLife,  \* MAX_AGE_SECONDS of a session
  MaxApproved,  \* MAX_APPROVED_CLIENTS
  MaxTime       \* bound: the clock stops here

Id == ConsentId \cup SignInId

Value == [kind: {"consent", "upstream"}, app: App \cup {None},
          browser: Browser, deleted: Nat]
CodeRow == [who: Person, id: Id, used: BOOLEAN]
Session == [who: Person, ends: Nat]
Page == [browser: Browser, who: Person, at: Nat]

ASSUME SignInConstants ==
  /\ None \notin App \cup Person \cup Code
  /\ None \notin Value \cup CodeRow \cup Session \cup Page
  /\ {Lag, SessionLife, MaxApproved} \subseteq Nat \ {0}
  /\ MaxTime \in Nat

VARIABLES
  kv,      \* OAUTH_KV: the value put under each identifier
  jar,     \* each browser's cookies: applications approved, session
  codes,   \* the identity provider's codes: whose, for which challenge, used
  req,     \* each request: its stage and what it has read so far
  clock,   \* deps.now()
  agreed,  \* history: approvals sent with a shown page's token: browser, app
  grants,  \* history: authorizations completed with the OAuth provider
  logins,  \* history: sessions made: browser, person, time
  spent,   \* history: when a value was first taken and its delete returned
  served,  \* history: the page served in the latest step
  order,   \* history: approvals each browser's cookie was told of, in order
  raced    \* history: an approval's answer arrived during another approval

history == <<agreed, grants, logins, spent, order, raced>>
vars == <<kv, jar, codes, req, clock, served, history>>

Idle == [stage |-> "idle"]
NoCookies == [approved |-> << >>, session |-> None]
Apps(s) == {s[i] : i \in DOMAIN s}

Init ==
  /\ kv = [i \in Id |-> None]
  /\ jar = [b \in Browser |-> NoCookies]
  /\ codes = [c \in Code |-> None]
  /\ req = [r \in Request |-> Idle]
  /\ clock = 1
  /\ agreed = {}
  /\ grants = {}
  /\ logins = {}
  /\ spent = [i \in Id |-> 0]
  /\ served = None
  /\ order = [b \in Browser |-> << >>]
  /\ raced = [b \in Browser |-> FALSE]

-----------------------------------------------------------------------------
(* The store *)

Keys(kind) == IF kind = "consent" THEN ConsentId ELSE SignInId

\* putOnce: a consent request or the state of a sign-in; app is None when the
\* sign-in returns to a page of this server.
Put(i, kind, a, b) ==
  /\ i \in Keys(kind)
  /\ kv[i] = None
  /\ kv' = [kv EXCEPT ![i] = [kind |-> kind, app |-> a, browser |-> b,
                              deleted |-> 0]]

\* What get may return: a value that is there, or one deleted so recently
\* that the reader's location has not heard of it.  It may return nothing
\* instead, for a value that expired or has not reached that location yet:
\* the request then ends with a message and leaves no trace.
Readable(i, kind) ==
  /\ kv[i] # None
  /\ kv[i].kind = kind
  /\ kv[i].deleted # 0 => clock < kv[i].deleted + Lag

\* delete, mutated: takeOnce returns what it read and leaves it there.
LeftThere(v) == v

Deleted(v) == IF v.deleted = 0 THEN [v EXCEPT !.deleted = clock] ELSE v

-----------------------------------------------------------------------------
(* The cookies *)

\* The browser receives the answer's cookies, or the answer is lost.
Receive(b, cookies) == jar' \in {jar, [jar EXCEPT ![b] = cookies]}

\* The list without application a, which is on it once at most.
Without(s, a) ==
  LET at == CHOOSE i \in DOMAIN s : s[i] = a
  IN IF a \notin Apps(s) THEN s
     ELSE [i \in 1 .. Len(s) - 1 |-> IF i < at THEN s[i] ELSE s[i + 1]]

\* approvedClientsCookie, mutated: the earlier entry is not filtered out.
AddAgain(s, a) == IF Len(s) < MaxApproved THEN Append(s, a) ELSE Append(Tail(s), a)

\* approvedClientsCookie: last the newest, and no more than MaxApproved.
Approve(s, a) ==
  LET all == Append(Without(s, a), a)
  IN IF Len(all) <= MaxApproved THEN all
     ELSE SubSeq(all, Len(all) - MaxApproved + 1, Len(all))

\* readSession, mutated: the end of the session is not looked at.
AnySession(s) == s # None

\* readSession.
LiveSession(s) == s # None /\ s.ends > clock

\* sessionCookie.
NewSession(p) == [who |-> p, ends |-> clock + SessionLife]

-----------------------------------------------------------------------------
(* Pages and links that ask nothing of the store but to keep a value *)

\* Most steps serve no page.
Quiet == served' = None

\* GET /authorize, mutated: an approval stands for every browser.
SkipWhereverApproved(b, a, i) ==
  /\ \E q \in Browser : a \in Apps(jar[q].approved)
  /\ Put(i, "upstream", a, b)
  /\ Quiet
  /\ UNCHANGED <<jar, codes, req, clock, history>>

\* GET /authorize for an application on the browser's list: straight to the
\* identity provider.
SkipConsent(b, a, i) ==
  /\ a \in Apps(jar[b].approved)
  /\ Put(i, "upstream", a, b)
  /\ Quiet
  /\ UNCHANGED <<jar, codes, req, clock, history>>

\* GET /authorize otherwise: the consent screen.
ShowConsent(b, a, i) ==
  /\ a \notin Apps(jar[b].approved)
  /\ Put(i, "consent", a, b)
  /\ Quiet
  /\ UNCHANGED <<jar, codes, req, clock, history>>

\* /review or /admin with a session that has not ended.
ServePage(b) ==
  /\ LiveSession(jar[b].session)
  /\ served' = [browser |-> b, who |-> jar[b].session.who, at |-> clock]
  /\ UNCHANGED <<kv, jar, codes, req, clock, history>>

\* The same pages without one, opened with GET: sign in and come back.
StartBrowserSignIn(b, i) ==
  /\ ~LiveSession(jar[b].session)
  /\ Put(i, "upstream", None, b)
  /\ Quiet
  /\ UNCHANGED <<jar, codes, req, clock, history>>

-----------------------------------------------------------------------------
(* Taking a value: the calls get and delete of takeOnce *)

\* The request has read a value and not deleted it yet.
Took(b, i, cookie, answer, code) ==
  [stage |-> "took", browser |-> b, id |-> i, cookie |-> cookie,
   answer |-> answer, code |-> code, session |-> None]

\* What a form may say; an altered one says "approve" with another token.
\* One that says neither, because the person cancelled, ends as in Fail.
Answer == {"approve", "altered"}

\* POST /authorize, in whichever browser the form is sent, with the list
\* that browser has now.  Only the form's token is compared with the stored
\* one: neither the cookie set with the page nor the browser it was shown in
\* is asked for.
SubmitForm(r, b, i, answer) ==
  /\ req[r] = Idle
  /\ Readable(i, "consent")
  /\ req' = [req EXCEPT ![r] = Took(b, i, jar[b].approved, answer, None)]
  /\ Quiet
  /\ UNCHANGED <<kv, jar, codes, clock, history>>

\* GET /callback, with a code issued for this sign-in or, when the person
\* cancelled, with an error; in any browser the link is opened in.
ReturnFromProvider(r, b, i, c) ==
  /\ req[r] = Idle
  /\ Readable(i, "upstream")
  /\ c \in {None} \cup {d \in Code : codes[d] # None /\ codes[d].id = i}
  /\ req' = [req EXCEPT ![r] = Took(b, i, << >>, None, c)]
  /\ Quiet
  /\ UNCHANGED <<kv, jar, codes, clock, history>>

DeleteTaken(r) ==
  /\ req[r].stage = "took"
  /\ LET i == req[r].id
     IN /\ kv' = [kv EXCEPT ![i] = Deleted(@)]
        /\ req' = [req EXCEPT ![r].stage = kv[i].kind]
        /\ spent' = [spent EXCEPT ![i] = IF @ = 0 THEN clock ELSE @]
  /\ Quiet
  /\ UNCHANGED <<jar, codes, clock, agreed, grants, logins, order, raced>>

-----------------------------------------------------------------------------
(* The consent form *)

\* The token check, mutated: left out.
AnyToken(answer) == TRUE

TokenMatches(answer) == answer # "altered"

\* A form without the stored token is refused, and has used the value up.
Refuse(r) ==
  /\ req[r].stage = "consent"
  /\ ~TokenMatches(req[r].answer)
  /\ req' = [req EXCEPT ![r] = Idle]
  /\ Quiet
  /\ UNCHANGED <<kv, jar, codes, clock, history>>

\* An approval is added to the list that came with the form, and the person
\* goes on to the identity provider.
Agree(r, i) ==
  LET b == req[r].browser
      a == kv[req[r].id].app
  IN /\ req[r].stage = "consent"
     /\ TokenMatches(req[r].answer)
     /\ Put(i, "upstream", a, b)
     /\ Receive(b, [jar[b] EXCEPT !.approved = Approve(req[r].cookie, a)])
     /\ agreed' = IF req[r].answer = "approve" THEN agreed \cup {<<b, a>>} ELSE agreed
     /\ order' = IF jar' = jar THEN order
                 ELSE [order EXCEPT ![b] = Append(@, a)]
     /\ raced' = [raced EXCEPT ![b] =
                    @ \/ (jar' # jar /\ jar[b].approved # req[r].cookie)]
     /\ req' = [req EXCEPT ![r] = Idle]
     /\ Quiet
     /\ UNCHANGED <<codes, clock, grants, logins, spent>>

-----------------------------------------------------------------------------
(* The callback *)

\* External: the person signs in at the provider, following the link of a
\* sign-in; the code is for the challenge in that link.
SignAtProvider(p, i, c) ==
  /\ kv[i] # None /\ kv[i].kind = "upstream"
  /\ codes[c] = None
  /\ codes' = [codes EXCEPT ![c] = [who |-> p, id |-> i, used |-> FALSE]]
  /\ Quiet
  /\ UNCHANGED <<kv, jar, req, clock, history>>

\* The provider's answer to a code, mutated: a refusal is not noticed.
RefusalIgnored(c) == codes[c] # None

\* The provider exchanges a code once.
Exchangeable(c) == codes[c] # None /\ ~codes[c].used

\* exchangeCode: the code for a token, which names the person.
ExchangeCode(r) ==
  LET c == req[r].code
  IN /\ req[r].stage = "upstream"
     /\ c # None
     /\ Exchangeable(c)
     /\ codes' = [codes EXCEPT ![c].used = TRUE]
     /\ req' = [req EXCEPT ![r].stage = "token"]
     /\ Quiet
     /\ UNCHANGED <<kv, jar, clock, history>>

\* verifyIdToken accepts the token, and the session begins.
VerifyToken(r) ==
  LET p == codes[req[r].code].who
  IN /\ req[r].stage = "token"
     /\ req' = [req EXCEPT ![r].stage = "verified", ![r].session = NewSession(p)]
     /\ logins' = logins \cup
          {[browser |-> req[r].browser, who |-> p, at |-> clock]}
     /\ Quiet
     /\ UNCHANGED <<kv, jar, codes, clock, agreed, grants, spent, order, raced>>

\* A sign-in for a page ends with the session.
ReturnToPage(r) ==
  LET b == req[r].browser
  IN /\ req[r].stage = "verified"
     /\ kv[req[r].id].app = None
     /\ Receive(b, [jar[b] EXCEPT !.session = req[r].session])
     /\ req' = [req EXCEPT ![r] = Idle]
     /\ Quiet
     /\ UNCHANGED <<kv, codes, clock, history>>

\* completeAuthorization: the application gets its grant, the browser the
\* session.
CompleteAuthorization(r) ==
  LET b == req[r].browser
      a == kv[req[r].id].app
  IN /\ req[r].stage = "verified"
     /\ a # None
     /\ grants' = grants \cup {[app |-> a, who |-> req[r].session.who,
                                code |-> req[r].code]}
     /\ Receive(b, [jar[b] EXCEPT !.session = req[r].session])
     /\ req' = [req EXCEPT ![r] = Idle]
     /\ Quiet
     /\ UNCHANGED <<kv, codes, clock, agreed, logins, spent, order, raced>>

\* A request may end with a message in any call: the person cancelled the form
\* or the sign-in (after takeOnce, so the value is used up), the provider
\* refuses the code, its token is not accepted, an outage.
Fail(r) ==
  /\ req[r] # Idle
  /\ req' = [req EXCEPT ![r] = Idle]
  /\ Quiet
  /\ UNCHANGED <<kv, jar, codes, clock, history>>

Tick ==
  /\ clock < MaxTime
  /\ clock' = clock + 1
  /\ Quiet
  /\ UNCHANGED <<kv, jar, codes, req, history>>

Browse(b) ==
  \/ ServePage(b)
  \/ \E i \in Id : \/ StartBrowserSignIn(b, i)
                   \/ \E a \in App : SkipConsent(b, a, i) \/ ShowConsent(b, a, i)

Work(r) ==
  \/ \E b \in Browser, i \in Id, answer \in Answer : SubmitForm(r, b, i, answer)
  \/ \E b \in Browser, i \in Id, c \in Code \cup {None} : ReturnFromProvider(r, b, i, c)
  \/ DeleteTaken(r)
  \/ Refuse(r)
  \/ \E i \in Id : Agree(r, i)
  \/ ExchangeCode(r)
  \/ VerifyToken(r)
  \/ ReturnToPage(r)
  \/ CompleteAuthorization(r)
  \/ Fail(r)

Next ==
  \/ \E b \in Browser : Browse(b)
  \/ \E r \in Request : Work(r)
  \/ \E p \in Person, i \in Id, c \in Code : SignAtProvider(p, i, c)
  \/ Tick

Spec == Init /\ [][Next]_vars

-----------------------------------------------------------------------------
(* The inductive invariant *)

Stage == {"took", "consent", "upstream", "token", "verified"}

InProgress ==
  [stage: Stage, browser: Browser, id: Id, cookie: Seq(App),
   answer: Answer \cup {None}, code: Code \cup {None}, session: Session \cup {None}]

TypeOK ==
  /\ kv \in [Id -> Value \cup {None}]
  /\ jar \in [Browser -> [approved: Seq(App), session: Session \cup {None}]]
  /\ codes \in [Code -> CodeRow \cup {None}]
  /\ req \in [Request -> InProgress \cup {Idle}]
  /\ clock \in Nat \ {0}
  /\ agreed \subseteq Browser \X App
  /\ grants \subseteq [app: App, who: Person, code: Code]
  /\ logins \subseteq Page
  /\ spent \in [Id -> Nat]
  /\ served \in Page \cup {None}

Agreed(b) == {a \in App : <<b, a>> \in agreed}

\* A sign-in under way for an application comes from a browser that sent an
\* approval of it, and a value that was taken is deleted.
StoreOK ==
  \A i \in Id :
    /\ kv[i] = None => spent[i] = 0
    /\ kv[i] # None =>
         /\ kv[i].kind = "consent" => kv[i].app \in App
         /\ kv[i].kind = "upstream" => kv[i].app \in Agreed(kv[i].browser) \cup {None}
         /\ kv[i].deleted = spent[i]

\* Session s of browser b was made by a login.
FromLogin(b, s) ==
  \E l \in logins : l.browser = b /\ l.who = s.who /\ s.ends = l.at + SessionLife

CookiesOK ==
  \A b \in Browser :
    /\ Apps(jar[b].approved) \subseteq Agreed(b)
    /\ Len(jar[b].approved) <= MaxApproved
    /\ jar[b].session # None => FromLogin(b, jar[b].session)

Exchanged(r) == req[r].stage \in {"token", "verified"}

RequestOK(r) ==
  /\ kv[req[r].id] # None
  /\ req[r].stage # "took" =>
       req[r].stage = "consent" <=> kv[req[r].id].kind = "consent"
  /\ kv[req[r].id].kind = "consent" => req[r].answer \in Answer
  /\ Apps(req[r].cookie) \subseteq Agreed(req[r].browser)
  /\ req[r].code # None => codes[req[r].code] # None
  /\ Exchanged(r) => req[r].code # None /\ codes[req[r].code].used
  /\ req[r].stage = "verified" =>
       /\ req[r].session # None
       /\ req[r].session.who = codes[req[r].code].who
       /\ FromLogin(req[r].browser, req[r].session)

RequestsOK == \A r \in Request : req[r] # Idle => RequestOK(r)

GrantsOK ==
  \A g \in grants : /\ codes[g.code] # None
                    /\ codes[g.code].used
                    /\ codes[g.code].who = g.who

-----------------------------------------------------------------------------
(* Properties *)

\* No request reads a value Lag after another request that had taken it got
\* its delete done: a reused form or callback link comes to nothing, however
\* far the store's locations are apart.  (onceStore.ts takeOnce)
NoLateReuse ==
  \A r \in Request :
    req[r] = Idle /\ req'[r] # Idle /\ spent[req'[r].id] # 0
      => clock < spent[req'[r].id] + Lag
SpentStaysSpent == [][NoLateReuse]_vars

\* A code of the identity provider leads to one grant at most, and is never
\* exchanged by two requests, although both may have taken the state it came
\* with.  (handler.ts /callback)
OneUsePerSignIn ==
  /\ \A g, h \in grants : g.code = h.code => g = h
  /\ \A r, q \in Request :
       Exchanged(r) /\ Exchanged(q) /\ req[r].code = req[q].code => r = q
  /\ \A g \in grants, r \in Request : Exchanged(r) => req[r].code # g.code

\* The position of a's last approval among those the cookie was told of.
LastApproval(s, a) == CHOOSE i \in DOMAIN s :
  s[i] = a /\ \A j \in DOMAIN s : s[j] = a => j <= i

\* A browser's list holds applications approved in it, each once, in the
\* order of their last approvals and ending with the very last; and it lacks
\* none but those pushed out by MaxApproved later ones, unless two approvals
\* overlapped.  (cookies.ts approvedClientsCookie)
RemembersApprovals ==
  \A b \in Browser :
    LET list == jar[b].approved
        told == order[b]
    IN /\ Len(list) <= MaxApproved
       /\ Apps(list) \subseteq Apps(told)
       /\ told # << >> => list[Len(list)] = told[Len(told)]
       /\ \A i, j \in DOMAIN list :
            i < j /\ ~raced[b] => LastApproval(told, list[i]) < LastApproval(told, list[j])
       /\ \A i, j \in DOMAIN list : list[i] = list[j] => i = j
       /\ \A a \in Apps(told) \ Apps(list) : ~raced[b] =>
            /\ Len(list) = MaxApproved
            /\ \A i \in DOMAIN list : LastApproval(told, a) < LastApproval(told, list[i])

\* A page is served as somebody who signed in through this very browser less
\* than SessionLife ago.  (session.ts readSession)
ServedAsSignedIn ==
  served # None =>
    \E l \in logins : /\ l.browser = served.browser
                      /\ l.who = served.who
                      /\ served.at < l.at + SessionLife

\* A browser lists the applications whose forms it sent approved, a sign-in
\* for an application comes from such a browser, and a session from a login
\* there, while any browser may send the form shown in another one: what the
\* proofs rest on.  (handler.ts, cookies.ts)
SignInInv ==
  /\ TypeOK
  /\ StoreOK
  /\ CookiesOK
  /\ RequestsOK
  /\ GrantsOK
  /\ OneUsePerSignIn
  /\ ServedAsSignedIn

\* Who each code of the provider stands for, and the codes it exchanged.
Vouched == {cp \in Code \X Person : codes[cp[1]] # None /\ codes[cp[1]].who = cp[2]}
Used == {c \in Code : codes[c] # None /\ codes[c].used}

\* The consent pages shown: in which browser and for which application.
Shown ==
  {ba \in Browser \X App :
     \E i \in Id : /\ kv[i] # None
                  /\ kv[i].kind = "consent"
                  /\ <<kv[i].browser, kv[i].app>> = ba}

Promise == INSTANCE SignInPromise WITH
  shown <- Shown, vouched <- Vouched, spent <- Used, granted <- grants

\* Signing in implements its promise: a grant needs an approval that carries
\* the token of a consent page shown for the application, from whichever
\* browser sends it, and one unused sign-in at the provider.  (handler.ts)
ImplementsPromise == Promise!Spec
=============================================================================
