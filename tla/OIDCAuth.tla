------------------------------- MODULE OIDCAuth -------------------------------
(***************************************************************************)
(* auth.go: logins through an OpenID provider.  The server keeps nothing   *)
(* between requests; what ties a login together are cookies, read as the   *)
(* browser sent them and set when a response arrives.  Tabs of a browser   *)
(* share its cookies, and a callback address may be opened again, late or  *)
(* in another browser.  Random tokens are the number of their login;       *)
(* signed cookies cannot be made up.                                       *)
(***************************************************************************)
EXTENDS Naturals, FiniteSets

CONSTANTS Browser, User,
          Email,            \* Email[u]: as the provider spells it
          Lower(_),         \* trimmed and in lower case
          ConfiguredEmails, \* OIDCAllowedEmails; none means everyone
          Page,             \* values of return_to; Foreign is not a local path
          Foreign,
          ReturnTo,         \* ReturnTo[f]: those login f may come with
          LoginTTL,         \* 10 min: cookies of a login
          SessionTTL,       \* 8 h: defaultSessionTTL and defaultCookieMaxAge
          TokenLife,        \* lifetimes of ID tokens; 0 for one without expiry
          MaxLogins, MaxTime,
          MaxInFlight       \* requests a test instance has under way at once

None == 0           \* no cookie, and so no login
Nobody == "nobody"
Denied == "denied"  \* the provider sent the browser back without a code

ASSUME AuthAssumption ==
  /\ {LoginTTL, SessionTTL, MaxLogins, MaxTime, MaxInFlight} \subseteq Nat
  /\ TokenLife \subseteq Nat /\ Foreign \in Page
  /\ Nobody \notin Browser \cup User /\ Denied \notin User
  /\ Foreign # "/" /\ Foreign # "" /\ "" \notin Page
  /\ ReturnTo \in [1..MaxLogins -> SUBSET Page]

VARIABLES
  now,
  owner,        \* owner[f]: the browser that began login f
  page,         \* page[f]: the return_to it came with
  signedIn,     \* signedIn[f]: who signed in at the provider
  used,         \* used[f]: the provider has redeemed the code
  tokenEnd,     \* tokenEnd[f]: when the ID token expires, 0 if never
  cookies,      \* cookies[b]: those of the last login
  session,      \* session[b]: the session cookie
  landed,       \* landed[f]: where the browser was sent in the end
  net           \* requests and responses on their way

authVars == <<now, owner, page, signedIn, used, tokenEnd, cookies, session,
          landed, net>>

Login == 1..MaxLogins

NoCookies == [state |-> None, nonce |-> None, returnTo |-> "", expires |-> 0]
NoSession == [login |-> None, created |-> 0, expires |-> 0]

LoginCookies == [state : Login \cup {None}, nonce : Login \cup {None},
                 returnTo : Page \cup {"", "/"}, expires : 0..(MaxTime + LoginTTL)]

AuthTypeOK ==
  /\ now \in 0..MaxTime
  /\ owner \in [Login -> Browser \cup {Nobody}]
  /\ page \in [Login -> Page \cup {""}]
  /\ signedIn \in [Login -> User \cup {Nobody, Denied}]
  /\ used \in [Login -> BOOLEAN]
  /\ tokenEnd \in [Login -> Nat]
  /\ cookies \in [Browser -> LoginCookies]
  /\ \A b \in Browser : session[b].login \in Login \cup {None}
  /\ landed \in [Login -> (Page \ {Foreign}) \cup {"", "/"}]

AuthInit ==
  /\ now = 0
  /\ owner = [f \in Login |-> Nobody]
  /\ page = [f \in Login |-> ""]
  /\ signedIn = [f \in Login |-> Nobody]
  /\ used = [f \in Login |-> FALSE]
  /\ tokenEnd = [f \in Login |-> 0]
  /\ cookies = [b \in Browser |-> NoCookies]
  /\ session = [b \in Browser |-> NoSession]
  /\ landed = [f \in Login |-> ""]
  /\ net = {}

-----------------------------------------------------------------------------
MayRequest == Cardinality(net) < MaxInFlight

(* Mutant: any address is taken.                                           *)
sanitizeReturnToMutant(raw) == raw

sanitizeReturnTo(raw) == IF raw = Foreign THEN "" ELSE raw

OrRoot(p) == IF p = "" THEN "/" ELSE p

(* Mutant: a login without a return_to of its own keeps the cookie.        *)
ReturnCookieMutant(f) ==
  IF sanitizeReturnTo(page[f]) = "" THEN cookies[owner[f]].returnTo ELSE page[f]

ReturnCookie(f) == OrRoot(sanitizeReturnTo(page[f]))

handleLogin(b, p, f) ==
  /\ owner[f] = Nobody /\ MayRequest
  /\ \A g \in 1..(f - 1) : owner[g] # Nobody
  /\ owner' = [owner EXCEPT ![f] = b]
  /\ page' = [page EXCEPT ![f] = p]
  /\ net' = net \cup {[type |-> "login", to |-> b, login |-> f,
                       expires |-> now + LoginTTL]}
  /\ UNCHANGED <<now, signedIn, used, tokenEnd, cookies, session, landed>>

(* Mutant: a nonce that is there is used again.                            *)
NonceCookieMutant(f) ==
  IF cookies[owner[f]].nonce = None THEN f ELSE cookies[owner[f]].nonce

NonceCookie(f) == f

(* The browser takes the cookies and goes to the provider.                 *)
LoginArrives(m) ==
  /\ m.type = "login"
  /\ net' = net \ {m}
  /\ cookies' = [cookies EXCEPT ![m.to] =
                   [state |-> m.login, nonce |-> NonceCookie(m.login),
                    returnTo |-> ReturnCookie(m.login), expires |-> m.expires]]
  /\ UNCHANGED <<now, owner, page, signedIn, used, tokenEnd, session, landed>>

(* The provider: who signs in, or that nobody does.                        *)
SignIn(f, u) ==
  /\ owner[f] # Nobody /\ signedIn[f] = Nobody
  /\ \A m \in net : ~(m.type = "login" /\ m.login = f)
  /\ signedIn' = [signedIn EXCEPT ![f] = u]
  /\ UNCHANGED <<now, owner, page, used, tokenEnd, cookies, session, landed,
                 net>>

(* A browser opens the address the provider sent it to, or a copy of it.   *)
OpenCallback(b, f) ==
  /\ signedIn[f] # Nobody /\ MayRequest
  /\ net' = net \cup {[type |-> "callback", to |-> b, login |-> f,
                       state |-> cookies[b].state, nonce |-> cookies[b].nonce,
                       returnTo |-> cookies[b].returnTo]}
  /\ UNCHANGED <<now, owner, page, signedIn, used, tokenEnd, cookies, session,
                 landed>>

-----------------------------------------------------------------------------
(* handleCallback, up to the exchange of the code and after it.            *)

StateMatches(m) == m.state = m.login

(* renderCallbackError answers with a page and sets no cookie.             *)
(* Mutant: a failed login is cleaned up.                                   *)
callbackErrorMutant(m) ==
  /\ net' = net \ {m}
  /\ cookies' = [cookies EXCEPT ![m.to] = NoCookies]
  /\ UNCHANGED <<session, landed>>

callbackError(m) ==
  /\ net' = net \ {m}
  /\ UNCHANGED <<cookies, session, landed>>

handleCallback(m) ==
  /\ m.type = "callback"
  /\ IF StateMatches(m) /\ signedIn[m.login] # Denied
     THEN /\ net' = (net \ {m}) \cup
                    {[type |-> "exchange", to |-> m.to, login |-> m.login,
                      nonce |-> m.nonce, returnTo |-> m.returnTo]}
          /\ UNCHANGED <<cookies, session, landed>>
     ELSE callbackError(m)
  /\ UNCHANGED <<now, owner, page, signedIn, used, tokenEnd>>

(* The code was redeemed before, the provider cannot be reached, answers   *)
(* without a good token, or its answer is lost.  Whether it takes the code *)
(* for redeemed then makes no difference: trying again may fail anyway.    *)
ExchangeFails(m) ==
  /\ m.type = "exchange"
  /\ callbackError(m)
  /\ UNCHANGED <<now, owner, page, signedIn, used, tokenEnd>>

AllowedEmails == {Lower(e) : e \in ConfiguredEmails}

(* Mutant: an address that is not configured is only logged.               *)
isAllowedEmailMutant(e) == TRUE

isAllowedEmail(e) == AllowedEmails = {} \/ Lower(e) \in AllowedEmails

(* Mutant: every session lasts as long as the configuration says.          *)
expiresAtMutant(life) == now + SessionTTL

expiresAt(life) == IF life = 0 THEN now + SessionTTL ELSE now + life

(* The token is the one of this login: the nonce is compared, the user     *)
(* looked up, and the session written.                                     *)
ExchangeReplies(m, life) ==
  /\ m.type = "exchange"
  /\ ~used[m.login]
  /\ used' = [used EXCEPT ![m.login] = TRUE]
  /\ tokenEnd' = [tokenEnd EXCEPT ![m.login] = IF life = 0 THEN 0 ELSE now + life]
  /\ IF m.nonce = m.login /\ isAllowedEmail(Email[signedIn[m.login]])
     THEN /\ net' = (net \ {m}) \cup
                    {[type |-> "session", to |-> m.to, login |-> m.login,
                      created |-> now, expires |-> expiresAt(life),
                      returnTo |-> OrRoot(sanitizeReturnTo(m.returnTo))]}
          /\ UNCHANGED <<cookies, session, landed>>
     ELSE callbackError(m)
  /\ UNCHANGED <<now, owner, page, signedIn>>

(* The response sets the session, clears the others and redirects.         *)
SessionArrives(m) ==
  /\ m.type = "session"
  /\ net' = net \ {m}
  /\ session' = [session EXCEPT ![m.to] = [login |-> m.login, created |-> m.created,
                                           expires |-> m.expires]]
  /\ cookies' = [cookies EXCEPT ![m.to] = NoCookies]
  /\ landed' = [landed EXCEPT ![m.login] = m.returnTo]
  /\ UNCHANGED <<now, owner, page, signedIn, used, tokenEnd>>

-----------------------------------------------------------------------------
(* Any request for /auth/logout, with or without a session.  Logouts of a  *)
(* browser that are under way together count as one.                       *)
handleLogout(b) ==
  /\ MayRequest
  /\ net' = net \cup {[type |-> "logout", to |-> b]}
  /\ UNCHANGED <<now, owner, page, signedIn, used, tokenEnd, cookies, session,
                 landed>>

LogoutArrives(m) ==
  /\ m.type = "logout"
  /\ net' = net \ {m}
  /\ session' = [session EXCEPT ![m.to] = NoSession]
  /\ cookies' = [cookies EXCEPT ![m.to] = NoCookies]
  /\ UNCHANGED <<now, owner, page, signedIn, used, tokenEnd, landed>>

(* Browsers drop cookies when their time is over, each on its own, or some *)
(* time later: clocks differ.                                              *)
CookieDropped(b, c) ==
  /\ cookies[b].state # None \/ cookies[b].nonce # None
  /\ now >= cookies[b].expires
  /\ cookies' = [cookies EXCEPT ![b][c] = NoCookies[c]]
  /\ UNCHANGED <<now, owner, page, signedIn, used, tokenEnd, session, landed,
                 net>>

Tick ==
  /\ now < MaxTime
  /\ now' = now + 1
  /\ UNCHANGED <<owner, page, signedIn, used, tokenEnd, cookies, session,
                 landed, net>>

(* Middleware and readSession: a request to the API that is let through.   *)
(* securecookie refuses what was encoded more than MaxAge ago.             *)
readSession(b) ==
  /\ session[b] # NoSession
  /\ now <= session[b].created + SessionTTL
  /\ now <= session[b].expires

-----------------------------------------------------------------------------
Server(m) ==
  \/ handleCallback(m) \/ ExchangeFails(m)
  \/ \E life \in TokenLife : ExchangeReplies(m, life)

Arrives(m) == LoginArrives(m) \/ SessionArrives(m) \/ LogoutArrives(m)

AuthNext ==
  \/ \E b \in Browser, f \in Login : \E p \in ReturnTo[f] : handleLogin(b, p, f)
  \/ \E f \in Login, u \in User \cup {Denied} : SignIn(f, u)
  \/ \E b \in Browser, f \in Login : OpenCallback(b, f)
  \/ \E b \in Browser : handleLogout(b)
  \/ \E b \in Browser, c \in {"state", "nonce", "returnTo"} : CookieDropped(b, c)
  \/ \E m \in net : Server(m) \/ Arrives(m)
  \/ Tick

AuthSpec == AuthInit /\ [][AuthNext]_authVars

-----------------------------------------------------------------------------
(* A session is that of somebody who signed in, in a login this browser    *)
(* began, under an address that is configured: whatever callback is opened *)
(* where, how often and with whichever cookies.                            *)
SessionIsOwn ==
  \A b \in Browser : LET f == session[b].login IN f # None =>
    /\ owner[f] = b
    /\ signedIn[f] \in User
    /\ ConfiguredEmails # {} =>
         \E e \in ConfiguredEmails : Lower(e) = Lower(Email[signedIn[f]])

(* No request is let through when the ID token behind its session has      *)
(* expired, whatever cookies a browser with a slow clock still sends.      *)
WithinToken ==
  \A b \in Browser : LET f == session[b].login IN
    readSession(b) /\ tokenEnd[f] # 0 => now <= tokenEnd[f]

(* State and nonce cookies always belong to the same login, so that a      *)
(* callback with the right state never fails for a nonce of another tab's  *)
(* login.                                                                  *)
LoginsNotMixed ==
  /\ \A b \in Browser : {cookies[b].state, cookies[b].nonce} \subseteq Login =>
       cookies[b].state = cookies[b].nonce
  /\ \A m \in net : m.type = "exchange" => m.nonce \in {m.login, None}

(* After a login the browser is on the page that login came from, or on    *)
(* "/", never on that of another tab or on another site.                   *)
LandsOnOwnPage ==
  \A f \in Login : landed[f] \in {"", "/", page[f]} \ {Foreign}

(* A browser has one set of login cookies, so the login it began last      *)
(* takes them over, and a login that finishes, or a logout, clears those   *)
(* of another tab.  Nothing else does before their time is over: not a     *)
(* callback that fails, is opened again or belongs to another login, and   *)
(* nothing another browser does.                                           *)
EndedByOwnActs ==
  \A b \in Browser : LET f == cookies[b].state
                         g == cookies'[b].state
                         s == session'[b]
                     IN f # None /\ g # f =>
    \/ now >= cookies[b].expires
    \/ g # None /\ owner[g] = b
    \/ s # session[b] /\ s.login # None /\ owner[s.login] = b
    \/ [type |-> "logout", to |-> b] \in net \ net'

(* Logins of several tabs and browsers are not confused: the cookies of    *)
(* one stay together, it lands on its own page, and only the browser's own *)
(* logins, sessions and logouts end it.                                    *)
LoginsNotConfused ==
  [][LoginsNotMixed' /\ LandsOnOwnPage' /\ EndedByOwnActs]_authVars

(* Whose session it is, and for how long.                                  *)
SessionIsRightful == SessionIsOwn /\ WithinToken
=============================================================================
