---------------------------- MODULE OIDCAuthProofs ----------------------------
(***************************************************************************)
(* Sessions and tabs of OIDCAuth, for any number of browsers, tabs, users, *)
(* logins and requests under way.  What a browser sends or is sent says    *)
(* where it comes from: the invariant follows the cookies of a login along *)
(* its requests.                                                           *)
(***************************************************************************)
EXTENDS OIDCAuth, TLAPS

(* Cookies of browser b, or a request that carries them, come from one     *)
(* login of b.                                                             *)
Belongs(b, c) ==
  /\ c.state \in Login \cup {None}
  /\ c.nonce \in Login \cup {None}
  /\ c.returnTo \in Page \cup {"", "/"}
  /\ c.state # None => /\ owner[c.state] = b
                       /\ c.nonce \in {c.state, None}
                       /\ c.returnTo \in {"", "/", page[c.state]} \ {Foreign}

(* Who may have a session for login f.                                     *)
Rightful(b, f) ==
  /\ owner[f] = b
  /\ signedIn[f] \in User
  /\ isAllowedEmail(Email[signedIn[f]])

(* A session of login f that ends at t ends with its token.                *)
EndsInTime(f, t) == used[f] /\ (tokenEnd[f] # 0 => t = tokenEnd[f])

(* The redirect to the provider, on its way to the browser that asked.     *)
LoginMsg(m) ==
  /\ m.to \in Browser /\ m.login \in Login
  /\ m.expires \in 0..(MaxTime + LoginTTL)
  /\ owner[m.login] = m.to

(* A callback carries cookies of the browser's.                            *)
CallbackMsg(m) ==
  /\ m.to \in Browser /\ m.login \in Login
  /\ signedIn[m.login] # Nobody
  /\ Belongs(m.to, m)

(* A callback whose state matched is exchanged for the login of its own    *)
(* browser.                                                                *)
ExchangeMsg(m) ==
  /\ m.to \in Browser /\ m.login \in Login
  /\ owner[m.login] = m.to
  /\ signedIn[m.login] \in User
  /\ m.nonce \in {m.login, None}
  /\ m.returnTo \in {"", "/", page[m.login]} \ {Foreign}

(* A session on its way belongs to a rightful user of that browser, who    *)
(* has it nowhere else.                                                    *)
SessionMsg(m) ==
  /\ m.to \in Browser /\ m.login \in Login
  /\ m.created \in Nat /\ m.expires \in Nat
  /\ Rightful(m.to, m.login)
  /\ EndsInTime(m.login, m.expires)
  /\ m.returnTo \in {"/", page[m.login]} \ {Foreign}
  /\ \A b \in Browser : session[b].login # m.login

(* The response to a logout.                                               *)
LogoutMsg(m) ==
  \E b \in Browser : m = [type |-> "logout", to |-> b]

(* Where every message comes from.                                         *)
MsgInv(m) ==
  /\ m.type \in {"login", "callback", "exchange", "session", "logout"}
  /\ m.type = "login" => LoginMsg(m)
  /\ m.type = "callback" => CallbackMsg(m)
  /\ m.type = "exchange" => ExchangeMsg(m)
  /\ m.type = "session" => SessionMsg(m)
  /\ m.type = "logout" => LogoutMsg(m)

(* A code is redeemed once, so one response carries its session.           *)
OneSession ==
  \A m, n \in net :
    m.type = "session" /\ n.type = "session" /\ m.login = n.login => m = n

(* The session a browser has.                                              *)
SessionInv(b) ==
  /\ session[b] \in [login : Login \cup {None}, created : Nat, expires : Nat]
  /\ session[b].login = None => session[b] = NoSession
  /\ session[b].login # None => /\ Rightful(b, session[b].login)
                                /\ EndsInTime(session[b].login, session[b].expires)

(* A login that has landed did so on its own page or the root, never on a  *)
(* foreign one.                                                            *)
LoginInv(f) ==
  /\ IF owner[f] = Nobody THEN landed[f] = "" ELSE page[f] \in Page
  /\ landed[f] \in {"", "/", page[f]} \ {Foreign}

(* The inductive invariant.                                                *)
AuthInv ==
  /\ AuthTypeOK
  /\ session \in [Browser -> [login : Login \cup {None}, created : Nat, expires : Nat]]
  /\ \A b \in Browser : Belongs(b, cookies[b]) /\ SessionInv(b)
  /\ \A f \in Login : LoginInv(f)
  /\ \A m \in net : MsgInv(m)
  /\ OneSession
-----------------------------------------------------------------------------
(* What is known of a login is never changed again.                        *)
Grows ==
  /\ \A f \in Login : owner[f] # Nobody => owner'[f] = owner[f] /\ page'[f] = page[f]
  /\ \A f \in Login : signedIn[f] # Nobody => signedIn'[f] = signedIn[f]
  /\ \A f \in Login : used[f] => used'[f] /\ tokenEnd'[f] = tokenEnd[f]

(* No step changes what is known of a login.                               *)
LEMMA StepGrows ==
  ASSUME AuthTypeOK, \A m \in net : MsgInv(m), [AuthNext]_authVars
  PROVE  Grows
<1> USE DEF AuthTypeOK, Grows
<1>1. ASSUME NEW b \in Browser, NEW f \in Login, NEW p \in ReturnTo[f], handleLogin(b, p, f)
      PROVE  Grows
  BY <1>1 DEF handleLogin
<1>2. ASSUME NEW f \in Login, NEW u \in User \cup {Denied}, SignIn(f, u)
      PROVE  Grows
  BY <1>2 DEF SignIn
<1>3. ASSUME NEW m \in net, NEW life \in TokenLife, ExchangeReplies(m, life)
      PROVE  Grows
  <2>1. m.login \in Login
    BY <1>3 DEF ExchangeReplies, MsgInv, ExchangeMsg
  <2> QED BY <1>3, <2>1 DEF ExchangeReplies
<1>4. ASSUME UNCHANGED <<owner, page, signedIn, used, tokenEnd>>
      PROVE  Grows
  BY <1>4
<1> QED BY <1>1, <1>2, <1>3, <1>4
        DEF AuthNext, OpenCallback, handleLogout, CookieDropped, Server, Arrives,
            handleCallback, ExchangeFails, LoginArrives, SessionArrives, LogoutArrives, Tick,
            authVars

(* Browsers and users are not the values for none.                         *)
LEMMA NobodyElse ==
  /\ \A b \in Browser : b # Nobody
  /\ \A u \in User : u # Nobody /\ u # Denied
BY AuthAssumption

(* So cookies and messages stay what they were.                            *)
LEMMA BelongsKept ==
  ASSUME AuthTypeOK, Grows, NEW b \in Browser, NEW c, Belongs(b, c)
  PROVE  Belongs(b, c)'
<1>1. CASE c.state = None
  BY <1>1 DEF Belongs
<1>2. CASE c.state # None
  <2>1. c.state \in Login /\ owner[c.state] # Nobody
    BY <1>2, NobodyElse DEF Belongs
  <2>2. owner'[c.state] = owner[c.state] /\ page'[c.state] = page[c.state]
    BY <2>1 DEF Grows
  <2> QED BY <2>2 DEF Belongs
<1> QED BY <1>1, <1>2

(* See BelongsKept: messages, unless their session is there already.       *)
LEMMA MsgKept ==
  ASSUME AuthTypeOK, Grows, NEW m \in net, MsgInv(m),
         m.type = "session" => \A b \in Browser : session'[b].login # m.login
  PROVE  MsgInv(m)'
<1>1. CASE m.type = "login"
  <2>1. LoginMsg(m) /\ owner[m.login] # Nobody
    BY <1>1, NobodyElse DEF MsgInv, LoginMsg
  <2> QED BY <1>1, <2>1 DEF MsgInv, LoginMsg, Grows
<1>2. CASE m.type = "callback"
  <2>1. CallbackMsg(m) /\ Belongs(m.to, m)'
    BY <1>2, BelongsKept DEF MsgInv, CallbackMsg
  <2> QED BY <1>2, <2>1 DEF MsgInv, CallbackMsg, Grows
<1>3. CASE m.type = "exchange"
  <2>1. ExchangeMsg(m) /\ owner[m.login] # Nobody /\ signedIn[m.login] # Nobody
    BY <1>3, NobodyElse DEF MsgInv, ExchangeMsg
  <2> QED BY <1>3, <2>1 DEF MsgInv, ExchangeMsg, Grows
<1>4. CASE m.type = "session"
  <2>1. SessionMsg(m) /\ owner[m.login] # Nobody /\ signedIn[m.login] # Nobody
    BY <1>4, NobodyElse DEF MsgInv, SessionMsg, Rightful
  <2>2. SessionMsg(m)'
    BY <1>4, <2>1 DEF SessionMsg, Rightful, EndsInTime, isAllowedEmail, Grows
  <2> QED BY <1>4, <2>2 DEF MsgInv
<1>5. CASE m.type = "logout"
  BY <1>5 DEF MsgInv, LogoutMsg
<1> QED BY <1>1, <1>2, <1>3, <1>4, <1>5 DEF MsgInv

(* See BelongsKept: a session that stays.                                  *)
LEMMA SessionKept ==
  ASSUME AuthTypeOK, Grows, NEW b \in Browser, SessionInv(b), session'[b] = session[b]
  PROVE  SessionInv(b)'
<1>1. session[b].login # None =>
        /\ session[b].login \in Login
        /\ owner[session[b].login] # Nobody /\ signedIn[session[b].login] # Nobody
  BY NobodyElse DEF SessionInv, Rightful
<1> QED BY <1>1 DEF SessionInv, Rightful, EndsInTime, isAllowedEmail, Grows

-----------------------------------------------------------------------------
(* A browser without cookies.                                              *)
LEMMA NoCookiesTyped == NoCookies \in LoginCookies
<1>1. MaxTime \in Nat /\ LoginTTL \in Nat
  BY AuthAssumption
<1>2. 0 \in 0..(MaxTime + LoginTTL)
  BY <1>1
<1> QED BY <1>2 DEF NoCookies, LoginCookies

(* Every step of browsers, provider and server keeps the invariant.        *)
LEMMA AuthInvStep == AuthInv /\ [AuthNext]_authVars => AuthInv'
<1> SUFFICES ASSUME AuthInv, [AuthNext]_authVars
             PROVE  AuthInv'
  OBVIOUS
<1>1. /\ AuthTypeOK /\ OneSession
      /\ session \in [Browser -> [login : Login \cup {None}, created : Nat, expires : Nat]]
      /\ \A b \in Browser : Belongs(b, cookies[b]) /\ SessionInv(b)
      /\ \A f \in Login : LoginInv(f)
      /\ \A m \in net : MsgInv(m)
  BY DEF AuthInv
<1>2. Grows
  BY <1>1, StepGrows
<1>3. ASSUME UNCHANGED session
      PROVE  /\ \A m \in net : MsgInv(m)'
             /\ \A b \in Browser : SessionInv(b)'
             /\ session' \in [Browser -> [login : Login \cup {None}, created : Nat,
                                          expires : Nat]]
  <2>1. ASSUME NEW m \in net PROVE MsgInv(m)'
    <3>1. m.type = "session" => \A b \in Browser : session[b].login # m.login
      BY <1>1 DEF MsgInv, SessionMsg
    <3> QED BY <1>1, <1>2, <1>3, <3>1, MsgKept
  <2>2. ASSUME NEW b \in Browser PROVE SessionInv(b)'
    BY <1>1, <1>2, <1>3, SessionKept
  <2> QED BY <1>1, <1>3, <2>1, <2>2
<1>4. ASSUME NEW b \in Browser, cookies'[b] = cookies[b]
      PROVE  Belongs(b, cookies[b])'
  <2>1. \A c : Belongs(b, c) => Belongs(b, c)'
    BY <1>1, <1>2, BelongsKept
  <2> QED BY <1>1, <1>4, <2>1 DEF Belongs
<1>5. ASSUME NEW f \in Login, owner'[f] = owner[f], page'[f] = page[f], landed'[f] = landed[f]
      PROVE  LoginInv(f)'
  BY <1>1, <1>5 DEF LoginInv
<1>6. ASSUME NEW n, net' \subseteq net \cup {n}, n.type # "session"
      PROVE  OneSession'
  BY <1>1, <1>6 DEF OneSession
<1>7. ASSUME net' \subseteq net
      PROVE  OneSession'
  BY <1>1, <1>7 DEF OneSession
<1>8. ASSUME NEW b \in Browser, NEW f \in Login, NEW p \in ReturnTo[f], handleLogin(b, p, f)
      PROVE  AuthInv'
  <2>1. p \in Page
    BY AuthAssumption DEF Login
  <2>2. /\ owner'[f] = b /\ page'[f] = p /\ landed[f] = ""
        /\ UNCHANGED <<now, signedIn, used, tokenEnd, cookies, session, landed>>
    BY <1>1, <1>8 DEF handleLogin, AuthTypeOK, LoginInv
  <2>n. PICK n : /\ n = [type |-> "login", to |-> b, login |-> f, expires |-> now + LoginTTL]
                 /\ net' = net \cup {n}
    BY <1>8 DEF handleLogin
  <2>3. AuthTypeOK'
    BY <1>1, <1>8, <2>1 DEF handleLogin, AuthTypeOK
  <2>4. MsgInv(n)'
    <3>1. now \in 0..MaxTime /\ MaxTime \in Nat /\ LoginTTL \in Nat
      BY <1>1, AuthAssumption DEF AuthTypeOK
    <3>2. now + LoginTTL \in 0..(MaxTime + LoginTTL)
      BY <3>1
    <3>3. n.type = "login" /\ n.to = b /\ n.login = f /\ n.expires = now + LoginTTL
      BY <2>n
    <3>4. now' = now /\ owner'[f] = b
      BY <2>2
    <3> QED BY <3>2, <3>3, <3>4 DEF MsgInv, LoginMsg
  <2>5. ASSUME NEW g \in Login PROVE LoginInv(g)'
    <3>1. CASE g = f
      BY <2>1, <2>2, <3>1, AuthAssumption DEF LoginInv
    <3>2. CASE g # f
      <4>1. owner'[g] = owner[g] /\ page'[g] = page[g] /\ landed'[g] = landed[g]
        BY <1>1, <1>8, <3>2 DEF handleLogin, AuthTypeOK
      <4> QED BY <1>5, <4>1
    <3> QED BY <3>1, <3>2
  <2>6. OneSession'
    <3>1. n.type # "session" /\ net' \subseteq net \cup {n}
      BY <2>n
    <3> QED BY <1>6, <3>1
  <2>7. (\A m \in net : MsgInv(m))'
    BY <1>3, <2>2, <2>n, <2>4
  <2>8. \A a \in Browser : Belongs(a, cookies[a])'
    BY <1>4, <2>2
  <2> QED BY <1>3, <2>2, <2>3, <2>5, <2>6, <2>7, <2>8 DEF AuthInv
<1>9. ASSUME NEW m \in net, LoginArrives(m)
      PROVE  AuthInv'
  <2>1. /\ m.to \in Browser /\ m.login \in Login /\ owner[m.login] = m.to
        /\ m.expires \in 0..(MaxTime + LoginTTL)
    BY <1>1, <1>9 DEF LoginArrives, MsgInv, LoginMsg
  <2>2. /\ net' \subseteq net
        /\ UNCHANGED <<now, owner, page, signedIn, used, tokenEnd, session, landed>>
    BY <1>9 DEF LoginArrives
  <2>3. page[m.login] \in Page
    BY <1>1, <2>1, NobodyElse DEF LoginInv
  <2>4. /\ ReturnCookie(m.login) \in {"/", page[m.login]} \ {Foreign}
        /\ ReturnCookie(m.login) \in Page \cup {"", "/"}
    BY <2>3, AuthAssumption DEF ReturnCookie, OrRoot, sanitizeReturnTo
  <2>5. /\ cookies' \in [Browser -> LoginCookies]
        /\ cookies'[m.to].state = m.login /\ cookies'[m.to].nonce = m.login
        /\ cookies'[m.to].returnTo = ReturnCookie(m.login)
        /\ \A b \in Browser \ {m.to} : cookies'[b] = cookies[b]
    BY <1>1, <1>9, <2>1, <2>4 DEF LoginArrives, NonceCookie, AuthTypeOK, LoginCookies
  <2>6. AuthTypeOK'
    BY <1>1, <2>2, <2>5 DEF AuthTypeOK
  <2>7. ASSUME NEW b \in Browser PROVE Belongs(b, cookies[b])'
    <3>1. CASE b = m.to
      BY <2>1, <2>2, <2>4, <2>5, <3>1 DEF Belongs
    <3>2. CASE b # m.to
      BY <1>4, <2>5, <3>2
    <3> QED BY <3>1, <3>2
  <2>8. \A f \in Login : LoginInv(f)'
    BY <1>5, <2>2
  <2> QED BY <1>3, <1>7, <2>2, <2>6, <2>7, <2>8 DEF AuthInv
<1>10. ASSUME NEW f \in Login, NEW u \in User \cup {Denied}, SignIn(f, u)
       PROVE  AuthInv'
  <2>1. AuthTypeOK' /\ UNCHANGED <<owner, page, cookies, session, landed, net>>
    BY <1>1, <1>10 DEF SignIn, AuthTypeOK
  <2> QED BY <1>3, <1>4, <1>5, <1>7, <2>1 DEF AuthInv
<1>11. ASSUME NEW b \in Browser, NEW f \in Login, OpenCallback(b, f)
       PROVE  AuthInv'
  <2>n. PICK n : /\ n = [type |-> "callback", to |-> b, login |-> f,
                          state |-> cookies[b].state, nonce |-> cookies[b].nonce,
                          returnTo |-> cookies[b].returnTo]
                 /\ net' = net \cup {n}
    BY <1>11 DEF OpenCallback
  <2>1. /\ signedIn[f] # Nobody
        /\ UNCHANGED <<now, owner, page, signedIn, used, tokenEnd, cookies, session, landed>>
    BY <1>11 DEF OpenCallback
  <2>2. n.type = "callback" /\ n.to = b /\ n.login = f /\ n.state = cookies[b].state
        /\ n.nonce = cookies[b].nonce /\ n.returnTo = cookies[b].returnTo
    BY <2>n
  <2>3. Belongs(b, cookies[b])
    BY <1>1
  <2>4. AuthTypeOK'
    BY <1>1, <2>1 DEF AuthTypeOK
  <2>5. MsgInv(n)'
    BY <2>1, <2>2, <2>3 DEF MsgInv, CallbackMsg, Belongs
  <2>6. (\A m \in net : MsgInv(m))'
    BY <1>3, <2>n, <2>1, <2>5
  <2>7. OneSession'
    <3>1. n.type # "session" /\ net' \subseteq net \cup {n}
      BY <2>n
    <3> QED BY <1>6, <3>1
  <2> QED BY <1>3, <1>4, <1>5, <2>1, <2>4, <2>6, <2>7 DEF AuthInv
<1>12. ASSUME NEW m \in net, callbackError(m), UNCHANGED <<now, owner, page, signedIn>>, AuthTypeOK'
       PROVE  AuthInv'
  <2>1. net' \subseteq net /\ UNCHANGED <<owner, page, cookies, session, landed>>
    BY <1>12 DEF callbackError
  <2> QED BY <1>3, <1>4, <1>5, <1>7, <1>12, <2>1 DEF AuthInv
<1>13. ASSUME NEW m \in net, handleCallback(m)
       PROVE  AuthInv'
  <2>1. m.type = "callback" /\ UNCHANGED <<now, owner, page, signedIn, used, tokenEnd>>
    BY <1>13 DEF handleCallback
  <2>2. UNCHANGED <<cookies, session, landed>> /\ AuthTypeOK'
    BY <1>1, <1>13 DEF handleCallback, callbackError, AuthTypeOK
  <2>3. ASSUME StateMatches(m), signedIn[m.login] # Denied
        PROVE  AuthInv'
    <3>1. PICK n : /\ n = [type |-> "exchange", to |-> m.to, login |-> m.login,
                            nonce |-> m.nonce, returnTo |-> m.returnTo]
                   /\ net' = (net \ {m}) \cup {n}
      BY <1>13, <2>3 DEF handleCallback
    <3>2. n.type = "exchange" /\ n.to = m.to /\ n.login = m.login /\ n.nonce = m.nonce
          /\ n.returnTo = m.returnTo
      BY <3>1
    <3>3. CallbackMsg(m) /\ m.state = m.login /\ m.login # None
      BY <1>1, <2>1, <2>3 DEF MsgInv, CallbackMsg, StateMatches, Login, None
    <3>4. signedIn[m.login] \in User
      BY <1>1, <2>3, <3>3 DEF AuthTypeOK, CallbackMsg
    <3>5. MsgInv(n)'
      BY <2>1, <3>2, <3>3, <3>4 DEF MsgInv, CallbackMsg, ExchangeMsg, Belongs
    <3>6. (\A k \in net : MsgInv(k))'
      BY <1>3, <2>2, <3>1, <3>5
    <3>7. OneSession'
      <4>1. n.type # "session" /\ net' \subseteq net \cup {n}
        BY <3>1
      <4> QED BY <1>6, <4>1
    <3> QED BY <1>3, <1>4, <1>5, <2>1, <2>2, <3>6, <3>7 DEF AuthInv
  <2> QED BY <1>12, <1>13, <2>1, <2>2, <2>3 DEF handleCallback
<1>14. ASSUME NEW m \in net, ExchangeFails(m)
       PROVE  AuthInv'
  <2>1. callbackError(m) /\ UNCHANGED <<now, owner, page, signedIn>> /\ AuthTypeOK'
    BY <1>1, <1>14 DEF ExchangeFails, callbackError, AuthTypeOK
  <2> QED BY <1>12, <2>1
<1>15. ASSUME NEW m \in net, NEW life \in TokenLife, ExchangeReplies(m, life)
       PROVE  AuthInv'
  <2>1. /\ m.type = "exchange" /\ ExchangeMsg(m) /\ ~used[m.login]
        /\ UNCHANGED <<now, owner, page, signedIn, cookies, session, landed>>
    BY <1>1, <1>15 DEF ExchangeReplies, callbackError, MsgInv
  <2>2. /\ m.login \in Login /\ life \in Nat /\ now \in Nat /\ SessionTTL \in Nat
    <3>1. /\ now \in 0..MaxTime /\ MaxTime \in Nat /\ SessionTTL \in Nat
          /\ TokenLife \subseteq Nat /\ m.login \in Login
      BY <1>1, <2>1, AuthAssumption DEF ExchangeMsg, AuthTypeOK
    <3> QED BY <3>1
  <2>3. used'[m.login] /\ tokenEnd'[m.login] = IF life = 0 THEN 0 ELSE now + life
    BY <1>1, <1>15, <2>2 DEF ExchangeReplies, AuthTypeOK
  <2>4. AuthTypeOK'
    <3>1. (IF life = 0 THEN 0 ELSE now + life) \in Nat
      BY <2>2
    <3> QED BY <1>1, <1>15, <2>1, <2>2, <3>1 DEF ExchangeReplies, AuthTypeOK
  <2>5. ASSUME m.nonce = m.login, isAllowedEmail(Email[signedIn[m.login]])
        PROVE  AuthInv'
    <3>1. PICK n : /\ n = [type |-> "session", to |-> m.to, login |-> m.login,
                            created |-> now, expires |-> expiresAt(life),
                            returnTo |-> OrRoot(sanitizeReturnTo(m.returnTo))]
                   /\ net' = (net \ {m}) \cup {n}
      BY <1>15, <2>5 DEF ExchangeReplies
    <3>2. n.type = "session" /\ n.to = m.to /\ n.login = m.login /\ n.created = now
          /\ n.expires = expiresAt(life)
          /\ n.returnTo = OrRoot(sanitizeReturnTo(m.returnTo))
      BY <3>1
    <3>3. /\ expiresAt(life) \in Nat /\ used'[m.login]
          /\ tokenEnd'[m.login] # 0 => expiresAt(life) = tokenEnd'[m.login]
      BY <2>2, <2>3 DEF expiresAt
    <3>4. n.returnTo \in {"/", page[m.login]} \ {Foreign}
      BY <2>1, <3>2, AuthAssumption DEF ExchangeMsg, OrRoot, sanitizeReturnTo
    <3>5. \A b \in Browser : session[b].login # m.login
      BY <1>1, <2>1, <2>2 DEF SessionInv, EndsInTime, Login, None
    <3>6. Rightful(m.to, m.login)'
      BY <2>1, <2>5 DEF Rightful, ExchangeMsg, isAllowedEmail
    <3>7. SessionMsg(n)'
      <4>1. n.expires \in Nat /\ EndsInTime(n.login, n.expires)'
        BY <3>2, <3>3 DEF EndsInTime
      <4>2. Rightful(n.to, n.login)'
        BY <3>2, <3>6 DEF Rightful
      <4> QED BY <2>1, <2>2, <3>2, <3>4, <3>5, <4>1, <4>2 DEF SessionMsg, ExchangeMsg
    <3>8. (\A k \in net : MsgInv(k))'
      BY <1>3, <2>1, <3>1, <3>2, <3>7 DEF MsgInv
    <3>9. \A k \in net : k.type = "session" => k.login # m.login
      BY <1>1, <2>1 DEF MsgInv, SessionMsg, EndsInTime
    <3>10. OneSession'
      BY <1>1, <3>1, <3>2, <3>9 DEF OneSession
    <3> QED BY <1>3, <1>4, <1>5, <2>1, <2>4, <3>8, <3>10 DEF AuthInv
  <2> QED BY <1>12, <1>15, <2>1, <2>4, <2>5 DEF ExchangeReplies
<1>16. ASSUME NEW m \in net, SessionArrives(m)
       PROVE  AuthInv'
  <2>1. /\ m.type = "session" /\ SessionMsg(m) /\ net' = net \ {m}
        /\ UNCHANGED <<now, owner, page, signedIn, used, tokenEnd>>
    BY <1>1, <1>16 DEF SessionArrives, MsgInv
  <2>2. m.to \in Browser /\ m.login \in Login /\ m.login # None
    BY <2>1 DEF SessionMsg, Login, None
  <2>3. /\ session'[m.to] = [login |-> m.login, created |-> m.created, expires |-> m.expires]
        /\ cookies'[m.to] = NoCookies /\ landed'[m.login] = m.returnTo
        /\ \A b \in Browser \ {m.to} : session'[b] = session[b] /\ cookies'[b] = cookies[b]
        /\ \A f \in Login \ {m.login} : landed'[f] = landed[f]
    BY <1>1, <1>16, <2>2 DEF SessionArrives, AuthTypeOK
  <2>4. session' \in [Browser -> [login : Login \cup {None}, created : Nat, expires : Nat]]
    BY <1>1, <1>16, <2>1, <2>2 DEF SessionArrives, SessionMsg
  <2>5. page[m.login] \in Page
    BY <1>1, <2>1, <2>2, NobodyElse DEF LoginInv, SessionMsg, Rightful
  <2>7. AuthTypeOK'
    <3>1. m.returnTo \in (Page \ {Foreign}) \cup {"", "/"}
      BY <2>1, <2>5 DEF SessionMsg
    <3>2. \A b \in Browser : session'[b].login \in Login \cup {None}
      BY <2>4
    <3> QED BY <1>1, <1>16, <2>1, <3>1, <3>2, NoCookiesTyped DEF SessionArrives, AuthTypeOK
  <2>8. ASSUME NEW b \in Browser PROVE SessionInv(b)'
    <3>1. CASE b = m.to
      <4>1. session'[b].login = m.login /\ session'[b].expires = m.expires
        BY <2>3, <3>1
      <4>2. session'[b] \in [login : Login \cup {None}, created : Nat, expires : Nat]
        BY <2>4
      <4>3. Rightful(b, session[b].login)'
        BY <2>1, <3>1, <4>1 DEF SessionMsg, Rightful, isAllowedEmail
      <4>4. EndsInTime(session[b].login, session[b].expires)'
        BY <2>1, <4>1 DEF SessionMsg, EndsInTime
      <4> QED BY <2>2, <4>1, <4>2, <4>3, <4>4 DEF SessionInv
    <3>2. CASE b # m.to
      BY <1>1, <1>2, <2>3, <3>2, SessionKept
    <3> QED BY <3>1, <3>2
  <2>9. ASSUME NEW b \in Browser PROVE Belongs(b, cookies[b])'
    <3>1. CASE b = m.to
      <4>1. cookies'[b] = NoCookies
        BY <2>3, <3>1
      <4>2. NoCookies.state = None /\ NoCookies.nonce = None /\ NoCookies.returnTo = ""
        BY DEF NoCookies
      <4> QED BY <4>1, <4>2 DEF Belongs
    <3>2. CASE b # m.to
      BY <1>4, <2>3, <3>2
    <3> QED BY <3>1, <3>2
  <2>10. ASSUME NEW f \in Login PROVE LoginInv(f)'
    <3>1. CASE f = m.login
      <4>1. owner[f] # Nobody
        BY <2>1, <3>1, NobodyElse DEF SessionMsg, Rightful
      <4> QED BY <2>1, <2>3, <2>5, <3>1, <4>1 DEF LoginInv, SessionMsg
    <3>2. CASE f # m.login
      BY <1>5, <2>1, <2>3, <3>2
    <3> QED BY <3>1, <3>2
  <2>11. ASSUME NEW k \in net' PROVE MsgInv(k)'
    <3>1. k \in net /\ k # m /\ MsgInv(k)
      BY <1>1, <2>1
    <3>2. k.type = "session" => k.login # m.login
      BY <1>1, <2>1, <3>1 DEF OneSession
    <3>3. k.type = "session" => \A b \in Browser : session'[b].login # k.login
      <4>1. k.type = "session" => \A b \in Browser : session[b].login # k.login
        BY <3>1 DEF MsgInv, SessionMsg
      <4> QED BY <2>3, <3>2, <4>1
    <3> QED BY <1>1, <1>2, <3>1, <3>3, MsgKept
  <2>12. (\A k \in net : MsgInv(k))' /\ OneSession'
    BY <1>7, <2>1, <2>11
  <2> QED BY <2>4, <2>7, <2>8, <2>9, <2>10, <2>12 DEF AuthInv
<1>17. ASSUME NEW m \in net, LogoutArrives(m)
       PROVE  AuthInv'
  <2>1. m.type = "logout" /\ net' = net \ {m}
        /\ UNCHANGED <<now, owner, page, signedIn, used, tokenEnd, landed>>
    BY <1>17 DEF LogoutArrives
  <2>2. m.to \in Browser /\ m = [type |-> "logout", to |-> m.to]
    BY <1>1, <2>1 DEF MsgInv, LogoutMsg
  <2>3. /\ session'[m.to] = NoSession /\ cookies'[m.to] = NoCookies
        /\ \A b \in Browser \ {m.to} : session'[b] = session[b] /\ cookies'[b] = cookies[b]
    BY <1>1, <1>17, <2>2 DEF LogoutArrives, AuthTypeOK
  <2>4. NoSession \in [login : Login \cup {None}, created : Nat, expires : Nat]
    BY DEF NoSession
  <2>5. session' \in [Browser -> [login : Login \cup {None}, created : Nat, expires : Nat]]
    BY <1>1, <1>17, <2>4 DEF LogoutArrives
  <2>6. AuthTypeOK'
    <3>1. \A b \in Browser : session'[b].login \in Login \cup {None}
      BY <2>5
    <3> QED BY <1>1, <1>17, <2>1, <3>1, NoCookiesTyped DEF LogoutArrives, AuthTypeOK
  <2>7. ASSUME NEW b \in Browser PROVE SessionInv(b)'
    <3>1. CASE b = m.to
      BY <2>3, <2>4, <3>1 DEF SessionInv, NoSession
    <3>2. CASE b # m.to
      BY <1>1, <1>2, <2>3, <3>2, SessionKept
    <3> QED BY <3>1, <3>2
  <2>8. ASSUME NEW b \in Browser PROVE Belongs(b, cookies[b])'
    <3>1. CASE b = m.to
      <4>1. cookies'[b] = NoCookies
        BY <2>3, <3>1
      <4>2. NoCookies.state = None /\ NoCookies.nonce = None /\ NoCookies.returnTo = ""
        BY DEF NoCookies
      <4> QED BY <4>1, <4>2 DEF Belongs
    <3>2. CASE b # m.to
      BY <1>4, <2>3, <3>2
    <3> QED BY <3>1, <3>2
  <2>9. ASSUME NEW k \in net' PROVE MsgInv(k)'
    <3>1. k \in net /\ k # m /\ MsgInv(k)
      BY <1>1, <2>1
    <3>2. k.type = "session" => \A b \in Browser : session'[b].login # k.login
      <4>1. k.type = "session" => k.login \in Login /\ \A b \in Browser : session[b].login # k.login
        BY <3>1 DEF MsgInv, SessionMsg
      <4>2. k.type = "session" => k.login # None
        BY <4>1 DEF Login, None
      <4> QED BY <2>3, <4>1, <4>2 DEF NoSession
    <3> QED BY <1>1, <1>2, <3>1, <3>2, MsgKept
  <2>10. (\A k \in net : MsgInv(k))' /\ OneSession'
    BY <1>7, <2>1, <2>9
  <2>11. \A f \in Login : LoginInv(f)'
    BY <1>5, <2>1
  <2> QED BY <2>5, <2>6, <2>7, <2>8, <2>10, <2>11 DEF AuthInv
<1>18. ASSUME NEW b \in Browser, handleLogout(b)
       PROVE  AuthInv'
  <2>1. PICK n : n = [type |-> "logout", to |-> b] /\ net' = net \cup {n}
    BY <1>18 DEF handleLogout
  <2>2. UNCHANGED <<now, owner, page, signedIn, used, tokenEnd, cookies, session, landed>>
    BY <1>18 DEF handleLogout
  <2>3. AuthTypeOK'
    BY <1>1, <2>2 DEF AuthTypeOK
  <2>4. MsgInv(n)'
    BY <2>1, <2>2 DEF MsgInv, LogoutMsg
  <2>5. (\A m \in net : MsgInv(m))'
    BY <1>3, <2>1, <2>2, <2>4
  <2>6. OneSession'
    <3>1. n.type # "session" /\ net' \subseteq net \cup {n}
      BY <2>1
    <3> QED BY <1>6, <3>1
  <2> QED BY <1>3, <1>4, <1>5, <2>2, <2>3, <2>5, <2>6 DEF AuthInv
<1>19. ASSUME NEW b \in Browser, NEW c \in {"state", "nonce", "returnTo"}, CookieDropped(b, c)
       PROVE  AuthInv'
  <2>1. UNCHANGED <<now, owner, page, signedIn, used, tokenEnd, session, landed, net>>
    BY <1>19 DEF CookieDropped
  <2>2. /\ cookies[b] \in LoginCookies
        /\ cookies' = [cookies EXCEPT ![b] = [cookies[b] EXCEPT ![c] = NoCookies[c]]]
    BY <1>1, <1>19 DEF CookieDropped, AuthTypeOK
  <2>3. /\ [cookies[b] EXCEPT ![c] = NoCookies[c]] \in LoginCookies
        /\ cookies'[b].state \in {cookies[b].state, None}
        /\ cookies'[b].nonce \in {cookies[b].nonce, None}
        /\ cookies'[b].returnTo \in {cookies[b].returnTo, ""}
    <3>1. CASE c = "state"
      BY <1>1, <2>2, <3>1 DEF AuthTypeOK, LoginCookies, NoCookies
    <3>2. CASE c = "nonce"
      BY <1>1, <2>2, <3>2 DEF AuthTypeOK, LoginCookies, NoCookies
    <3>3. CASE c = "returnTo"
      BY <1>1, <2>2, <3>3 DEF AuthTypeOK, LoginCookies, NoCookies
    <3> QED BY <3>1, <3>2, <3>3
  <2>4. AuthTypeOK'
    BY <1>1, <2>1, <2>2, <2>3 DEF AuthTypeOK
  <2>5. ASSUME NEW a \in Browser PROVE Belongs(a, cookies[a])'
    <3>1. CASE a = b
      <4>1. Belongs(b, cookies[b]) /\ Foreign # ""
        BY <1>1, AuthAssumption
      <4> QED BY <2>1, <2>3, <3>1, <4>1 DEF Belongs
    <3>2. CASE a # b
      BY <1>1, <1>4, <2>2, <3>2 DEF AuthTypeOK
    <3> QED BY <3>1, <3>2
  <2>6. \A f \in Login : LoginInv(f)'
    BY <1>5, <2>1
  <2> QED BY <1>3, <1>7, <2>1, <2>4, <2>5, <2>6 DEF AuthInv
<1>20. ASSUME UNCHANGED <<owner, page, signedIn, used, tokenEnd, cookies, session, landed, net>>,
              now' \in 0..MaxTime
       PROVE  AuthInv'
  <2>1. AuthTypeOK'
    BY <1>1, <1>20 DEF AuthTypeOK
  <2> QED BY <1>3, <1>4, <1>5, <1>7, <1>20, <2>1 DEF AuthInv
<1>21. Tick \/ UNCHANGED authVars => AuthInv'
  <2>1. now \in 0..MaxTime /\ MaxTime \in Nat
    BY <1>1, AuthAssumption DEF AuthTypeOK
  <2> QED BY <1>20, <2>1 DEF Tick, authVars
<1> QED BY <1>8, <1>9, <1>10, <1>11, <1>13, <1>14, <1>15, <1>16, <1>17, <1>18, <1>19, <1>21
        DEF AuthNext, Server, Arrives

(* The invariant holds before the first login.                             *)
LEMMA AuthInvInit == AuthInit => AuthInv
<1> SUFFICES ASSUME AuthInit PROVE AuthInv
  OBVIOUS
<1>1. 0 \in 0..MaxTime
  <2>1. MaxTime \in Nat
    BY AuthAssumption
  <2> QED BY <2>1
<1>2. NoSession \in [login : Login \cup {None}, created : Nat, expires : Nat]
  BY DEF NoSession
<1>3. session \in [Browser -> [login : Login \cup {None}, created : Nat, expires : Nat]]
  BY <1>2 DEF AuthInit
<1>4. AuthTypeOK
  <2>1. "" \notin {Foreign}
    BY AuthAssumption
  <2>2. \A b \in Browser : session[b].login \in Login \cup {None}
    BY <1>3
  <2> QED BY <1>1, <2>1, <2>2, NoCookiesTyped DEF AuthInit, AuthTypeOK
<1>5. ASSUME NEW b \in Browser PROVE Belongs(b, cookies[b]) /\ SessionInv(b)
  <2>1. cookies[b] = NoCookies /\ session[b] = NoSession
    BY DEF AuthInit
  <2>2. NoCookies.state = None /\ NoCookies.nonce = None /\ NoCookies.returnTo = ""
    BY DEF NoCookies
  <2>3. NoSession.login = None
    BY DEF NoSession
  <2> QED BY <1>2, <2>1, <2>2, <2>3 DEF Belongs, SessionInv
<1>6. ASSUME NEW f \in Login PROVE LoginInv(f)
  BY AuthAssumption DEF AuthInit, LoginInv
<1> QED BY <1>3, <1>4, <1>5, <1>6 DEF AuthInv, AuthInit, OneSession

(* The invariant holds however requests of any number of tabs interleave. *)
THEOREM AuthInvariant == AuthSpec => []AuthInv
BY AuthInvInit, AuthInvStep, PTL DEF AuthSpec

(* Cookies hold what the server can read back.                             *)
THEOREM AuthTypeCorrect == AuthSpec => []AuthTypeOK
<1>1. AuthInv => AuthTypeOK
  BY DEF AuthInv
<1> QED BY <1>1, AuthInvariant, PTL

(* A session is that of somebody configured who signed in, in a login this *)
(* browser began, and lets nothing through after its ID token.             *)
THEOREM SessionsRightful == AuthSpec => []SessionIsRightful
<1>1. AuthInv => SessionIsRightful
  <2> SUFFICES ASSUME AuthInv PROVE SessionIsRightful
    OBVIOUS
  <2>1. ASSUME NEW b \in Browser, NEW f, f = session[b].login, f # None
        PROVE  /\ Rightful(b, f)
               /\ ConfiguredEmails # {} =>
                    \E e \in ConfiguredEmails : Lower(e) = Lower(Email[signedIn[f]])
    <3>1. Rightful(b, f)
      BY <2>1 DEF AuthInv, SessionInv
    <3> QED BY <3>1 DEF Rightful, isAllowedEmail, AllowedEmails
  <2>2. SessionIsOwn
    BY <2>1 DEF SessionIsOwn, Rightful
  <2>3. ASSUME NEW b \in Browser, NEW f, f = session[b].login, readSession(b), tokenEnd[f] # 0
        PROVE  now <= tokenEnd[f]
    <3>1. EndsInTime(f, session[b].expires)
      BY <2>3 DEF AuthInv, SessionInv, readSession
    <3> QED BY <2>3, <3>1 DEF EndsInTime, readSession
  <2>4. WithinToken
    BY <2>3 DEF WithinToken
  <2> QED BY <2>2, <2>4 DEF SessionIsRightful
<1> QED BY <1>1, AuthInvariant, PTL

-----------------------------------------------------------------------------
(* Only the browser's own logins, sessions and logouts end a login.        *)
LEMMA StepEndsOwn == AuthInv /\ AuthNext => EndedByOwnActs
<1> SUFFICES ASSUME AuthInv, AuthNext, NEW b \in Browser,
                    cookies[b].state # None, cookies'[b].state # cookies[b].state
             PROVE  \/ now >= cookies[b].expires
                    \/ cookies'[b].state # None /\ owner[cookies'[b].state] = b
                    \/ /\ session'[b] # session[b]
                       /\ session'[b].login # None /\ owner[session'[b].login] = b
                    \/ [type |-> "logout", to |-> b] \in net \ net'
  BY Zenon DEF EndedByOwnActs
<1>1. AuthTypeOK /\ \A m \in net : MsgInv(m)
  BY DEF AuthInv
<1>2. cookies' # cookies
  OBVIOUS
<1>3. ASSUME NEW m \in net, LoginArrives(m)
      PROVE  cookies'[b].state # None /\ owner[cookies'[b].state] = b
  <2>1. m.to \in Browser /\ m.login \in Login /\ owner[m.login] = m.to
    BY <1>1, <1>3 DEF LoginArrives, MsgInv, LoginMsg
  <2>2. m.login # None
    BY <2>1 DEF Login, None
  <2>3. b = m.to
    BY <1>1, <1>3, <2>1 DEF LoginArrives, AuthTypeOK
  <2>4. cookies'[b].state = m.login
    BY <1>1, <1>3, <2>3 DEF LoginArrives, AuthTypeOK
  <2> QED BY <2>1, <2>2, <2>3, <2>4
<1>4. ASSUME NEW m \in net, SessionArrives(m)
      PROVE  /\ session'[b] # session[b]
             /\ session'[b].login # None /\ owner[session'[b].login] = b
  <2>1. /\ m.to \in Browser /\ m.login \in Login /\ owner[m.login] = m.to
        /\ \A a \in Browser : session[a].login # m.login
    BY <1>1, <1>4 DEF SessionArrives, MsgInv, SessionMsg, Rightful
  <2>2. b = m.to
    BY <1>1, <1>4, <2>1 DEF SessionArrives, AuthTypeOK
  <2>3. session'[b].login = m.login
    BY <1>4, <2>2 DEF SessionArrives, AuthInv
  <2>4. m.login # None
    BY <2>1 DEF Login, None
  <2> QED BY <2>1, <2>2, <2>3, <2>4
<1>5. ASSUME NEW m \in net, LogoutArrives(m)
      PROVE  [type |-> "logout", to |-> b] \in net \ net'
  <2>1. PICK a \in Browser : m = [type |-> "logout", to |-> a]
    BY <1>1, <1>5 DEF LogoutArrives, MsgInv, LogoutMsg
  <2>2. m.to = a
    BY <2>1
  <2>3. b = a
    BY <1>1, <1>5, <2>2 DEF LogoutArrives, AuthTypeOK
  <2> QED BY <1>5, <2>1, <2>3 DEF LogoutArrives
<1>6. ASSUME NEW a \in Browser, NEW c \in {"state", "nonce", "returnTo"}, CookieDropped(a, c)
      PROVE  now >= cookies[b].expires
  <2>1. b = a
    BY <1>1, <1>6 DEF CookieDropped, AuthTypeOK
  <2> QED BY <1>6, <2>1 DEF CookieDropped
<1> QED BY <1>2, <1>3, <1>4, <1>5, <1>6
        DEF AuthNext, handleLogin, SignIn, OpenCallback, handleLogout, Tick, Server,
            handleCallback, callbackError, ExchangeFails, ExchangeReplies, Arrives

(* Logins of several tabs and browsers are not confused: the cookies of a  *)
(* login stay together, it lands on its own page, and until their time is  *)
(* over only a login, a session or a logout of the same browser ends it.   *)
THEOREM LoginsUnconfused == AuthSpec => LoginsNotConfused
<1>1. AuthInv => LoginsNotMixed /\ LandsOnOwnPage
  <2> SUFFICES ASSUME AuthInv PROVE LoginsNotMixed /\ LandsOnOwnPage
    OBVIOUS
  <2>1. ASSUME NEW b \in Browser, {cookies[b].state, cookies[b].nonce} \subseteq Login
        PROVE  cookies[b].state = cookies[b].nonce
    <3>1. cookies[b].state # None /\ cookies[b].nonce # None
      BY <2>1 DEF Login, None
    <3> QED BY <3>1 DEF AuthInv, Belongs
  <2>2. ASSUME NEW m \in net, m.type = "exchange"
        PROVE  m.nonce \in {m.login, None}
    BY <2>2 DEF AuthInv, MsgInv, ExchangeMsg
  <2>3. ASSUME NEW f \in Login
        PROVE  landed[f] \in {"", "/", page[f]} \ {Foreign}
    BY DEF AuthInv, LoginInv
  <2> QED BY <2>1, <2>2, <2>3 DEF LoginsNotMixed, LandsOnOwnPage
<1>2. AuthInv /\ AuthInv' /\ [AuthNext]_authVars
        => [LoginsNotMixed' /\ LandsOnOwnPage' /\ EndedByOwnActs]_authVars
  <2>1. AuthInv' => LoginsNotMixed' /\ LandsOnOwnPage'
    BY <1>1, PTL
  <2> QED BY <2>1, StepEndsOwn
<1> QED BY <1>2, AuthInvariant, PTL DEF AuthSpec, LoginsNotConfused
=============================================================================
