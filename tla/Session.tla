------------------------------ MODULE Session ------------------------------
(***************************************************************************)
(* The stateless session of the gateway (internal/auth/session.go and      *)
(* middleware.go): the cookie, the middleware that checks and re-issues it *)
(* and the logout handler, seen together with the one browser that holds   *)
(* the cookie and the requests and responses it has in flight.             *)
(*                                                                         *)
(* The gateway keeps no session state.  A request carries the cookie the   *)
(* jar held when the request was SENT, is judged when the gateway SERVES   *)
(* it, and its Set-Cookie takes effect when the response is DELIVERED.     *)
(* Connections overlap freely, so these three moments interleave with      *)
(* those of every other request and with the clock.                        *)
(*                                                                         *)
(* Time is counted in ticks, Second ticks to the second, because the       *)
(* lifetimes that leave the gateway are rounded to whole seconds.          *)
(***************************************************************************)
EXTENDS Integers

CONSTANTS
    AbsoluteTTL,      \* SESSION_ABSOLUTE_TTL, in ticks
    IdleTTL,          \* SESSION_IDLE_TTL, in ticks; 0 turns the timeout off
    RefreshInterval,  \* sessionRefreshInterval, in ticks
    Second,           \* ticks to a second
    Conn,             \* connections the browser may use at the same time
    CanLose,          \* may a response be lost (closed tab, dropped link)?
    MaxTime,          \* bound: the clock stops here
    MaxLogins,        \* bound: successful logins
    MaxKeys,          \* bound: session keys the deployment goes through
    None, Clear       \* no cookie / the Set-Cookie that deletes the cookie

\* What config.Load guarantees of the two lifetimes, and the scale of the model.
ASSUME SessionConfig ==
    /\ AbsoluteTTL \in Nat \ {0}
    /\ IdleTTL \in Nat /\ IdleTTL <= AbsoluteTTL
    /\ RefreshInterval \in Nat \ {0}
    /\ Second \in Nat \ {0}
    /\ CanLose \in BOOLEAN
    /\ MaxTime \in Nat /\ MaxLogins \in Nat \ {0} /\ MaxKeys \in Nat \ {0}

VARIABLES
    now,       \* the clock
    jar,       \* the browser's session cookie: None or a StoredCookie
    conn,      \* connection -> request or response in flight on it
    key,       \* the session key the gateway runs with
    logins,    \* logins so far; numbers the ID tokens
    loginAt,   \* history: login -> when the gateway accepted it
    loginKey,  \* history: login -> the key the gateway ran with then
    lastUse,   \* history: login -> last time the gateway admitted it
    loggedOut, \* history: logins the browser has seen the end of, none under way
    crossed    \* history: logins whose requests overlapped or lost an answer

vars == <<now, jar, conn, key, logins, loginAt, loginKey, lastUse, loggedOut, crossed>>

-----------------------------------------------------------------------------
(* Data *)

Login == 1 .. MaxLogins

\* LastSeen of a cookie signed by a release that had no idle timeout.
ZeroTime == -1

\* SessionData.  The login number stands for the ID token, which differs from
\* login to login, and with it for the email; key is the key of the signature.
SessionData == [login : Login, issuedAt : Nat, expiresAt : Nat,
                lastSeen : Nat \cup {ZeroTime}, key : Nat]

\* The sentinels differ from each other and are no sessions.
ASSUME Sentinels ==
    None # Clear /\ None \notin SessionData /\ Clear \notin SessionData

StoredCookie == [session : SessionData, gotAt : Nat, maxAge : Nat]

Kinds == {"api", "logout", "callback"}
Verdicts == {"none", "ok", "missing", "invalid", "expired", "idle"}

\* One exchange.  Of a response: set is its Set-Cookie (None: no such header),
\* maxAge that cookie's Max-Age, expiresIn the Atrium-Session-Expires-In header
\* (-1: absent), verdict what validation said of the cookie.
Exchange == [phase : {"idle", "sent", "served"}, kind : Kinds,
             cookie : SessionData \cup {None},
             set : SessionData \cup {None, Clear}, maxAge : Int,
             expiresIn : Int, verdict : Verdicts]

NoExchange == [phase |-> "idle", kind |-> "api", cookie |-> None, set |-> None,
               maxAge |-> 0, expiresIn |-> -1, verdict |-> "none"]

\* Is the exchange about the login, by the cookie it carries or by the one it sets?
About(x, login) ==
    /\ x.phase # "idle"
    /\ \/ x.cookie # None /\ x.cookie.login = login
       \/ x.set \notin {None, Clear} /\ x.set.login = login

-----------------------------------------------------------------------------
(* session.go *)

LastActivity(s) == IF s.lastSeen = ZeroTime THEN s.issuedAt ELSE s.lastSeen

\* When the session ends: the absolute expiry, or the idle deadline when first.
SessionDeadline(s) ==
    IF IdleTTL > 0 /\ LastActivity(s) + IdleTTL < s.expiresAt
    THEN LastActivity(s) + IdleTTL
    ELSE s.expiresAt

\* Mutant: the rest of a second is cut off.
CutToSecond(d) == d \div Second

\* Rounds a number of ticks to whole seconds, halves away from zero.
RoundToSecond(d) ==
    IF d >= 0 THEN (d + Second \div 2) \div Second
              ELSE -((-d + Second \div 2) \div Second)

SecondsUntil(t) == RoundToSecond(t - now)

\* The session a successful callback creates.
NewSession(l) == [login |-> l, issuedAt |-> now, expiresAt |-> now + AbsoluteTTL,
                  lastSeen |-> now, key |-> key]

\* Mutant: decodeAndVerify leaves the absolute expiry unchecked.
ValidateUnbounded(s) ==
    CASE s = None -> "missing"
      [] s # None /\ s.key # key -> "invalid"
      [] s # None /\ s.key = key /\ IdleTTL > 0 /\ now > LastActivity(s) + IdleTTL -> "idle"
      [] OTHER -> "ok"

\* decodeAndVerify and the idle check, in their order; both limits are exclusive.
ValidateSessionCookie(s) ==
    CASE s = None -> "missing"
      [] s # None /\ s.key # key -> "invalid"
      [] s # None /\ s.key = key /\ now > s.expiresAt -> "expired"
      [] s # None /\ s.key = key /\ now <= s.expiresAt
           /\ IdleTTL > 0 /\ now > LastActivity(s) + IdleTTL -> "idle"
      [] OTHER -> "ok"

-----------------------------------------------------------------------------
(* middleware.go *)

\* Mutant: the cookie is due only once the interval is over by a tick.
RefreshLate(s) == IdleTTL > 0 /\ now - LastActivity(s) > RefreshInterval

\* Re-issuing the cookie is throttled: is it due for this request?
RefreshDue(s) == IdleTTL > 0 /\ now - LastActivity(s) >= RefreshInterval

\* Mutant: the activity is counted back from the end of the lifetime.
TouchBackdated(s) ==
    IF RefreshDue(s) THEN [s EXCEPT !.lastSeen = now - AbsoluteTTL] ELSE s

\* Mutant: activity moves the absolute expiry as well.
TouchRenews(s) ==
    IF RefreshDue(s) THEN [s EXCEPT !.lastSeen = now, !.expiresAt = now + AbsoluteTTL]
                     ELSE s

\* The session as touchSession leaves it.
TouchSession(s) == IF RefreshDue(s) THEN [s EXCEPT !.lastSeen = now] ELSE s

\* The exchange on c once the gateway has answered it.
Answer(c, verdict, set, maxAge, expiresIn) ==
    [phase |-> "served", kind |-> conn[c].kind, cookie |-> conn[c].cookie, set |-> set,
     maxAge |-> maxAge, expiresIn |-> expiresIn, verdict |-> verdict]

\* Mutant: the advertised deadline counts from now, not from the stored LastSeen.
AdmitOverstated(c) ==
    LET s == conn[c].cookie
        touched == TouchSession(s)
        left == SecondsUntil(SessionDeadline([s EXCEPT !.lastSeen = now]))
    IN  /\ conn[c].phase = "sent" /\ conn[c].kind = "api"
        /\ ValidateSessionCookie(s) = "ok"
        /\ conn' = [conn EXCEPT ![c] =
               IF RefreshDue(s) THEN Answer(c, "ok", touched, left, left)
                                ELSE Answer(c, "ok", None, 0, left)]
        /\ lastUse' = [lastUse EXCEPT ![s.login] = now]
        /\ UNCHANGED <<now, jar, key, logins, loginAt, loginKey, loggedOut, crossed>>

\* RequireAuth admits the request: touchSession, then the handler.
Admit(c) ==
    LET s == conn[c].cookie
        touched == TouchSession(s)
        left == SecondsUntil(SessionDeadline(touched))
    IN  /\ conn[c].phase = "sent" /\ conn[c].kind = "api"
        /\ ValidateSessionCookie(s) = "ok"
        /\ conn' = [conn EXCEPT ![c] =
               IF RefreshDue(s) THEN Answer(c, "ok", touched, left, left)
                                ELSE Answer(c, "ok", None, 0, left)]
        /\ lastUse' = [lastUse EXCEPT ![s.login] = now]
        /\ UNCHANGED <<now, jar, key, logins, loginAt, loginKey, loggedOut, crossed>>

\* RequireAuth turns the request away: the cookie is deleted, 401.
Deny(c) ==
    LET verdict == ValidateSessionCookie(conn[c].cookie) IN
    /\ conn[c].phase = "sent" /\ conn[c].kind = "api"
    /\ verdict # "ok"
    /\ conn' = [conn EXCEPT ![c] = Answer(c, verdict, Clear, 0, -1)]
    /\ UNCHANGED <<now, jar, key, logins, loginAt, loginKey, lastUse, loggedOut,
                   crossed>>

\* Mutant: only an invalid cookie is deleted.
LogoutKeepsValid(c) ==
    LET verdict == ValidateSessionCookie(conn[c].cookie) IN
    /\ conn[c].phase = "sent" /\ conn[c].kind = "logout"
    /\ conn' = [conn EXCEPT ![c] =
           Answer(c, verdict, IF verdict = "ok" THEN None ELSE Clear, 0, -1)]
    /\ UNCHANGED <<now, jar, key, logins, loginAt, loginKey, lastUse, loggedOut,
                   crossed>>

\* LogoutHandler: the cookie is deleted whether or not it was still valid.
ServeLogout(c) ==
    LET verdict == ValidateSessionCookie(conn[c].cookie) IN
    /\ conn[c].phase = "sent" /\ conn[c].kind = "logout"
    /\ conn' = [conn EXCEPT ![c] = Answer(c, verdict, Clear, 0, -1)]
    /\ UNCHANGED <<now, jar, key, logins, loginAt, loginKey, lastUse, loggedOut,
                   crossed>>

\* CallbackHandler on its success path (LoginFlow models how it gets there).
ServeCallback(c) ==
    LET s == NewSession(logins + 1) IN
    /\ conn[c].phase = "sent" /\ conn[c].kind = "callback"
    /\ logins < MaxLogins
    /\ logins' = logins + 1
    /\ loginAt' = [loginAt EXCEPT ![s.login] = now]
    /\ loginKey' = [loginKey EXCEPT ![s.login] = key]
    /\ lastUse' = [lastUse EXCEPT ![s.login] = now]
    /\ conn' = [conn EXCEPT ![c] =
                   Answer(c, "none", s, SecondsUntil(SessionDeadline(s)), -1)]
    /\ UNCHANGED <<now, jar, key, loggedOut, crossed>>

\* A restart with another SESSION_KEY; requests in flight meet the new key.
RotateKey ==
    /\ key < MaxKeys
    /\ key' = key + 1
    /\ UNCHANGED <<now, jar, conn, logins, loginAt, loginKey, lastUse, loggedOut, crossed>>

-----------------------------------------------------------------------------
(* The browser *)

\* Go omits Max-Age when it is 0, which makes a cookie without an end of its own.
Kept(cookie) == cookie.maxAge = 0 \/ now < cookie.gotAt + Second * cookie.maxAge

\* The session cookie a request sent now carries.
JarSession == IF jar # None /\ Kept(jar) THEN jar.session ELSE None

Request(kind) == [phase |-> "sent", kind |-> kind, cookie |-> JarSession,
                  set |-> None, maxAge |-> 0, expiresIn |-> -1, verdict |-> "none"]

Send(c, kind) ==
    /\ conn[c].phase = "idle"
    /\ kind = "callback" => logins < MaxLogins
    /\ conn' = [conn EXCEPT ![c] = Request(kind)]
    /\ crossed' = IF JarSession # None /\ \E d \in Conn : About(conn[d], JarSession.login)
                  THEN crossed \cup {JarSession.login} ELSE crossed
    /\ UNCHANGED <<now, jar, key, logins, loginAt, loginKey, lastUse, loggedOut>>

\* The browser obeys the Set-Cookie of a response.
Store(x) ==
    IF x.set = None THEN jar
    ELSE IF x.set = Clear \/ x.maxAge < 0 THEN None
    ELSE [session |-> x.set, gotAt |-> now, maxAge |-> x.maxAge]

\* A logout is answered, and no other exchange about that login is under way.
EndsLogin(c) ==
    /\ conn[c].kind = "logout" /\ conn[c].cookie # None
    /\ \A d \in Conn \ {c} : ~About(conn[d], conn[c].cookie.login)

Deliver(c) ==
    /\ conn[c].phase = "served"
    /\ jar' = Store(conn[c])
    /\ loggedOut' = IF EndsLogin(c) THEN loggedOut \cup {conn[c].cookie.login}
                                    ELSE loggedOut
    /\ conn' = [conn EXCEPT ![c] = NoExchange]
    /\ UNCHANGED <<now, key, logins, loginAt, loginKey, lastUse, crossed>>

\* The tab is closed or navigates away, or the link breaks.
Lose(c) ==
    /\ CanLose
    /\ conn[c].phase # "idle"
    /\ conn' = [conn EXCEPT ![c] = NoExchange]
    /\ crossed' = IF conn[c].set \notin {None, Clear}
                  THEN crossed \cup {conn[c].set.login} ELSE crossed
    /\ UNCHANGED <<now, jar, key, logins, loginAt, loginKey, lastUse, loggedOut>>

Tick ==
    /\ now < MaxTime
    /\ now' = now + 1
    /\ UNCHANGED <<jar, conn, key, logins, loginAt, loginKey, lastUse, loggedOut, crossed>>

-----------------------------------------------------------------------------

\* A cookie of a release without LastSeen, issued at the start of time.
LegacySession == [login |-> 1, issuedAt |-> 0, expiresAt |-> AbsoluteTTL,
                  lastSeen |-> ZeroTime, key |-> 1]

Init ==
    /\ now = 0
    /\ conn = [c \in Conn |-> NoExchange]
    /\ key = 1
    /\ loginAt = [l \in Login |-> 0]
    /\ loginKey = [l \in Login |-> 1]
    /\ lastUse = [l \in Login |-> 0]
    /\ loggedOut = {} /\ crossed = {}
    /\ \/ jar = None /\ logins = 0
       \/ /\ jar = [session |-> LegacySession, gotAt |-> 0,
                    maxAge |-> RoundToSecond(AbsoluteTTL)]
          /\ logins = 1

Next ==
    \/ Tick
    \/ RotateKey
    \/ \E c \in Conn :
          \/ \E kind \in Kinds : Send(c, kind)
          \/ Admit(c)
          \/ Deny(c)
          \/ ServeLogout(c)
          \/ ServeCallback(c)
          \/ Deliver(c)
          \/ Lose(c)

Spec == Init /\ [][Next]_vars

-----------------------------------------------------------------------------
(* What a login entitles to, apart from cookies *)

\* The table of logins that a gateway with a memory would keep.
Table == [l \in 1 .. logins |->
             [since |-> loginAt[l], key |-> loginKey[l], used |-> lastUse[l]]]

Policy == INSTANCE Lease WITH lease <- Table

-----------------------------------------------------------------------------
(* Properties *)

\* The type of the state.
TypeOK ==
    /\ now \in Nat
    /\ jar \in StoredCookie \cup {None}
    /\ conn \in [Conn -> Exchange]
    /\ key \in Nat
    /\ logins \in 0 .. MaxLogins
    /\ loginAt \in [Login -> Nat]
    /\ loginKey \in [Login -> Nat]
    /\ lastUse \in [Login -> Nat]
    /\ loggedOut \subseteq Login
    /\ crossed \subseteq Login

\* The session is the one its login was given, under the key of that time, and the
\* activity it claims lies between that login and the last request the gateway
\* admitted of it.
Genuine(s) ==
    /\ s.login <= logins
    /\ s.issuedAt = loginAt[s.login]
    /\ s.expiresAt = loginAt[s.login] + AbsoluteTTL
    /\ s.key = loginKey[s.login]
    /\ s.issuedAt <= LastActivity(s)
    /\ LastActivity(s) <= lastUse[s.login]

\* Wherever a cookie is, however often it was re-issued and by whichever of
\* several overlapping requests: its absolute expiry is still the one its login
\* was given (session.go: "never moved by activity"), and it claims no activity
\* the gateway did not see.
Provenance ==
    /\ jar # None => Genuine(jar.session)
    /\ \A c \in Conn : /\ conn[c].cookie # None => Genuine(conn[c].cookie)
                       /\ conn[c].set \notin {None, Clear} => Genuine(conn[c].set)

\* The gateway, which remembers nothing, keeps to the policy as if it kept a table
\* of logins: RequireAuth admits no request later than SESSION_ABSOLUTE_TTL after
\* the login its cookie came from, none of a login it had admitted nothing of for
\* longer than SESSION_IDLE_TTL, and none of a login under another key, whichever
\* copy of the cookie the request carries.
ImplementsLease == Policy!Spec

\* The Max-Age a cookie leaves with is rounded, and starts to run only when the
\* response arrives: the browser still drops no cookie as much as half a second
\* before the gateway would have stopped accepting it.
NoEarlyDrop ==
    jar # None /\ jar.maxAge # 0 =>
        2 * (SessionDeadline(jar.session) - (jar.gotAt + Second * jar.maxAge)) < Second

\* The throttle of touchSession costs the recipient less than one refresh interval of
\* the window: a request is turned away as idle, which without a throttle it would be
\* at IdleTTL + 1 ticks without use, earlier by fewer ticks than that; unless requests
\* of the login overlapped or a re-issued cookie was lost.
IdleNotEarly ==
    \A c \in Conn :
        /\ conn[c].phase = "sent"
        /\ ValidateSessionCookie(conn[c].cookie) = "idle"
        /\ conn[c].cookie.login \notin crossed
        => IdleTTL + 1 - (now - lastUse[conn[c].cookie.login]) < RefreshInterval

\* Once the browser has the answer to its logout and nothing else of that login is
\* under way, no response puts a session of it back into the jar (middleware.go:
\* "LogoutHandler clears the local session").
LogoutSticks == jar # None => jar.session.login \notin loggedOut
=============================================================================
