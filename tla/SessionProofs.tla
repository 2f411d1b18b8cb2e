---------------------------- MODULE SessionProofs ----------------------------
(***************************************************************************)
(* TLAPS proofs about the session cookie, for every lifetime, refresh      *)
(* interval, clock bound and number of connections.  The first part is     *)
(* about Session alone, whose browser and pages do what they like; the     *)
(* second, from "The countdown" on, about SessionClient, where they are    *)
(* the frontend's, for every latency and number of tabs as well.           *)
(***************************************************************************)
EXTENDS SessionClient, TLAPS

-----------------------------------------------------------------------------
(* Lemmas about the operators *)

\* RoundToSecond is at most half a second short, of a time to come less than that, and
\* keeps the sign.
LEMMA RoundBound ==
    ASSUME NEW d \in Int
    PROVE  /\ RoundToSecond(d) \in Int
           /\ d >= 0 => RoundToSecond(d) \in Nat
           /\ Second * RoundToSecond(d) + Second \div 2 >= d
           /\ d >= 0 => 2 * (d - Second * RoundToSecond(d)) < Second
<1> DEFINE H == Second \div 2
           Q(e) == (e + H) \div Second
<1>0. Second \in Nat \ {0}
  BY SessionConfig
<1>1. H \in Nat /\ 2 * H <= Second /\ Second <= 2 * H + 1
  BY <1>0
<1>2. ASSUME NEW e \in Nat
      PROVE  Q(e) \in Nat /\ Second * Q(e) <= e + H /\ e + H < Second * Q(e) + Second
  BY <1>0, <1>1, Z3
<1> HIDE DEF H, Q
<1>3. CASE d >= 0
  <2>1. RoundToSecond(d) = Q(d)
    BY <1>3 DEF RoundToSecond, Q, H
  <2>2. Second * Q(d) \in Int
    BY <1>0, <1>2, <1>3
  <2>3. Second * Q(d) + H >= d
    BY <1>0, <1>1, <1>2, <1>3, <2>2
  <2>4. 2 * (d - Second * Q(d)) < Second
    BY <1>0, <1>1, <1>2, <1>3, <2>2
  <2> QED
    BY <1>2, <1>3, <2>1, <2>3, <2>4 DEF H
<1>4. CASE d < 0
  <2>1. RoundToSecond(d) = -Q(-d)
    BY <1>4 DEF RoundToSecond, Q, H
  <2>2. -d \in Nat
    BY <1>4
  <2>3. Q(-d) \in Nat /\ Second * Q(-d) <= -d + H
    BY <1>2, <2>2
  <2>4. Second * (-Q(-d)) = -(Second * Q(-d)) /\ Second * Q(-d) \in Int
    BY <1>0, <2>3
  <2>5. Second * (-Q(-d)) + H >= d
    BY <1>1, <2>2, <2>3, <2>4
  <2> QED
    BY <1>4, <2>1, <2>3, <2>5 DEF H
<1> QED
  BY <1>3, <1>4

\* The deadline of a session is a time, and never past its absolute expiry.
LEMMA DeadlineBound ==
    ASSUME NEW s \in SessionData
    PROVE  /\ LastActivity(s) \in Nat
           /\ SessionDeadline(s) \in Nat
           /\ SessionDeadline(s) <= s.expiresAt
BY SessionConfig DEF SessionData, LastActivity, SessionDeadline, ZeroTime

\* touchSession changes at most lastSeen, and only to the present.
LEMMA TouchKeeps ==
    ASSUME NEW s \in SessionData, now \in Nat
    PROVE  /\ TouchSession(s) \in SessionData
           /\ TouchSession(s).login = s.login
           /\ TouchSession(s).issuedAt = s.issuedAt
           /\ TouchSession(s).expiresAt = s.expiresAt
           /\ TouchSession(s).key = s.key
           /\ LastActivity(TouchSession(s)) \in {LastActivity(s), now}
           /\ RefreshDue(s) => LastActivity(TouchSession(s)) = now
BY DEF TouchSession, SessionData, LastActivity, ZeroTime

\* What validateSessionCookie says of a session it accepts, and of an idle one.
LEMMA VerdictMeaning ==
    ASSUME NEW s \in SessionData \cup {None}, now \in Nat
    PROVE  /\ ValidateSessionCookie(s) \in Verdicts
           /\ ValidateSessionCookie(s) = "ok" =>
                /\ s \in SessionData
                /\ now <= s.expiresAt
                /\ IdleTTL > 0 => now <= LastActivity(s) + IdleTTL
           /\ ValidateSessionCookie(s) = "idle" =>
                /\ s \in SessionData
                /\ IdleTTL > 0
                /\ now > LastActivity(s) + IdleTTL
<1>1. CASE s = None
  BY <1>1 DEF ValidateSessionCookie, Verdicts
<1>2. CASE s # None
  <2>1. s \in SessionData
    BY <1>2
  <2>2. LastActivity(s) \in Nat /\ s.expiresAt \in Nat
    BY <2>1, DeadlineBound DEF SessionData
  <2> QED
    BY <1>2, <2>1, <2>2, SessionConfig DEF ValidateSessionCookie, Verdicts
<1> QED
  BY <1>1, <1>2

\* The exchange Answer builds: typed, and its response is what it was given.
LEMMA AnswerFields ==
    ASSUME TypeOK, NEW c \in Conn, NEW verdict \in Verdicts,
           NEW set \in SessionData \cup {None, Clear},
           NEW maxAge \in Int, NEW expiresIn \in Int
    PROVE  LET x == Answer(c, verdict, set, maxAge, expiresIn)
               s == conn[c].cookie
           IN  /\ x \in Exchange
               /\ x.phase = "served" /\ x.kind = conn[c].kind /\ x.cookie = s
               /\ x.verdict = verdict /\ x.set = set /\ x.maxAge = maxAge
<1>1. conn[c] \in Exchange
  BY DEF TypeOK
<1> QED
  BY <1>1 DEF Answer, Exchange

\* The same for a request admitted without a new cookie.
LEMMA PlainAnswerFields ==
    ASSUME TypeOK, NEW c \in Conn, NEW left \in Int
    PROVE  LET x == Answer(c, "ok", None, 0, left)
               s == conn[c].cookie
           IN  /\ x \in Exchange
               /\ x.phase = "served" /\ x.kind = conn[c].kind /\ x.cookie = s
               /\ x.verdict = "ok" /\ x.set = None
<1>1. "ok" \in Verdicts
  BY DEF Verdicts
<1>2. PICK none \in SessionData \cup {None, Clear} : none = None
  OBVIOUS
<1>3. PICK zero \in Int : zero = 0
  OBVIOUS
<1>4. LET x == Answer(c, "ok", none, zero, left)
          s == conn[c].cookie
      IN  /\ x \in Exchange
          /\ x.phase = "served" /\ x.kind = conn[c].kind /\ x.cookie = s
          /\ x.verdict = "ok" /\ x.set = none
  BY <1>1, AnswerFields
<1> QED
  BY <1>2, <1>3, <1>4

-----------------------------------------------------------------------------
(* The inductive invariant *)

\* The gateway's history does not run ahead of the clock.
Clocked == \A l \in Login : lastUse[l] <= now

\* A Max-Age of so many seconds that starts to run at a time ends less than half a
\* second before the deadline, or after it.
Reaches(at, seconds, end) == 2 * (end - (at + Second * seconds)) < Second

\* The Max-Age on its way to the browser reaches the deadline of its session.
MaxAgeCovers ==
    \A c \in Conn : conn[c].set \notin {None, Clear} =>
        Reaches(now, conn[c].maxAge, SessionDeadline(conn[c].set))

SessionInv ==
    TypeOK /\ Provenance /\ Clocked /\ MaxAgeCovers /\ NoEarlyDrop

\* The cookie in the jar, when a request may carry it, is the jar's session.
LEMMA JarSessionType ==
    ASSUME TypeOK
    PROVE  /\ JarSession \in SessionData \cup {None}
           /\ JarSession # None => jar # None /\ JarSession = jar.session
BY DEF TypeOK, JarSession, StoredCookie

\* A connection without an exchange is well typed.
LEMMA NoExchangeType == NoExchange \in Exchange
BY DEF NoExchange, Exchange, Kinds, Verdicts

\* The strengthened invariant holds initially.
LEMMA SessionInit == Init => SessionInv
<1> SUFFICES ASSUME Init PROVE SessionInv
  OBVIOUS
<1>0. 1 \in Login
  BY SessionConfig DEF Login
<1>1. LegacySession \in SessionData
  BY <1>0, SessionConfig DEF LegacySession, SessionData, ZeroTime
<1>2. RoundToSecond(AbsoluteTTL) \in Nat
  BY SessionConfig, RoundBound
<1>3. TypeOK
  <2>1. jar \in StoredCookie \cup {None} /\ logins \in 0 .. MaxLogins
    BY <1>1, <1>2, SessionConfig DEF Init, StoredCookie
  <2> QED
    BY <2>1, NoExchangeType, SessionConfig DEF Init, TypeOK
<1>4. /\ NoExchange.cookie = None /\ NoExchange.set = None
      /\ NoExchange.verdict = "none"
  BY DEF NoExchange
<1>5. Provenance
  <2>1. jar # None => jar.session = LegacySession /\ logins = 1
    BY DEF Init
  <2>2. jar # None => Genuine(LegacySession)
    BY <1>0, <2>1, SessionConfig
       DEF Init, Genuine, LegacySession, LastActivity, ZeroTime
  <2> QED
    BY <1>4, <2>1, <2>2 DEF Init, Provenance
<1>6. Clocked
  BY DEF Init, Clocked
<1>7. MaxAgeCovers
  BY <1>4, Sentinels DEF Init, MaxAgeCovers
<1>8. NoEarlyDrop
  <2>1. SessionDeadline(LegacySession) \in Nat
        /\ SessionDeadline(LegacySession) <= AbsoluteTTL
    BY <1>1, DeadlineBound DEF LegacySession
  <2>2. 2 * (AbsoluteTTL - Second * RoundToSecond(AbsoluteTTL)) < Second
    BY SessionConfig, RoundBound
  <2>3. Second * RoundToSecond(AbsoluteTTL) \in Int
    BY <1>2, SessionConfig
  <2>4. 2 * (SessionDeadline(LegacySession) - (0 + Second * RoundToSecond(AbsoluteTTL)))
          < Second
    BY <2>1, <2>2, <2>3, SessionConfig
  <2> QED
    BY <2>4 DEF Init, NoEarlyDrop
<1> QED
  BY <1>3, <1>5, <1>6, <1>7, <1>8 DEF SessionInv

\* What the invariant says of the one exchange that a step replaces: enough for
\* the invariant to hold again when nothing but conn, and lastUse upwards, moves.
LEMMA ReplaceExchange ==
    ASSUME SessionInv, NEW c \in Conn, NEW x \in Exchange,
           conn' = [conn EXCEPT ![c] = x],
           UNCHANGED <<now, jar, key, loggedOut>>, crossed' \subseteq Login,
           logins' \in 0 .. MaxLogins, logins' >= logins,
           loginAt' \in [Login -> Nat], loginKey' \in [Login -> Nat],
           lastUse' \in [Login -> Nat],
           \A l \in Login : l <= logins => /\ loginAt'[l] = loginAt[l]
                                           /\ loginKey'[l] = loginKey[l]
                                           /\ lastUse'[l] >= lastUse[l],
           \A l \in Login : lastUse'[l] <= now,
           x.cookie # None => Genuine(x.cookie)',
           x.set \notin {None, Clear} =>
             /\ Genuine(x.set)'
             /\ Reaches(now, x.maxAge, SessionDeadline(x.set))
    PROVE  SessionInv'
<1>1. \A d \in Conn : conn'[d] = IF d = c THEN x ELSE conn[d]
  BY DEF SessionInv, TypeOK
<1>2. TypeOK'
  BY DEF SessionInv, TypeOK
<1>3. ASSUME NEW s \in SessionData, Genuine(s)
      PROVE  Genuine(s)'
  <2>1. s.login \in Login /\ s.login <= logins
    BY <1>3 DEF SessionData, Genuine
  <2>2. LastActivity(s) \in Nat
    BY DeadlineBound
  <2> QED
    BY <1>2, <1>3, <2>1, <2>2
       DEF Genuine, LastActivity, SessionInv, TypeOK, SessionData, Login
<1>4. Provenance'
  <2>1. \A d \in Conn : conn[d] \in Exchange
    BY DEF SessionInv, TypeOK
  <2>2. \A d \in Conn :
           /\ conn[d].cookie # None => conn[d].cookie \in SessionData
           /\ conn[d].set \notin {None, Clear} => conn[d].set \in SessionData
    BY <2>1 DEF Exchange
  <2>3. jar # None => jar.session \in SessionData
    BY DEF SessionInv, TypeOK, StoredCookie
  <2>4. (jar # None => Genuine(jar.session))'
    BY <1>3, <2>3 DEF SessionInv, Provenance, Genuine, LastActivity
  <2>5. ASSUME NEW d \in Conn
        PROVE  (conn[d].cookie # None => Genuine(conn[d].cookie))'
    BY <1>1, <1>3, <2>2 DEF SessionInv, Provenance, Genuine, LastActivity
  <2>6. ASSUME NEW d \in Conn
        PROVE  (conn[d].set \notin {None, Clear} => Genuine(conn[d].set))'
    BY <1>1, <1>3, <2>2 DEF SessionInv, Provenance, Genuine, LastActivity
  <2> QED
    BY <2>4, <2>5, <2>6 DEF Provenance
<1>5. Clocked'
  BY DEF Clocked
<1>7. MaxAgeCovers'
  BY <1>1 DEF SessionInv, MaxAgeCovers, Reaches, SessionDeadline, LastActivity
<1>8. NoEarlyDrop'
  BY DEF SessionInv, NoEarlyDrop, SessionDeadline, LastActivity
<1> QED
  BY <1>2, <1>4, <1>5, <1>7, <1>8 DEF SessionInv

\* Seconds left, sent as Max-Age at time now, reach the deadline they count to if that is
\* still to come.
LEMMA LeftCovers ==
    ASSUME now \in Nat, NEW t \in Nat
    PROVE  /\ SecondsUntil(t) \in Int
           /\ now <= t => Reaches(now, SecondsUntil(t), t)
<1> DEFINE q == RoundToSecond(t - now)
<1>1. q \in Int /\ (t - now >= 0 => 2 * (t - now - Second * q) < Second)
  BY RoundBound
<1>2. Second * q \in Int
  BY <1>1, SessionConfig
<1> HIDE DEF q
<1>3. now <= t => Reaches(now, q, t)
  BY <1>1, <1>2, SessionConfig DEF Reaches
<1> QED
  BY <1>1, <1>3 DEF SecondsUntil, q

\* A step of RequireAuth that admits keeps the invariant.
LEMMA SessionAdmit ==
    ASSUME SessionInv, NEW c \in Conn, Admit(c)
    PROVE  SessionInv'
<1>a. PICK s : s = conn[c].cookie
  OBVIOUS
<1>b. PICK touched : touched = TouchSession(s)
  OBVIOUS
<1>c. PICK left : left = SecondsUntil(SessionDeadline(touched))
  OBVIOUS
<1>d. PICK x : x = IF RefreshDue(s) THEN Answer(c, "ok", touched, left, left)
                                    ELSE Answer(c, "ok", None, 0, left)
  OBVIOUS
<1>0. TypeOK /\ now \in Nat /\ conn[c] \in Exchange
  BY DEF SessionInv, TypeOK
<1>1. /\ s \in SessionData /\ s # None
      /\ now <= s.expiresAt
      /\ IdleTTL > 0 => now <= LastActivity(s) + IdleTTL
  BY <1>0, <1>a, VerdictMeaning, Sentinels DEF Admit, Exchange
<1>2. Genuine(s) /\ s.login \in Login /\ LastActivity(s) \in Nat
  BY <1>1, <1>a, DeadlineBound DEF SessionInv, Provenance, SessionData
<1>3. touched \in SessionData /\ SessionDeadline(touched) \in Nat
  BY <1>0, <1>1, <1>b, TouchKeeps, DeadlineBound
<1>4. left \in Int /\ Reaches(now, left, SessionDeadline(touched))
  <2>1. /\ touched.expiresAt = s.expiresAt
        /\ LastActivity(touched) \in {LastActivity(s), now}
    BY <1>0, <1>1, <1>b, TouchKeeps
  <2>2. now <= SessionDeadline(touched)
    BY <1>0, <1>1, <1>2, <2>1, SessionConfig DEF SessionDeadline
  <2> QED
    BY <1>0, <1>3, <1>c, <2>2, LeftCovers
<1>5. /\ x \in Exchange /\ x.cookie = s /\ x.kind = conn[c].kind
      /\ x.set \notin {None, Clear} => x.set = touched /\ x.maxAge = left
  <2>1. "ok" \in Verdicts /\ 0 \in Int
    BY DEF Verdicts
  <2>2. CASE RefreshDue(s)
    BY <1>0, <1>1, <1>3, <1>4, <1>a, <1>d, <2>1, <2>2, AnswerFields
  <2>3. CASE ~RefreshDue(s)
    <3>1. x = Answer(c, "ok", None, 0, left)
      BY <1>d, <2>3
    <3> QED
      BY <1>0, <1>1, <1>4, <1>a, <3>1, PlainAnswerFields
  <2> QED
    BY <2>2, <2>3
<1>6. /\ conn' = [conn EXCEPT ![c] = x]
      /\ lastUse' = [lastUse EXCEPT ![s.login] = now]
      /\ UNCHANGED <<now, jar, key, logins, loginAt, loginKey, loggedOut, crossed>>
  BY <1>a, <1>b, <1>c, <1>d DEF Admit
<1>7. /\ logins' \in 0 .. MaxLogins /\ logins' >= logins
      /\ loginAt' \in [Login -> Nat] /\ loginKey' \in [Login -> Nat]
      /\ lastUse' \in [Login -> Nat]
      /\ \A l \in Login : l <= logins => /\ loginAt'[l] = loginAt[l]
                                         /\ loginKey'[l] = loginKey[l]
                                         /\ lastUse'[l] >= lastUse[l]
      /\ \A l \in Login : lastUse'[l] <= now
      /\ lastUse'[s.login] = now
  BY <1>0, <1>2, <1>6, SessionConfig DEF SessionInv, TypeOK, Clocked
<1>8. Genuine(s)'
  BY <1>0, <1>2, <1>6, <1>7 DEF Genuine, LastActivity, SessionInv, TypeOK, Clocked
<1>9. Genuine(touched)'
  <2>1. /\ touched.login = s.login /\ touched.issuedAt = s.issuedAt
        /\ touched.expiresAt = s.expiresAt /\ touched.key = s.key
        /\ LastActivity(touched) \in {LastActivity(s), now}
    BY <1>0, <1>1, <1>b, TouchKeeps
  <2>2. loginAt[s.login] <= now /\ loginAt[s.login] \in Nat /\ lastUse[s.login] \in Nat
    BY <1>0, <1>2 DEF Genuine, SessionInv, Clocked, TypeOK
  <2>3. /\ s.issuedAt <= LastActivity(touched) /\ LastActivity(touched) <= now
    BY <1>0, <1>2, <2>1, <2>2 DEF Genuine, SessionInv, Clocked
  <2> QED
    BY <1>2, <1>6, <1>7, <2>1, <2>3 DEF Genuine, LastActivity
<1> QED
  BY <1>0, <1>4, <1>5, <1>6, <1>7, <1>8, <1>9, ReplaceExchange DEF TypeOK

\* A request turned away, or logged out, is answered with the deletion.
LEMMA SessionClear ==
    ASSUME SessionInv, NEW c \in Conn,
           NEW verdict \in Verdicts, UNCHANGED crossed,
           conn' = [conn EXCEPT ![c] = Answer(c, verdict, Clear, 0, -1)],
           UNCHANGED <<now, jar, key, logins, loginAt, loginKey, lastUse, loggedOut>>
    PROVE  SessionInv'
<1>a. PICK x : x = Answer(c, verdict, Clear, 0, -1)
  OBVIOUS
<1>0. TypeOK /\ conn[c] \in Exchange /\ Clear \in SessionData \cup {None, Clear}
  BY DEF SessionInv, TypeOK
<1>1. /\ x \in Exchange /\ x.cookie = conn[c].cookie /\ x.kind = conn[c].kind
      /\ x.set = Clear /\ x.verdict = verdict
  BY <1>0, <1>a, AnswerFields
<1>2. x.cookie # None => Genuine(x.cookie)'
  <2>1. \A s : Genuine(s) => Genuine(s)'
    BY DEF Genuine, LastActivity
  <2> QED
    BY <1>1, <2>1 DEF SessionInv, Provenance
<1>3. /\ logins' \in 0 .. MaxLogins /\ logins' >= logins
      /\ loginAt' \in [Login -> Nat] /\ loginKey' \in [Login -> Nat]
      /\ lastUse' \in [Login -> Nat]
      /\ \A l \in Login : l <= logins => /\ loginAt'[l] = loginAt[l]
                                         /\ loginKey'[l] = loginKey[l]
                                         /\ lastUse'[l] >= lastUse[l]
      /\ \A l \in Login : lastUse'[l] <= now
  BY <1>0 DEF SessionInv, TypeOK, Clocked
<1> QED
  BY <1>0, <1>a, <1>1, <1>2, <1>3, ReplaceExchange DEF TypeOK

\* A successful callback keeps the invariant: its login is a new one.
LEMMA SessionCallback ==
    ASSUME SessionInv, NEW c \in Conn, ServeCallback(c)
    PROVE  SessionInv'
<1>a. PICK s : s = NewSession(logins + 1)
  OBVIOUS
<1>b. PICK left : left = SecondsUntil(SessionDeadline(s))
  OBVIOUS
<1>c. PICK x : x = Answer(c, "none", s, left, -1)
  OBVIOUS
<1>0. TypeOK /\ now \in Nat /\ conn[c] \in Exchange
  BY DEF SessionInv, TypeOK
<1>1. logins + 1 \in Login /\ logins \in Nat /\ logins + 1 \in 0 .. MaxLogins
  BY <1>0, SessionConfig DEF ServeCallback, TypeOK, Login
<1>2. /\ s \in SessionData /\ s.login = logins + 1 /\ s.issuedAt = now
      /\ s.expiresAt = now + AbsoluteTTL /\ s.key = key /\ LastActivity(s) = now
  BY <1>0, <1>1, <1>a, SessionConfig
     DEF NewSession, SessionData, LastActivity, ZeroTime, TypeOK
<1>3. left \in Int /\ Reaches(now, left, SessionDeadline(s))
  <2>1. now <= SessionDeadline(s)
    BY <1>0, <1>2, SessionConfig DEF SessionDeadline
  <2> QED
    BY <1>0, <1>2, <1>b, <2>1, DeadlineBound, LeftCovers
<1>4. /\ x \in Exchange /\ x.cookie = conn[c].cookie /\ x.set = s
      /\ x.maxAge = left /\ x.verdict = "none"
  <2>1. "none" \in Verdicts
    BY DEF Verdicts
  <2> QED
    BY <1>0, <1>2, <1>3, <1>c, <2>1, AnswerFields
<1>5. /\ conn' = [conn EXCEPT ![c] = x]
      /\ logins' = logins + 1
      /\ loginAt' = [loginAt EXCEPT ![s.login] = now]
      /\ loginKey' = [loginKey EXCEPT ![s.login] = key]
      /\ lastUse' = [lastUse EXCEPT ![s.login] = now]
      /\ UNCHANGED <<now, jar, key, loggedOut, crossed>>
  BY <1>a, <1>b, <1>c DEF ServeCallback
<1>6. /\ logins' \in 0 .. MaxLogins /\ logins' >= logins
      /\ loginAt' \in [Login -> Nat] /\ loginKey' \in [Login -> Nat]
      /\ lastUse' \in [Login -> Nat]
      /\ \A l \in Login : l <= logins => /\ loginAt'[l] = loginAt[l]
                                         /\ loginKey'[l] = loginKey[l]
                                         /\ lastUse'[l] >= lastUse[l]
      /\ \A l \in Login : lastUse'[l] <= now
      /\ loginAt'[s.login] = now /\ loginKey'[s.login] = key /\ lastUse'[s.login] = now
  BY <1>0, <1>1, <1>2, <1>5 DEF SessionInv, TypeOK, Clocked
<1>7. Genuine(s)'
  BY <1>0, <1>1, <1>2, <1>5, <1>6 DEF Genuine, LastActivity
<1>8. x.cookie # None => Genuine(x.cookie)'
  <2> SUFFICES ASSUME x.cookie # None PROVE Genuine(x.cookie)'
    OBVIOUS
  <2>1. x.cookie \in SessionData /\ Genuine(x.cookie)
    BY <1>0, <1>4 DEF Exchange, SessionInv, Provenance
  <2>2. x.cookie.login \in Login /\ x.cookie.login <= logins
    BY <2>1 DEF SessionData, Genuine
  <2>3. LastActivity(x.cookie) \in Nat /\ lastUse[x.cookie.login] \in Nat
    BY <1>0, <2>1, <2>2, DeadlineBound DEF TypeOK
  <2> QED
    BY <1>1, <1>5, <1>6, <2>1, <2>2, <2>3 DEF Genuine, LastActivity, Login
<1> QED
  BY <1>0, <1>2, <1>3, <1>4, <1>5, <1>6, <1>7, <1>8, ReplaceExchange DEF TypeOK

\* An exchange that carries no response keeps the invariant: a request being
\* sent, or a connection given up.
LEMMA SessionNoResponse ==
    ASSUME SessionInv, NEW c \in Conn, NEW x \in Exchange,
           x.set = None, x.verdict = "none",
           x.cookie # None => jar # None /\ x.cookie = jar.session,
           conn' = [conn EXCEPT ![c] = x], crossed' \subseteq Login,
           UNCHANGED <<now, jar, key, logins, loginAt, loginKey, lastUse, loggedOut>>
    PROVE  SessionInv'
<1>1. x.cookie # None => Genuine(x.cookie)'
  <2>1. \A s : Genuine(s) => Genuine(s)'
    BY DEF Genuine, LastActivity
  <2> QED
    BY <2>1 DEF SessionInv, Provenance
<1>2. /\ logins' \in 0 .. MaxLogins /\ logins' >= logins
      /\ loginAt' \in [Login -> Nat] /\ loginKey' \in [Login -> Nat]
      /\ lastUse' \in [Login -> Nat]
      /\ \A l \in Login : l <= logins => /\ loginAt'[l] = loginAt[l]
                                         /\ loginKey'[l] = loginKey[l]
                                         /\ lastUse'[l] >= lastUse[l]
      /\ \A l \in Login : lastUse'[l] <= now
  BY DEF SessionInv, TypeOK, Clocked
<1> QED
  BY <1>1, <1>2, ReplaceExchange

\* Delivering a response moves its cookie into the jar.
LEMMA SessionDeliver ==
    ASSUME SessionInv, NEW c \in Conn, Deliver(c)
    PROVE  SessionInv'
<1>a. PICK x : x = conn[c]
  OBVIOUS
<1>0. /\ TypeOK /\ now \in Nat /\ x \in Exchange
      /\ x.set \in SessionData \cup {None, Clear} /\ x.maxAge \in Int
      /\ x.cookie \in SessionData \cup {None}
  BY <1>a DEF SessionInv, TypeOK, Exchange
<1>1. /\ jar' = Store(x)
      /\ conn' = [conn EXCEPT ![c] = NoExchange]
      /\ UNCHANGED <<now, key, logins, loginAt, loginKey, lastUse>>
  BY <1>a DEF Deliver
<1>2. \/ jar' = jar
      \/ jar' = None
      \/ /\ x.set \in SessionData /\ x.set \notin {None, Clear} /\ x.maxAge \in Nat
         /\ jar' = [session |-> x.set, gotAt |-> now, maxAge |-> x.maxAge]
  <2>1. CASE x.set = None
    BY <1>1, <2>1 DEF Store
  <2>2. CASE x.set # None /\ (x.set = Clear \/ x.maxAge < 0)
    BY <1>1, <2>2 DEF Store
  <2>3. CASE x.set # None /\ x.set # Clear /\ ~(x.maxAge < 0)
    BY <1>0, <1>1, <2>3 DEF Store
  <2> QED
    BY <2>1, <2>2, <2>3
<1>3. \A d \in Conn : conn'[d] = IF d = c THEN NoExchange ELSE conn[d]
  BY <1>0, <1>1 DEF TypeOK
<1>4. NoExchange.cookie = None /\ NoExchange.set = None /\ NoExchange.verdict = "none"
  BY DEF NoExchange
<1>5. TypeOK'
  <2>1. jar' \in StoredCookie \cup {None}
    BY <1>0, <1>2 DEF TypeOK, StoredCookie
  <2>2. loggedOut' \subseteq Login
    BY <1>0, <1>a DEF Deliver, EndsLogin, TypeOK, SessionData
  <2>3. crossed' \subseteq Login
    BY <1>0 DEF Deliver, TypeOK
  <2> QED
    BY <1>0, <1>1, <2>1, <2>2, <2>3, NoExchangeType DEF TypeOK
<1>6. \A s : Genuine(s) => Genuine(s)'
  BY <1>1 DEF Genuine, LastActivity
<1>7. Provenance'
  <2>1. x.set \notin {None, Clear} => Genuine(x.set)
    BY <1>a DEF SessionInv, Provenance
  <2>2. (jar # None => Genuine(jar.session))'
    BY <1>1, <1>2, <1>6, <2>1 DEF SessionInv, Provenance, Genuine, LastActivity
  <2>3. ASSUME NEW d \in Conn
        PROVE  (conn[d].cookie # None => Genuine(conn[d].cookie))'
    BY <1>1, <1>3, <1>4, <1>6 DEF SessionInv, Provenance, Genuine, LastActivity
  <2>4. ASSUME NEW d \in Conn
        PROVE  (conn[d].set \notin {None, Clear} => Genuine(conn[d].set))'
    BY <1>1, <1>3, <1>4, <1>6 DEF SessionInv, Provenance, Genuine, LastActivity
  <2> QED
    BY <2>2, <2>3, <2>4 DEF Provenance
<1>8. Clocked' /\ MaxAgeCovers'
  BY <1>1, <1>3, <1>4
     DEF SessionInv, Clocked, MaxAgeCovers, Reaches, SessionDeadline, LastActivity
<1>9. NoEarlyDrop'
  <2>1. x.set \notin {None, Clear} =>
          2 * (SessionDeadline(x.set) - (now + Second * x.maxAge)) < Second
    BY <1>a DEF SessionInv, MaxAgeCovers, Reaches
  <2> QED
    BY <1>1, <1>2, <2>1 DEF SessionInv, NoEarlyDrop, SessionDeadline, LastActivity
<1> QED
  BY <1>5, <1>7, <1>8, <1>9 DEF SessionInv

\* Time passes; what was promised relative to the present stays promised.
LEMMA SessionTick ==
    ASSUME SessionInv, Tick
    PROVE  SessionInv'
<1>0. TypeOK /\ now \in Nat /\ now' = now + 1
  BY DEF SessionInv, TypeOK, Tick
<1>1. TypeOK' /\ NoEarlyDrop'
  BY <1>0 DEF SessionInv, TypeOK, Tick, NoEarlyDrop, SessionDeadline,
              LastActivity
<1>2. Provenance'
  BY DEF SessionInv, Tick, Provenance, Genuine, LastActivity
<1>3. Clocked'
  BY <1>0 DEF SessionInv, TypeOK, Tick, Clocked
<1>4. MaxAgeCovers'
  <2> SUFFICES ASSUME NEW c \in Conn, conn[c].set \notin {None, Clear}
               PROVE  Reaches(now + 1, conn[c].maxAge, SessionDeadline(conn[c].set))
    BY <1>0 DEF Tick, MaxAgeCovers, Reaches, SessionDeadline, LastActivity
  <2>1. conn[c] \in Exchange
    BY <1>0 DEF TypeOK
  <2>2. conn[c].maxAge \in Int /\ conn[c].set \in SessionData
    BY <2>1 DEF Exchange
  <2>3. SessionDeadline(conn[c].set) \in Nat
    BY <2>2, DeadlineBound
  <2>4. Second * conn[c].maxAge \in Int
    BY <2>2, SessionConfig
  <2>5. Reaches(now, conn[c].maxAge, SessionDeadline(conn[c].set))
    BY DEF SessionInv, MaxAgeCovers
  <2> QED
    BY <1>0, <2>3, <2>4, <2>5, SessionConfig DEF Reaches
<1> QED
  BY <1>1, <1>2, <1>3, <1>4 DEF SessionInv

\* Nothing the invariant speaks of depends on the key the gateway runs with.
LEMMA SessionRotate ==
    ASSUME SessionInv, TypeOK', UNCHANGED <<now, jar, conn, logins, loginAt, loginKey, lastUse>>
    PROVE  SessionInv'
BY DEF SessionInv, Provenance, Clocked, MaxAgeCovers, Reaches, NoEarlyDrop,
       Genuine, SessionDeadline, LastActivity

\* Every step of the gateway and the browser keeps the invariant.
LEMMA SessionStep == SessionInv /\ [Next]_vars => SessionInv'
<1> SUFFICES ASSUME SessionInv, [Next]_vars PROVE SessionInv'
  OBVIOUS
<1>0. TypeOK /\ now \in Nat
  BY DEF SessionInv, TypeOK
<1>1. CASE Tick
  BY <1>1, SessionTick
<1>2. CASE RotateKey
  BY <1>0, <1>2, SessionRotate DEF RotateKey, TypeOK
<1>3. ASSUME NEW c \in Conn, NEW kind \in Kinds, Send(c, kind)
      PROVE  SessionInv'
  <2>a. PICK x : x = Request(kind)
    OBVIOUS
  <2>1. /\ x \in Exchange /\ x.set = None /\ x.verdict = "none"
        /\ x.cookie = JarSession
    BY <1>0, <2>a, JarSessionType DEF Request, Exchange, Verdicts
  <2>2. /\ conn' = [conn EXCEPT ![c] = x]
        /\ UNCHANGED <<now, jar, key, logins, loginAt, loginKey, lastUse, loggedOut>>
    BY <1>3, <2>a DEF Send
  <2>4. crossed' \subseteq Login
    <3>1. \/ crossed' = crossed
          \/ JarSession # None /\ crossed' = crossed \cup {JarSession.login}
      BY <1>3 DEF Send
    <3> QED
      BY <1>0, <3>1, JarSessionType DEF TypeOK, SessionData
  <2>3. x.cookie # None => jar # None /\ x.cookie = jar.session
    BY <1>0, <2>1, JarSessionType
  <2> QED
    BY <2>1, <2>2, <2>3, <2>4, SessionNoResponse
<1>4. ASSUME NEW c \in Conn, Admit(c) PROVE SessionInv'
  BY <1>4, SessionAdmit
<1>5. ASSUME NEW c \in Conn, Deny(c) \/ ServeLogout(c) PROVE SessionInv'
  <2>a. PICK verdict : verdict = ValidateSessionCookie(conn[c].cookie)
    OBVIOUS
  <2>1. conn[c].cookie \in SessionData \cup {None}
    BY <1>0 DEF TypeOK, Exchange
  <2>2. verdict \in Verdicts
    BY <1>0, <2>a, <2>1, VerdictMeaning
  <2>3. /\ conn' = [conn EXCEPT ![c] = Answer(c, verdict, Clear, 0, -1)]
        /\ UNCHANGED crossed
        /\ UNCHANGED <<now, jar, key, logins, loginAt, loginKey, lastUse, loggedOut>>
    BY <1>5, <2>a DEF Deny, ServeLogout
  <2> QED
    BY <2>2, <2>3, SessionClear
<1>6. ASSUME NEW c \in Conn, ServeCallback(c) PROVE SessionInv'
  BY <1>6, SessionCallback
<1>7. ASSUME NEW c \in Conn, Deliver(c) PROVE SessionInv'
  BY <1>7, SessionDeliver
<1>8. ASSUME NEW c \in Conn, Lose(c) PROVE SessionInv'
  <2>1. NoExchange.cookie = None /\ NoExchange.set = None /\ NoExchange.verdict = "none"
    BY DEF NoExchange
  <2>2. crossed' \subseteq Login
    BY <1>0, <1>8 DEF Lose, TypeOK, Exchange, SessionData
  <2> QED
    BY <1>8, <2>1, <2>2, NoExchangeType, SessionNoResponse DEF Lose
<1>9. CASE UNCHANGED vars
  BY <1>0, <1>9, SessionRotate DEF vars, TypeOK
<1> QED
  BY <1>1, <1>2, <1>3, <1>4, <1>5, <1>6, <1>7, <1>8, <1>9 DEF Next

-----------------------------------------------------------------------------
(* Theorems *)

\* The strengthened invariant holds in every reachable state.
THEOREM SessionInvariant == Spec => []SessionInv
<1>1. SessionInv /\ [Next]_vars => SessionInv'
  BY SessionStep
<1> QED
  BY SessionInit, <1>1, PTL DEF Spec

\* The state has its type.
THEOREM SessionTyped == Spec => []TypeOK
<1>1. SessionInv => TypeOK
  BY DEF SessionInv
<1> QED
  BY SessionInvariant, <1>1, PTL

\* No re-issue by touchSession, in any overlap of requests, moves the absolute
\* expiry of a session or invents activity.
THEOREM SessionProvenance == Spec => []Provenance
<1>1. SessionInv => Provenance
  BY DEF SessionInv
<1> QED
  BY SessionInvariant, <1>1, PTL

\* The browser drops no cookie as much as half a second before the gateway would refuse
\* it: what setSessionCookie rounds away of Max-Age is less than that.
THEOREM SessionNoEarlyDrop == Spec => []NoEarlyDrop
<1>1. SessionInv => NoEarlyDrop
  BY DEF SessionInv
<1> QED
  BY SessionInvariant, <1>1, PTL

-----------------------------------------------------------------------------
(* The refinement of Lease *)

\* A session that validation accepts comes from a login that is still good.
LEMMA AcceptedIsGood ==
    ASSUME SessionInv, NEW c \in Conn, Admit(c)
    PROVE  /\ conn[c].cookie.login \in 1 .. logins
           /\ conn[c].cookie.login \in Login
           /\ Policy!Good(Table[conn[c].cookie.login])
<1>a. PICK s : s = conn[c].cookie
  OBVIOUS
<1>0. TypeOK /\ now \in Nat /\ conn[c] \in Exchange
  BY DEF SessionInv, TypeOK
<1>1. /\ s \in SessionData /\ s # None
      /\ now <= s.expiresAt
      /\ IdleTTL > 0 => now <= LastActivity(s) + IdleTTL
  BY <1>0, <1>a, VerdictMeaning, Sentinels DEF Admit, Exchange
<1>2. s.key = key
  BY <1>a, <1>1 DEF Admit, ValidateSessionCookie
<1>3. Genuine(s) /\ s.login \in Login /\ LastActivity(s) \in Nat
  BY <1>1, <1>a, DeadlineBound DEF SessionInv, Provenance, SessionData
<1>4. s.login \in 1 .. logins /\ loginAt[s.login] \in Nat /\ lastUse[s.login] \in Nat
  BY <1>0, <1>3, SessionConfig DEF Genuine, TypeOK, Login
<1>5. Table[s.login] = [since |-> loginAt[s.login], key |-> loginKey[s.login],
                        used |-> lastUse[s.login]]
  BY <1>4 DEF Table
<1>6. Policy!Good(Table[s.login])
  BY <1>0, <1>1, <1>2, <1>3, <1>4, <1>5, SessionConfig DEF Policy!Good, Genuine
<1> QED
  BY <1>a, <1>3, <1>4, <1>6

\* The initial table holds the logins that are older than the process.
LEMMA LeaseInit == Init => Policy!Init
<1> SUFFICES ASSUME Init PROVE Policy!Init
  OBVIOUS
<1>1. 1 .. logins \in SUBSET Login
  BY SessionConfig DEF Init, Login
<1>2. Table = [l \in 1 .. logins |-> [since |-> 0, key |-> 1, used |-> 0]]
  BY <1>1 DEF Init, Table
<1> QED
  BY <1>1, <1>2 DEF Init, Policy!Init

\* Every step enters a login in the table, marks one as used, or leaves it alone.
LEMMA LeaseStep ==
    SessionInv /\ [Next]_vars => [Policy!Next]_<<now, key, Table>>
<1> SUFFICES ASSUME SessionInv, [Next]_vars
             PROVE  [Policy!Next]_<<now, key, Table>>
  OBVIOUS
<1>0. TypeOK /\ now \in Nat /\ logins \in Nat
  BY DEF SessionInv, TypeOK
<1>1. CASE UNCHANGED <<logins, loginAt, loginKey, lastUse>>
  <2>1. Table' = Table
    BY <1>1 DEF Table
  <2>2. CASE Tick
    BY <2>1, <2>2 DEF Tick, Policy!Tick, Policy!Next
  <2>3. CASE RotateKey
    BY <2>1, <2>3 DEF RotateKey, Policy!RotateKey, Policy!Next
  <2>4. CASE UNCHANGED <<now, key>>
    BY <2>1, <2>4
  <2>5. Tick \/ RotateKey \/ UNCHANGED <<now, key>>
    BY DEF Next, vars, Send, Admit, Deny, ServeLogout, ServeCallback, Deliver, Lose
  <2> QED
    BY <2>2, <2>3, <2>4, <2>5
<1>2. ASSUME NEW c \in Conn, Admit(c)
      PROVE  Policy!Next
  <2>a. PICK l : l = conn[c].cookie.login
    OBVIOUS
  <2>1. l \in 1 .. logins /\ l \in Login /\ Policy!Good(Table[l])
    BY <1>2, <2>a, AcceptedIsGood
  <2>2. lastUse' = [lastUse EXCEPT ![l] = now]
        /\ UNCHANGED <<now, key, logins, loginAt, loginKey>>
    BY <1>2, <2>a DEF Admit
  <2>3. \A k \in 1 .. logins : lastUse'[k] = IF k = l THEN now ELSE lastUse[k]
    BY <1>0, <2>1, <2>2 DEF TypeOK, Login
  <2>4. Table' = [Table EXCEPT ![l].used = now]
    BY <2>1, <2>2, <2>3 DEF Table
  <2>5. l \in DOMAIN Table
    BY <2>1 DEF Table
  <2>6. Policy!Use(l)
    BY <2>1, <2>2, <2>4, <2>5 DEF Policy!Use
  <2> QED
    BY <2>1, <2>6 DEF Policy!Next
<1>3. ASSUME NEW c \in Conn, ServeCallback(c)
      PROVE  Policy!Next
  <2>a. PICK l : l = logins + 1
    OBVIOUS
  <2>0. logins' = l /\ logins < MaxLogins
    BY <1>3, <2>a DEF ServeCallback
  <2>1. /\ l \in Login /\ l \notin 1 .. logins
        /\ 1 .. logins' = (1 .. logins) \cup {l}
        /\ 1 .. logins' \subseteq Login
    BY <1>0, <2>0, <2>a, SessionConfig DEF Login
  <2>2. /\ loginAt' = [loginAt EXCEPT ![l] = now]
        /\ loginKey' = [loginKey EXCEPT ![l] = key]
        /\ lastUse' = [lastUse EXCEPT ![l] = now]
        /\ UNCHANGED <<now, key>>
    BY <1>3, <2>a DEF ServeCallback, NewSession
  <2>3. \A k \in 1 .. logins' :
           /\ loginAt'[k] = IF k = l THEN now ELSE loginAt[k]
           /\ loginKey'[k] = IF k = l THEN key ELSE loginKey[k]
           /\ lastUse'[k] = IF k = l THEN now ELSE lastUse[k]
    BY <1>0, <2>1, <2>2 DEF TypeOK
  <2>4. DOMAIN Table = 1 .. logins
    BY DEF Table
  <2>5. Table' = [k \in DOMAIN Table \cup {l} |->
                     IF k = l THEN [since |-> now, key |-> key, used |-> now]
                              ELSE Table[k]]
    BY <2>1, <2>3, <2>4 DEF Table
  <2>6. Policy!Grant(l)
    BY <2>1, <2>2, <2>4, <2>5 DEF Policy!Grant
  <2> QED
    BY <2>1, <2>6 DEF Policy!Next
<1>4. \/ UNCHANGED <<logins, loginAt, loginKey, lastUse>>
      \/ \E c \in Conn : Admit(c) \/ ServeCallback(c)
  BY DEF Next, vars, Tick, RotateKey, Send, Deny, ServeLogout, Deliver, Lose
<1> QED
  BY <1>1, <1>2, <1>3, <1>4

\* The gateway, which keeps no table of logins, admits as if it kept one: no
\* request outlives SESSION_ABSOLUTE_TTL, SESSION_IDLE_TTL or the session key.
THEOREM SessionImplementsLease == Spec => ImplementsLease
<1>1. SessionInv /\ [Next]_vars => [Policy!Next]_<<now, key, Table>>
  BY LeaseStep
<1> QED
  BY LeaseInit, SessionInvariant, <1>1, PTL DEF Spec, ImplementsLease, Policy!Spec

\* No login was made with a key that is still to come.
Keyed == \A l \in Login : loginKey[l] <= key

\* Every step keeps it so.
LEMMA KeyedStep == TypeOK /\ Keyed /\ [Next]_vars => Keyed'
<1> SUFFICES ASSUME TypeOK, Keyed, [Next]_vars PROVE Keyed'
  OBVIOUS
<1>1. key \in Nat /\ loginKey \in [Login -> Nat]
  BY DEF TypeOK
<1>2. CASE RotateKey
  BY <1>1, <1>2 DEF RotateKey, Keyed
<1>3. ASSUME NEW c \in Conn, ServeCallback(c) PROVE Keyed'
  <2>1. \E l : loginKey' = [loginKey EXCEPT ![l] = key] /\ key' = key
    BY <1>3 DEF ServeCallback
  <2> QED
    BY <1>1, <2>1 DEF Keyed
<1>4. CASE UNCHANGED <<key, loginKey>>
  BY <1>4 DEF Keyed
<1>5. \/ RotateKey \/ UNCHANGED <<key, loginKey>>
      \/ \E c \in Conn : ServeCallback(c)
  BY DEF Next, vars, Tick, Send, Admit, Deny, ServeLogout, Deliver, Lose
<1> QED
  BY <1>2, <1>3, <1>4, <1>5

\* A login that is over is over for good, and no more use of it counts.
OverStays ==
    \A l \in 1 .. logins : ~Policy!Good(Table[l]) =>
        ~Policy!Good(Table[l])' /\ lastUse'[l] = lastUse[l]

\* A login that is over by its lifetime, its idle timeout or its key stays over: no
\* later re-issue by touchSession, no request still under way and no other copy of the
\* cookie brings it back, since nothing but an admission would.
THEOREM SessionOverStays == Spec => [][OverStays]_vars
<1>1. ASSUME SessionInv, Keyed, [Next]_vars, NEW l \in 1 .. logins, ~Policy!Good(Table[l])
      PROVE  ~Policy!Good(Table[l])' /\ lastUse'[l] = lastUse[l]
  <2>1. /\ now \in Nat /\ key \in Nat /\ logins \in Nat /\ l \in Login
        /\ loginAt[l] \in Nat /\ loginKey[l] \in Nat /\ lastUse[l] \in Nat
        /\ loginKey[l] <= key
    <3>1. l \in Login /\ logins \in Nat
      <4>1. logins \in 0 .. MaxLogins
        BY <1>1 DEF SessionInv, TypeOK
      <4> QED
        BY <4>1, SessionConfig DEF Login
    <3> QED
      BY <1>1, <3>1 DEF SessionInv, TypeOK, Keyed
  <2>2. Table[l] = [since |-> loginAt[l], key |-> loginKey[l], used |-> lastUse[l]]
    BY DEF Table
  <2>3. \/ loginKey[l] # key \/ now > loginAt[l] + AbsoluteTTL
        \/ IdleTTL > 0 /\ now > lastUse[l] + IdleTTL
    BY <1>1, <2>1, <2>2, SessionConfig DEF Policy!Good
  <2>4. /\ UNCHANGED <<loginAt[l], loginKey[l], lastUse[l]>> /\ l \in 1 .. logins'
        /\ now' \in {now, now + 1} /\ key' \in {key, key + 1}
    <3>1. ASSUME NEW c \in Conn, Admit(c)
          PROVE  /\ UNCHANGED <<now, key, logins, loginAt, loginKey>>
                 /\ lastUse'[l] = lastUse[l]
      <4>1. Policy!Good(Table[conn[c].cookie.login])
        BY <1>1, <3>1, AcceptedIsGood
      <4>2. conn[c].cookie.login # l
        BY <1>1, <4>1
      <4>3. /\ UNCHANGED <<now, key, logins, loginAt, loginKey>>
            /\ \E m : m # l /\ lastUse' = [lastUse EXCEPT ![m] = now]
        BY <3>1, <4>2 DEF Admit
      <4> QED
        BY <2>1, <4>3 DEF SessionInv, TypeOK
    <3>2. ASSUME NEW c \in Conn, ServeCallback(c)
          PROVE  /\ UNCHANGED <<now, key, loginAt[l], loginKey[l], lastUse[l]>>
                 /\ logins' = logins + 1
      <4>1. /\ UNCHANGED <<now, key>> /\ logins' = logins + 1
            /\ \E m : /\ m = logins + 1
                      /\ loginAt' = [loginAt EXCEPT ![m] = now]
                      /\ loginKey' = [loginKey EXCEPT ![m] = key]
                      /\ lastUse' = [lastUse EXCEPT ![m] = now]
        BY <3>2 DEF ServeCallback, NewSession
      <4>2. l # logins + 1
        BY <2>1
      <4> QED
        BY <2>1, <4>1, <4>2 DEF SessionInv, TypeOK
    <3>3. CASE UNCHANGED <<logins, loginAt, loginKey, lastUse>>
      <4>1. Tick \/ RotateKey \/ UNCHANGED <<now, key>>
        BY <1>1 DEF Next, vars, Send, Admit, Deny, ServeLogout, ServeCallback, Deliver, Lose
      <4> QED
        BY <3>3, <4>1 DEF Tick, RotateKey
    <3>4. \/ UNCHANGED <<logins, loginAt, loginKey, lastUse>>
          \/ \E c \in Conn : Admit(c) \/ ServeCallback(c)
      BY <1>1 DEF Next, vars, Tick, RotateKey, Send, Deny, ServeLogout, Deliver, Lose
    <3> QED
      BY <2>1, <3>1, <3>2, <3>3, <3>4
  <2>5. Table[l]' = [since |-> loginAt[l], key |-> loginKey[l], used |-> lastUse[l]]
    BY <2>4 DEF Table
  <2>6. \/ loginKey[l] # key' \/ now' > loginAt[l] + AbsoluteTTL
        \/ IdleTTL > 0 /\ now' > lastUse[l] + IdleTTL
    BY <2>1, <2>3, <2>4, SessionConfig
  <2>7. now' \in Nat
    BY <2>1, <2>4
  <2> QED
    BY <2>1, <2>4, <2>5, <2>6, <2>7, SessionConfig DEF Policy!Good
<1>2. SessionInv /\ Keyed /\ [Next]_vars => [OverStays]_vars
  BY <1>1 DEF OverStays
<1>3. Init => Keyed
  BY DEF Init, Keyed
<1>4. SessionInv => TypeOK
  BY DEF SessionInv
<1> QED
  BY SessionInvariant, KeyedStep, <1>2, <1>3, <1>4, PTL DEF Spec

-----------------------------------------------------------------------------
(* Overlapping requests: what no login loses whose requests did not cross *)

\* The stored activity lags behind the real one by less than a refresh interval.
Fresh(s) == IdleTTL > 0 => LastActivity(s) > lastUse[s.login] - RefreshInterval

\* Is a cookie of the login on its way to the browser?
Renewing(login) ==
    \E c \in Conn : conn[c].set \notin {None, Clear} /\ conn[c].set.login = login

\* Only a response sets a cookie, and a logout deletes it.
Shaped ==
    \A c \in Conn :
        /\ conn[c].phase # "served" => conn[c].set = None
        /\ conn[c].phase = "served" /\ conn[c].kind = "logout" => conn[c].set = Clear

\* No two exchanges are about the login.
Alone ==
    \A c, d \in Conn : \A l \in Login \ crossed :
        About(conn[c], l) /\ About(conn[d], l) => c = d

\* As long as the exchange is under way, the jar keeps the cookie it carries.
Carried ==
    \A c \in Conn :
        /\ conn[c].phase # "idle" /\ conn[c].cookie # None
        /\ jar # None /\ jar.session.login = conn[c].cookie.login
        /\ jar.session.login \notin crossed
        => jar.session = conn[c].cookie

\* A cookie that was not replaced yet is fresh: in a request, ...
FreshSent ==
    \A c \in Conn :
        conn[c].phase = "sent" /\ conn[c].cookie # None
        /\ conn[c].cookie.login \notin crossed => Fresh(conn[c].cookie)

\* ... in a response, ...
FreshSet ==
    \A c \in Conn :
        conn[c].set \notin {None, Clear}
        /\ conn[c].set.login \notin crossed => Fresh(conn[c].set)

\* ... and in the jar.
FreshJar ==
    jar # None /\ jar.session.login \notin crossed
    /\ ~Renewing(jar.session.login) => Fresh(jar.session)

\* Of a login that was logged out nothing is left.
Ended ==
    \A l \in loggedOut :
        /\ l <= logins
        /\ jar # None => jar.session.login # l
        /\ \A c \in Conn : ~About(conn[c], l)

OverlapInv ==
    /\ Shaped /\ Alone /\ Carried /\ Ended
    /\ FreshSent /\ FreshSet /\ FreshJar

\* The overlap invariant holds initially: nothing is under way.
LEMMA OverlapInit == Init => OverlapInv
<1> SUFFICES ASSUME Init PROVE OverlapInv
  OBVIOUS
<1>1. /\ NoExchange.cookie = None /\ NoExchange.set = None
      /\ NoExchange.phase = "idle"
  BY DEF NoExchange
<1>2. \A c \in Conn : conn[c] = NoExchange
  BY DEF Init
<1>3. FreshJar
  <2>1. 1 \in Login
    BY SessionConfig DEF Login
  <2> QED
    BY <2>1, SessionConfig
       DEF Init, FreshJar, Fresh, LegacySession, LastActivity, ZeroTime
<1>4. loggedOut = {}
  BY DEF Init
<1> QED
  BY <1>1, <1>2, <1>3, <1>4
     DEF OverlapInv, Shaped, Alone, Carried, Ended, FreshSent, FreshSet, About

\* The sessions the state holds are sessions, of logins that took place.
LEMMA Sessions ==
    ASSUME SessionInv
    PROVE  /\ jar # None => /\ jar.session \in SessionData
                            /\ jar.session.login \in Login
                            /\ jar.session.login <= logins
           /\ \A c \in Conn :
                 /\ conn[c].cookie # None =>
                       /\ conn[c].cookie \in SessionData
                       /\ conn[c].cookie.login \in Login
                       /\ conn[c].cookie.login <= logins
                 /\ conn[c].set \notin {None, Clear} =>
                       /\ conn[c].set \in SessionData
                       /\ conn[c].set.login \in Login
                       /\ conn[c].set.login <= logins
<1>1. \A c \in Conn : conn[c] \in Exchange
  BY DEF SessionInv, TypeOK
<1>2. \A s : s \in SessionData => s.login \in Login
  BY DEF SessionData
<1>3. jar # None => jar.session \in SessionData
  BY DEF SessionInv, TypeOK, StoredCookie
<1>4. \A c \in Conn : /\ conn[c].cookie # None => conn[c].cookie \in SessionData
                      /\ conn[c].set \notin {None, Clear} => conn[c].set \in SessionData
  BY <1>1 DEF Exchange
<1> QED
  BY <1>2, <1>3, <1>4 DEF SessionInv, Provenance, Genuine

\* What RequireAuth leaves behind when it admits the request on c.
LEMMA AdmitEffect ==
    ASSUME SessionInv, NEW c \in Conn, Admit(c)
    PROVE  \E x \in Exchange, s \in SessionData :
              /\ s = conn[c].cookie /\ s # None /\ s.login \in Login
              /\ conn[c].phase = "sent" /\ conn[c].kind = "api"
              /\ conn' = [conn EXCEPT ![c] = x]
              /\ lastUse' = [lastUse EXCEPT ![s.login] = now]
              /\ UNCHANGED <<now, jar, logins, loggedOut, crossed>>
              /\ x.phase = "served" /\ x.kind = "api" /\ x.cookie = s
              /\ \/ /\ x.set \in SessionData /\ x.set.login = s.login
                    /\ LastActivity(x.set) = now
                 \/ x.set = None /\ ~RefreshDue(s)
<1>a. PICK s : s = conn[c].cookie
  OBVIOUS
<1>b. PICK touched : touched = TouchSession(s)
  OBVIOUS
<1>c. PICK left : left = SecondsUntil(SessionDeadline(touched))
  OBVIOUS
<1>d. PICK x : x = IF RefreshDue(s) THEN Answer(c, "ok", touched, left, left)
                                    ELSE Answer(c, "ok", None, 0, left)
  OBVIOUS
<1>0. TypeOK /\ now \in Nat /\ conn[c] \in Exchange
  BY DEF SessionInv, TypeOK
<1>1. s \in SessionData /\ s # None /\ s.login \in Login
  BY <1>0, <1>a, VerdictMeaning, Sentinels DEF Admit, Exchange, SessionData
<1>2. touched \in SessionData /\ touched.login = s.login
      /\ (RefreshDue(s) => LastActivity(touched) = now)
  BY <1>0, <1>1, <1>b, TouchKeeps
<1>3. left \in Int
  BY <1>0, <1>2, <1>c, LeftCovers, DeadlineBound
<1>4. /\ conn' = [conn EXCEPT ![c] = x]
      /\ lastUse' = [lastUse EXCEPT ![s.login] = now]
      /\ UNCHANGED <<now, jar, logins, loggedOut, crossed>>
      /\ conn[c].phase = "sent" /\ conn[c].kind = "api"
  BY <1>a, <1>b, <1>c, <1>d DEF Admit
<1>5. "ok" \in Verdicts /\ 0 \in Int
  BY DEF Verdicts
<1>6. CASE RefreshDue(s)
  <2>1. x = Answer(c, "ok", touched, left, left)
    BY <1>d, <1>6
  <2>2. /\ x \in Exchange /\ x.phase = "served" /\ x.kind = "api" /\ x.cookie = s
        /\ x.set = touched
    BY <1>0, <1>2, <1>3, <1>4, <1>5, <1>a, <2>1, AnswerFields
  <2> QED
    BY <1>1, <1>2, <1>4, <1>6, <1>a, <2>2
<1>7. CASE ~RefreshDue(s)
  <2>1. x = Answer(c, "ok", None, 0, left)
    BY <1>d, <1>7
  <2>2. /\ x \in Exchange /\ x.phase = "served" /\ x.kind = "api" /\ x.cookie = s
        /\ x.set = None
    BY <1>0, <1>3, <1>4, <1>a, <2>1, PlainAnswerFields
  <2> QED
    BY <1>1, <1>4, <1>7, <1>a, <2>2
<1> QED
  BY <1>6, <1>7

\* Admitting a request keeps the overlap invariant: nothing else is about its
\* login, and the jar still holds what it carries.
LEMMA OverlapAdmit ==
    ASSUME SessionInv, OverlapInv, NEW c \in Conn, Admit(c)
    PROVE  OverlapInv'
<1>0. TypeOK /\ now \in Nat
  BY DEF SessionInv, TypeOK
<1>1. PICK x \in Exchange, s \in SessionData :
              /\ s = conn[c].cookie /\ s # None /\ s.login \in Login
              /\ conn[c].phase = "sent" /\ conn[c].kind = "api"
              /\ conn' = [conn EXCEPT ![c] = x]
              /\ lastUse' = [lastUse EXCEPT ![s.login] = now]
              /\ UNCHANGED <<now, jar, logins, loggedOut, crossed>>
              /\ x.phase = "served" /\ x.kind = "api" /\ x.cookie = s
              /\ \/ /\ x.set \in SessionData /\ x.set.login = s.login
                    /\ LastActivity(x.set) = now
                 \/ x.set = None /\ ~RefreshDue(s)
  BY AdmitEffect
<1>2. \A d \in Conn : conn'[d] = IF d = c THEN x ELSE conn[d]
  BY <1>0, <1>1 DEF TypeOK
<1>3. \A l : About(x, l) => About(conn[c], l)
  BY <1>1 DEF About
<1>4. /\ \A l \in Login : l # s.login => lastUse'[l] = lastUse[l]
      /\ lastUse'[s.login] = now
  BY <1>0, <1>1 DEF TypeOK
<1>5. About(conn[c], s.login)
  BY <1>1 DEF About
<1>6. Shaped'
  BY <1>1, <1>2 DEF OverlapInv, Shaped
<1>7. Alone'
  BY <1>1, <1>2, <1>3 DEF OverlapInv, Alone
<1>8. Carried'
  BY <1>1, <1>2 DEF OverlapInv, Carried
<1>9. Ended'
  BY <1>1, <1>2, <1>3 DEF OverlapInv, Ended
<1>10. FreshSent'
  <2> SUFFICES ASSUME NEW d \in Conn, conn'[d].phase = "sent", conn'[d].cookie # None,
                      conn'[d].cookie.login \notin crossed
               PROVE  Fresh(conn[d].cookie)'
    BY <1>1 DEF FreshSent
  <2>1. d # c /\ conn'[d] = conn[d]
    BY <1>1, <1>2
  <2>2. conn[d].cookie.login \in Login /\ About(conn[d], conn[d].cookie.login)
    BY <2>1, Sessions DEF About
  <2>3. conn[d].cookie.login # s.login
    BY <1>1, <1>5, <2>1, <2>2 DEF OverlapInv, Alone
  <2> QED
    BY <1>1, <1>4, <2>1, <2>2, <2>3 DEF OverlapInv, FreshSent, Fresh, LastActivity
<1>11. FreshSet'
  <2> SUFFICES ASSUME NEW d \in Conn, conn'[d].set \notin {None, Clear},
                      conn'[d].set.login \notin crossed
               PROVE  Fresh(conn[d].set)'
    BY <1>1 DEF FreshSet
  <2>1. CASE d = c
    <3>1. conn'[d] = x /\ LastActivity(x.set) = now /\ x.set.login = s.login
      BY <1>1, <1>2, <2>1
    <3> QED
      BY <1>0, <1>1, <1>4, <3>1, SessionConfig DEF Fresh, LastActivity
  <2>2. CASE d # c
    <3>1. conn'[d] = conn[d]
      BY <1>2, <2>2
    <3>2. conn[d].set.login \in Login /\ About(conn[d], conn[d].set.login)
      BY <3>1, Sessions DEF About, OverlapInv, Shaped
    <3>3. conn[d].set.login # s.login
      BY <1>1, <1>5, <2>2, <3>1, <3>2 DEF OverlapInv, Alone
    <3> QED
      BY <1>1, <1>4, <3>1, <3>2, <3>3 DEF OverlapInv, FreshSet, Fresh, LastActivity
  <2> QED
    BY <2>1, <2>2
<1>12. FreshJar'
  <2> SUFFICES ASSUME jar # None, jar.session.login \notin crossed,
                      ~Renewing(jar.session.login)'
               PROVE  Fresh(jar.session)'
    BY <1>1 DEF FreshJar
  <2>1. jar.session.login \in Login /\ jar.session \in SessionData
    BY Sessions
  <2>2. CASE jar.session.login = s.login
    <3>1. jar.session = s
      BY <1>1, <2>2 DEF OverlapInv, Carried
    <3>2. x.set \notin SessionData \/ x.set.login # s.login
      BY <1>1, <1>2, <2>2, Sentinels DEF Renewing
    <3>3. ~RefreshDue(s)
      BY <1>1, <3>2
    <3>4. LastActivity(s) \in Nat
      BY DeadlineBound
    <3>5. IdleTTL > 0 => LastActivity(s) > now - RefreshInterval
      BY <1>0, <3>3, <3>4, SessionConfig DEF RefreshDue
    <3> QED
      BY <1>1, <1>4, <3>1, <3>5 DEF Fresh, LastActivity
  <2>3. CASE jar.session.login # s.login
    <3>1. ~Renewing(jar.session.login)
      <4> SUFFICES ASSUME NEW d \in Conn, conn[d].set \notin {None, Clear},
                          conn[d].set.login = jar.session.login
                   PROVE  FALSE
        BY DEF Renewing
      <4>1. d # c
        BY <1>1 DEF OverlapInv, Shaped
      <4> QED
        BY <1>1, <1>2, <4>1 DEF Renewing
    <3> QED
      BY <1>1, <1>4, <2>1, <2>3, <3>1 DEF OverlapInv, FreshJar, Fresh, LastActivity
  <2> QED
    BY <2>2, <2>3
<1> QED
  BY <1>6, <1>7, <1>8, <1>9, <1>10, <1>11, <1>12 DEF OverlapInv

\* Replacing the exchange on c by one that is about no further login, sets no
\* cookie and does not ask anew keeps the invariant, if the jar loses nothing fresh.
LEMMA OverlapQuiet ==
    ASSUME SessionInv, OverlapInv, NEW c \in Conn, NEW x \in Exchange,
           conn' = [conn EXCEPT ![c] = x],
           UNCHANGED <<now, jar, lastUse, logins, loggedOut>>,
           crossed \subseteq crossed',
           x.phase # "sent", x.set \in {None, Clear},
           x.phase # "served" => x.set = None,
           x.phase = "served" => x.kind = conn[c].kind /\ x.cookie = conn[c].cookie,
           x.phase = "served" /\ x.kind = "logout" => x.set = Clear,
           x.phase = "served" => conn[c].phase # "idle",
           conn[c].set \notin {None, Clear} => conn[c].set.login \in crossed'
    PROVE  OverlapInv'
<1>0. TypeOK
  BY DEF SessionInv
<1>1. \A d \in Conn : conn'[d] = IF d = c THEN x ELSE conn[d]
  BY <1>0 DEF TypeOK
<1>a. x.phase \in {"idle", "sent", "served"}
  BY DEF Exchange
<1>2. \A l : About(x, l) => About(conn[c], l)
  BY <1>a DEF About
<1>3. Shaped'
  BY <1>1 DEF OverlapInv, Shaped
<1>4. Alone'
  BY <1>1, <1>2 DEF OverlapInv, Alone
<1>5. Carried'
  BY <1>1, <1>a DEF OverlapInv, Carried
<1>6. Ended'
  BY <1>1, <1>2 DEF OverlapInv, Ended
<1>7. \A s : Fresh(s) => Fresh(s)'
  BY DEF Fresh, LastActivity
<1>8. FreshSent'
  BY <1>1 DEF OverlapInv, FreshSent, Fresh, LastActivity
<1>9. FreshSet'
  BY <1>1 DEF OverlapInv, FreshSet, Fresh, LastActivity
<1>10. FreshJar'
  <2> SUFFICES ASSUME jar # None, jar.session.login \notin crossed',
                      ~Renewing(jar.session.login)'
               PROVE  Fresh(jar.session)'
    BY DEF FreshJar
  <2>1. ~Renewing(jar.session.login)
    <3> SUFFICES ASSUME NEW d \in Conn, conn[d].set \notin {None, Clear},
                        conn[d].set.login = jar.session.login
                 PROVE  FALSE
      BY DEF Renewing
    <3>1. d # c
      OBVIOUS
    <3> QED
      BY <1>1, <3>1 DEF Renewing
  <2> QED
    BY <1>7, <2>1 DEF OverlapInv, FreshJar, Fresh, LastActivity
<1> QED
  BY <1>3, <1>4, <1>5, <1>6, <1>8, <1>9, <1>10 DEF OverlapInv

\* The deletion as a response.
LEMMA ClearFields ==
    ASSUME TypeOK, NEW c \in Conn, NEW verdict \in Verdicts
    PROVE  LET x == Answer(c, verdict, Clear, 0, -1)
           IN  /\ x \in Exchange /\ x.phase = "served" /\ x.set = Clear
               /\ x.kind = conn[c].kind /\ x.cookie = conn[c].cookie
<1>1. conn[c] \in Exchange
  BY DEF TypeOK
<1> QED
  BY <1>1 DEF Answer, Exchange

\* A request that is turned away, or logs out, keeps the overlap invariant.
LEMMA OverlapClear ==
    ASSUME SessionInv, OverlapInv, NEW c \in Conn, Deny(c) \/ ServeLogout(c)
    PROVE  OverlapInv'
<1>a. PICK verdict : verdict = ValidateSessionCookie(conn[c].cookie)
  OBVIOUS
<1>b. PICK x : x = Answer(c, verdict, Clear, 0, -1)
  OBVIOUS
<1>0. /\ TypeOK /\ now \in Nat /\ conn[c].cookie \in SessionData \cup {None}
      /\ conn[c] \in Exchange /\ Clear \in SessionData \cup {None, Clear}
  BY DEF SessionInv, TypeOK, Exchange
<1>1. verdict \in Verdicts
  BY <1>0, <1>a, VerdictMeaning
<1>2. /\ x \in Exchange /\ x.cookie = conn[c].cookie /\ x.kind = conn[c].kind
      /\ x.set = Clear /\ x.phase = "served"
  BY <1>0, <1>1, <1>b, ClearFields
<1>3. /\ conn' = [conn EXCEPT ![c] = x] /\ conn[c].phase = "sent"
      /\ UNCHANGED <<now, jar, lastUse, logins, loggedOut, crossed>>
  BY <1>a, <1>b DEF Deny, ServeLogout
<1>4. conn[c].set = None
  BY <1>3 DEF OverlapInv, Shaped
<1> QED
  BY <1>2, <1>3, <1>4, OverlapQuiet

\* A connection given up keeps the overlap invariant: the login whose cookie was
\* on its way counts as crossed.
LEMMA OverlapLose ==
    ASSUME SessionInv, OverlapInv, NEW c \in Conn, Lose(c)
    PROVE  OverlapInv'
<1>1. NoExchange.phase = "idle" /\ NoExchange.set = None
  BY DEF NoExchange
<1>2. /\ conn' = [conn EXCEPT ![c] = NoExchange]
      /\ UNCHANGED <<now, jar, lastUse, logins, loggedOut>>
      /\ crossed \subseteq crossed'
      /\ conn[c].set \notin {None, Clear} => conn[c].set.login \in crossed'
  BY DEF Lose
<1> QED
  BY <1>1, <1>2, NoExchangeType, OverlapQuiet

\* A request carries what the jar holds; if something about that login is under
\* way already, the login counts as crossed.
LEMMA OverlapSend ==
    ASSUME SessionInv, OverlapInv, NEW c \in Conn, NEW kind \in Kinds, Send(c, kind)
    PROVE  OverlapInv'
<1>a. PICK x : x = Request(kind)
  OBVIOUS
<1>0. TypeOK
  BY DEF SessionInv
<1>1. /\ x.phase = "sent" /\ x.set = None /\ x.cookie = JarSession
      /\ conn' = [conn EXCEPT ![c] = x] /\ conn[c].phase = "idle"
      /\ UNCHANGED <<now, jar, lastUse, logins, loggedOut>>
  BY <1>a DEF Send, Request
<1>2. \A d \in Conn : conn'[d] = IF d = c THEN x ELSE conn[d]
  BY <1>0, <1>1 DEF TypeOK
<1>3. /\ crossed \subseteq crossed'
      /\ JarSession # None /\ (\E d \in Conn : About(conn[d], JarSession.login))
           => JarSession.login \in crossed'
  BY DEF Send
<1>4. JarSession # None => jar # None /\ JarSession = jar.session
  BY <1>0, JarSessionType
<1>5. \A l : About(x, l) <=> JarSession # None /\ JarSession.login = l
  BY <1>1 DEF About
<1>6. conn[c].set = None
  BY <1>1 DEF OverlapInv, Shaped
<1>7. \A l : Renewing(l) <=> Renewing(l)'
  BY <1>1, <1>2, <1>6 DEF Renewing
<1>8. \A s : Fresh(s) => Fresh(s)'
  BY <1>1 DEF Fresh, LastActivity
<1>9. Shaped'
  BY <1>1, <1>2 DEF OverlapInv, Shaped
<1>10. Alone'
  <2> SUFFICES ASSUME NEW d \in Conn, NEW e \in Conn, NEW l \in Login \ crossed',
                      About(conn'[d], l), About(conn'[e], l), d # e
               PROVE  FALSE
    BY DEF Alone, About
  <2>1. l \in Login \ crossed
    BY <1>3
  <2>2. CASE d # c /\ e # c
    BY <1>2, <2>1, <2>2 DEF OverlapInv, Alone
  <2>3. CASE d = c \/ e = c
    <3>1. \E f \in Conn : About(conn[f], l)
      BY <1>2, <2>3
    <3>2. JarSession # None /\ JarSession.login = l
      BY <1>2, <1>5, <2>3
    <3> QED
      BY <1>3, <3>1, <3>2
  <2> QED
    BY <2>2, <2>3
<1>11. Carried'
  BY <1>1, <1>2, <1>3, <1>4 DEF OverlapInv, Carried
<1>12. Ended'
  BY <1>1, <1>2, <1>4, <1>5 DEF OverlapInv, Ended
<1>13. FreshSent'
  <2> SUFFICES ASSUME NEW d \in Conn, conn'[d].phase = "sent", conn'[d].cookie # None,
                      conn'[d].cookie.login \notin crossed'
               PROVE  Fresh(conn'[d].cookie)
    BY <1>1 DEF FreshSent, Fresh, LastActivity
  <2>1. CASE d = c
    <3>1. jar # None /\ conn'[d].cookie = jar.session /\ JarSession = jar.session
      BY <1>1, <1>2, <1>4, <2>1
    <3>2. ~Renewing(jar.session.login)
      <4> SUFFICES ASSUME NEW e \in Conn, conn[e].set \notin {None, Clear},
                          conn[e].set.login = jar.session.login
                   PROVE  FALSE
        BY DEF Renewing
      <4>1. About(conn[e], JarSession.login)
        BY <3>1 DEF About, OverlapInv, Shaped
      <4> QED
        BY <1>1, <1>3, <3>1, <4>1
    <3> QED
      BY <1>3, <3>1, <3>2 DEF OverlapInv, FreshJar
  <2>2. CASE d # c
    BY <1>2, <1>3, <2>2 DEF OverlapInv, FreshSent
  <2> QED
    BY <2>1, <2>2
<1>14. FreshSet'
  BY <1>1, <1>2, <1>3, <1>8 DEF OverlapInv, FreshSet, Fresh, LastActivity
<1>15. FreshJar'
  BY <1>1, <1>3, <1>7, <1>8 DEF OverlapInv, FreshJar, Fresh, LastActivity
<1> QED
  BY <1>9, <1>10, <1>11, <1>12, <1>13, <1>14, <1>15 DEF OverlapInv

\* A login begins with a fresh cookie that nothing else is about.
LEMMA OverlapCallback ==
    ASSUME SessionInv, OverlapInv, NEW c \in Conn, ServeCallback(c)
    PROVE  OverlapInv'
<1>a. PICK s : s = NewSession(logins + 1)
  OBVIOUS
<1>b. PICK left : left = SecondsUntil(SessionDeadline(s))
  OBVIOUS
<1>c. PICK x : x = Answer(c, "none", s, left, -1)
  OBVIOUS
<1>0. TypeOK /\ now \in Nat /\ logins \in Nat
  BY DEF SessionInv, TypeOK
<1>1. logins + 1 \in Login
  BY <1>0, SessionConfig DEF ServeCallback, Login
<1>2. s \in SessionData /\ s.login = logins + 1 /\ LastActivity(s) = now
  BY <1>0, <1>1, <1>a, SessionConfig
     DEF NewSession, SessionData, LastActivity, ZeroTime, TypeOK
<1>3. left \in Int
  BY <1>0, <1>2, <1>b, LeftCovers, DeadlineBound
<1>4. /\ x \in Exchange /\ x.phase = "served" /\ x.kind = conn[c].kind
      /\ x.cookie = conn[c].cookie /\ x.set = s
  <2>1. "none" \in Verdicts
    BY DEF Verdicts
  <2> QED
    BY <1>0, <1>2, <1>3, <1>c, <2>1, AnswerFields
<1>5. /\ conn' = [conn EXCEPT ![c] = x]
      /\ conn[c].phase = "sent" /\ conn[c].kind = "callback"
      /\ logins' = logins + 1
      /\ lastUse' = [lastUse EXCEPT ![s.login] = now]
      /\ UNCHANGED <<now, jar, loggedOut, crossed>>
  BY <1>a, <1>b, <1>c DEF ServeCallback
<1>6. \A d \in Conn : conn'[d] = IF d = c THEN x ELSE conn[d]
  BY <1>0, <1>5 DEF TypeOK
<1>7. /\ \A l \in Login : l <= logins => lastUse'[l] = lastUse[l]
      /\ lastUse'[s.login] = now
  BY <1>0, <1>1, <1>2, <1>5 DEF TypeOK, Login
<1>8. \A l : About(x, l) <=> About(conn[c], l) \/ l = s.login
  BY <1>2, <1>4, <1>5, Sentinels DEF About, OverlapInv, Shaped
<1>9. \A d \in Conn : ~About(conn[d], s.login)
  BY <1>0, <1>2, Sessions DEF About
<1>10. Shaped'
  BY <1>4, <1>5, <1>6 DEF OverlapInv, Shaped
<1>11. Alone'
  BY <1>5, <1>6, <1>8, <1>9 DEF OverlapInv, Alone
<1>12. Carried'
  BY <1>4, <1>5, <1>6 DEF OverlapInv, Carried
<1>13. Ended'
  <2>0. \A l \in Login : l \in Nat
    BY SessionConfig DEF Login
  <2>1. \A l \in loggedOut : l \in Nat /\ l <= logins
    BY <1>0, <2>0 DEF OverlapInv, Ended, TypeOK
  <2>2. \A l \in loggedOut : l # s.login /\ l <= logins'
    BY <1>0, <1>2, <1>5, <2>1
  <2> QED
    BY <1>5, <1>6, <1>8, <2>2 DEF OverlapInv, Ended
<1>14. FreshSent'
  <2> SUFFICES ASSUME NEW d \in Conn, conn'[d].phase = "sent", conn'[d].cookie # None,
                      conn'[d].cookie.login \notin crossed
               PROVE  Fresh(conn[d].cookie)'
    BY <1>5, <1>6, <1>4 DEF FreshSent
  <2>1. conn'[d] = conn[d] /\ conn[d].cookie.login \in Login
        /\ conn[d].cookie.login <= logins
    BY <1>4, <1>6, Sessions
  <2> QED
    BY <1>7, <2>1 DEF OverlapInv, FreshSent, Fresh, LastActivity
<1>15. FreshSet'
  <2> SUFFICES ASSUME NEW d \in Conn, conn'[d].set \notin {None, Clear},
                      conn'[d].set.login \notin crossed
               PROVE  IdleTTL > 0 => LastActivity(conn'[d].set)
                                       > lastUse'[conn'[d].set.login] - RefreshInterval
    BY <1>5 DEF FreshSet, Fresh, LastActivity
  <2>1. CASE d = c
    <3>1. conn'[d].set = s
      BY <1>4, <1>6, <2>1
    <3> QED
      BY <1>0, <1>2, <1>7, <3>1, SessionConfig
  <2>2. CASE d # c
    <3>1. conn'[d] = conn[d] /\ conn[d].set.login \in Login
          /\ conn[d].set.login <= logins
      BY <1>6, <2>2, Sessions
    <3> QED
      BY <1>7, <3>1 DEF OverlapInv, FreshSet, Fresh
  <2> QED
    BY <2>1, <2>2
<1>16. FreshJar'
  <2> SUFFICES ASSUME jar # None, jar.session.login \notin crossed,
                      ~Renewing(jar.session.login)'
               PROVE  Fresh(jar.session)'
    BY <1>5 DEF FreshJar
  <2>1. jar.session.login \in Login /\ jar.session.login <= logins
    BY Sessions
  <2>2. ~Renewing(jar.session.login)
    <3> SUFFICES ASSUME NEW d \in Conn, conn[d].set \notin {None, Clear},
                        conn[d].set.login = jar.session.login
                 PROVE  FALSE
      BY DEF Renewing
    <3>1. d # c
      BY <1>5 DEF OverlapInv, Shaped
    <3> QED
      BY <1>5, <1>6, <3>1 DEF Renewing
  <2> QED
    BY <1>5, <1>7, <2>1, <2>2 DEF OverlapInv, FreshJar, Fresh, LastActivity
<1> QED
  BY <1>10, <1>11, <1>12, <1>13, <1>14, <1>15, <1>16 DEF OverlapInv

\* Delivering a response keeps the overlap invariant: the jar takes over what it
\* sets.
LEMMA OverlapDeliver ==
    ASSUME SessionInv, OverlapInv, NEW c \in Conn, Deliver(c)
    PROVE  OverlapInv'
<1>a. PICK x : x = conn[c]
  OBVIOUS
<1>0. TypeOK /\ x \in Exchange /\ x.cookie \in SessionData \cup {None}
  BY <1>a DEF SessionInv, TypeOK, Exchange
<1>1. /\ x.phase = "served" /\ jar' = Store(x)
      /\ conn' = [conn EXCEPT ![c] = NoExchange]
      /\ UNCHANGED <<now, logins, lastUse>>
      /\ crossed \subseteq crossed'
  BY <1>a DEF Deliver
<1>2. \A d \in Conn : conn'[d] = IF d = c THEN NoExchange ELSE conn[d]
  BY <1>0, <1>1 DEF TypeOK
<1>3. /\ NoExchange.phase = "idle" /\ NoExchange.set = None
      /\ \A l : ~About(NoExchange, l)
  BY DEF NoExchange, About
<1>4. \/ x.set = None /\ jar' = jar
      \/ x.set # None /\ jar' = None
      \/ x.set \notin {None, Clear} /\ jar' # None /\ jar'.session = x.set
  <2>1. CASE x.set = None
    BY <1>1, <2>1 DEF Store
  <2>2. CASE x.set # None /\ (x.set = Clear \/ x.maxAge < 0)
    BY <1>1, <2>2 DEF Store
  <2>3. CASE x.set # None /\ x.set # Clear /\ ~(x.maxAge < 0)
    BY <1>1, <2>3 DEF Store
  <2> QED
    BY <2>1, <2>2, <2>3
<1>5. x.set \notin {None, Clear} => /\ About(x, x.set.login) /\ x.set.login \in Login
                                    /\ x.set.login <= logins
  BY <1>1, <1>a, Sessions DEF About
<1>6. ASSUME x.set \notin {None, Clear}, x.set.login \notin crossed',
             NEW d \in Conn \ {c}
      PROVE  ~About(conn[d], x.set.login)
  BY <1>1, <1>5, <1>6, <1>a DEF OverlapInv, Alone
<1>7. Shaped'
  BY <1>1, <1>2, <1>3 DEF OverlapInv, Shaped
<1>8. Alone'
  BY <1>1, <1>2, <1>3 DEF OverlapInv, Alone
<1>9. Carried'
  <2> SUFFICES ASSUME NEW d \in Conn, d # c,
                      conn[d].phase # "idle", conn[d].cookie # None,
                      jar' # None, jar'.session.login = conn[d].cookie.login,
                      jar'.session.login \notin crossed'
               PROVE  jar'.session = conn[d].cookie
    BY <1>2, <1>3 DEF Carried
  <2>1. CASE jar' = jar
    BY <1>1, <2>1 DEF OverlapInv, Carried
  <2>2. CASE x.set \notin {None, Clear} /\ jar'.session = x.set
    BY <1>6, <2>2 DEF About
  <2> QED
    BY <1>4, <2>1, <2>2
<1>10. Ended'
  <2>1. \A l \in loggedOut : ~About(x, l)
    BY <1>a DEF OverlapInv, Ended
  <2>2. ASSUME NEW l \in loggedOut
        PROVE  /\ l <= logins /\ (jar' # None => jar'.session.login # l)
               /\ \A d \in Conn : ~About(conn'[d], l)
    <3>1. jar' # None => jar'.session.login # l
      BY <1>4, <1>5, <2>1 DEF OverlapInv, Ended
    <3> QED
      BY <1>2, <1>3, <3>1 DEF OverlapInv, Ended
  <2>3. CASE loggedOut' = loggedOut
    BY <1>1, <2>2, <2>3 DEF Ended
  <2>4. CASE EndsLogin(c) /\ loggedOut' = loggedOut \cup {x.cookie.login}
    <3>1. x.cookie # None /\ x.cookie.login <= logins /\ x.set = Clear
      BY <1>1, <1>a, <2>4, Sessions DEF EndsLogin, OverlapInv, Shaped
    <3>2. jar' = None
      BY <1>4, <3>1, Sentinels
    <3>3. \A d \in Conn : ~About(conn'[d], x.cookie.login)
      BY <1>2, <1>3, <1>a, <2>4 DEF EndsLogin
    <3> QED
      BY <1>1, <2>2, <2>4, <3>1, <3>2, <3>3 DEF Ended
  <2> QED
    BY <1>a, <2>3, <2>4 DEF Deliver
<1>11. FreshSent'
  BY <1>1, <1>2, <1>3 DEF OverlapInv, FreshSent, Fresh, LastActivity
<1>12. FreshSet'
  BY <1>1, <1>2, <1>3 DEF OverlapInv, FreshSet, Fresh, LastActivity
<1>13. FreshJar'
  <2> SUFFICES ASSUME jar' # None, jar'.session.login \notin crossed',
                      ~Renewing(jar.session.login)'
               PROVE  Fresh(jar'.session)
    BY <1>1 DEF FreshJar, Fresh, LastActivity
  <2>1. CASE jar' = jar /\ x.set = None
    <3>1. ~Renewing(jar.session.login)
      <4> SUFFICES ASSUME NEW d \in Conn, conn[d].set \notin {None, Clear},
                          conn[d].set.login = jar.session.login
                   PROVE  FALSE
        BY DEF Renewing
      <4>1. d # c
        BY <1>a, <2>1
      <4> QED
        BY <1>2, <2>1, <4>1 DEF Renewing
    <3> QED
      BY <1>1, <2>1, <3>1 DEF OverlapInv, FreshJar
  <2>2. CASE x.set \notin {None, Clear} /\ jar'.session = x.set
    BY <1>1, <1>a, <2>2 DEF OverlapInv, FreshSet
  <2> QED
    BY <1>4, <2>1, <2>2
<1> QED
  BY <1>7, <1>8, <1>9, <1>10, <1>11, <1>12, <1>13 DEF OverlapInv

\* Nothing the overlap invariant speaks of depends on the time.
LEMMA OverlapTick ==
    ASSUME SessionInv, OverlapInv, Tick
    PROVE  OverlapInv'
<1>1. /\ now \in Nat /\ now' = now + 1
      /\ UNCHANGED <<jar, conn, key, logins, loginAt, loginKey, lastUse, loggedOut,
                     crossed>>
  BY DEF SessionInv, TypeOK, Tick
<1>2. Shaped' /\ Alone' /\ Carried' /\ Ended'
  BY <1>1 DEF OverlapInv, Shaped, Alone, Carried, Ended, About
<1>3. FreshSent' /\ FreshSet' /\ FreshJar'
  BY <1>1 DEF OverlapInv, FreshSent, FreshSet, FreshJar, Fresh, LastActivity, Renewing
<1> QED
  BY <1>2, <1>3 DEF OverlapInv

\* Nothing the overlap invariant speaks of depends on the key in force.
LEMMA OverlapStill ==
    ASSUME OverlapInv, UNCHANGED <<now, jar, conn, logins, lastUse, loggedOut, crossed>>
    PROVE  OverlapInv'
<1>1. Shaped' /\ Alone' /\ Carried' /\ Ended'
  BY DEF OverlapInv, Shaped, Alone, Carried, Ended, About
<1>2. FreshSent' /\ FreshSet' /\ FreshJar'
  BY DEF OverlapInv, FreshSent, FreshSet, FreshJar, Fresh, LastActivity, Renewing
<1> QED
  BY <1>1, <1>2 DEF OverlapInv

\* Every step of the gateway and the browser keeps the overlap invariant.
LEMMA OverlapStep == SessionInv /\ OverlapInv /\ [Next]_vars => OverlapInv'
<1> SUFFICES ASSUME SessionInv, OverlapInv, [Next]_vars PROVE OverlapInv'
  OBVIOUS
<1>1. CASE Tick
  BY <1>1, OverlapTick
<1>2. CASE RotateKey \/ UNCHANGED vars
  BY <1>2, OverlapStill DEF RotateKey, vars
<1>3. ASSUME NEW c \in Conn, NEW kind \in Kinds, Send(c, kind) PROVE OverlapInv'
  BY <1>3, OverlapSend
<1>4. ASSUME NEW c \in Conn, Admit(c) PROVE OverlapInv'
  BY <1>4, OverlapAdmit
<1>5. ASSUME NEW c \in Conn, Deny(c) \/ ServeLogout(c) PROVE OverlapInv'
  BY <1>5, OverlapClear
<1>6. ASSUME NEW c \in Conn, ServeCallback(c) PROVE OverlapInv'
  BY <1>6, OverlapCallback
<1>7. ASSUME NEW c \in Conn, Deliver(c) PROVE OverlapInv'
  BY <1>7, OverlapDeliver
<1>8. ASSUME NEW c \in Conn, Lose(c) PROVE OverlapInv'
  BY <1>8, OverlapLose
<1> QED
  BY <1>1, <1>2, <1>3, <1>4, <1>5, <1>6, <1>7, <1>8 DEF Next

\* Both invariants hold in every reachable state.
THEOREM OverlapInvariant == Spec => [](SessionInv /\ OverlapInv)
<1>1. SessionInv /\ OverlapInv /\ [Next]_vars => SessionInv' /\ OverlapInv'
  BY SessionStep, OverlapStep
<1> QED
  BY SessionInit, OverlapInit, <1>1, PTL DEF Spec

\* With any number of connections: a session whose requests did not cross is turned
\* away as idle earlier than without a throttle by less than one refresh interval.
THEOREM SessionIdleNotEarly == Spec => []IdleNotEarly
<1>1. SessionInv /\ OverlapInv => IdleNotEarly
  <2> SUFFICES ASSUME SessionInv, OverlapInv, NEW c \in Conn, conn[c].phase = "sent",
                      ValidateSessionCookie(conn[c].cookie) = "idle",
                      conn[c].cookie.login \notin crossed
               PROVE  IdleTTL + 1 - (now - lastUse[conn[c].cookie.login]) < RefreshInterval
    BY DEF IdleNotEarly
  <2>0. TypeOK /\ now \in Nat /\ conn[c].cookie \in SessionData \cup {None}
    BY DEF SessionInv, TypeOK, Exchange
  <2>a. PICK s : s = conn[c].cookie
    OBVIOUS
  <2>1. s \in SessionData /\ s # None /\ IdleTTL > 0 /\ now > LastActivity(s) + IdleTTL
    BY <2>0, <2>a, VerdictMeaning, Sentinels
  <2>2. LastActivity(s) > lastUse[s.login] - RefreshInterval
    BY <2>1, <2>a DEF OverlapInv, FreshSent, Fresh
  <2>3. LastActivity(s) \in Nat /\ lastUse[s.login] \in Nat
    BY <2>0, <2>1, DeadlineBound DEF TypeOK, SessionData
  <2> QED
    BY <2>0, <2>1, <2>2, <2>3, <2>a, SessionConfig
<1> QED
  BY OverlapInvariant, <1>1, PTL

\* A logout the browser saw confirmed, with nothing else of that login under way,
\* is final.
THEOREM SessionLogoutSticks == Spec => []LogoutSticks
<1>1. OverlapInv => LogoutSticks
  BY DEF OverlapInv, Ended, LogoutSticks
<1> QED
  BY OverlapInvariant, <1>1, PTL

-----------------------------------------------------------------------------
(* The countdown: the inductive invariant *)

Half == Second \div 2

\* The deadline of the tabs, or the present once it has passed: forgetting a deadline
\* that has passed does not move it.
Horizon == IF deadline >= now THEN deadline ELSE now

\* The session whose deadline the response on c tells.
Told(c) == IF conn[c].set \in {None, Clear} THEN conn[c].cookie ELSE conn[c].set

\* What a header says of the session s, computed no earlier than at and no later than
\* now, is right to half a second.
Advertised(at, s, expiresIn) ==
    /\ at + Second * expiresIn <= SessionDeadline(s) + Half
    /\ SessionDeadline(s) <= now + Second * expiresIn + Half
    /\ Second * expiresIn <= AbsoluteTTL + Half

\* A request carries a cookie no newer than what the jar got last.
Carries(c) ==
    conn[c].cookie # None /\ jar # None => LastActivity(conn[c].cookie) <= jar.gotAt

\* A response that brings no cookie means that none was due.
NotDue(c) ==
    conn[c].phase = "served" /\ conn[c].set = None =>
        /\ conn[c].cookie # None
        /\ IdleTTL > 0 => call[c].at <= LastActivity(conn[c].cookie) + RefreshInterval

\* A response that tells a deadline tells the one of its own login's cookie.
Tells(c) ==
    conn[c].expiresIn >= 0 =>
        /\ conn[c].cookie # None /\ Told(c) # None
        /\ Told(c).login = conn[c].cookie.login
        /\ Advertised(call[c].at, Told(c), conn[c].expiresIn)

\* The exchange on c and the request of the frontend that it belongs to.
Fits(c) ==
    /\ call[c].at <= now
    /\ conn[c].phase = "idle" => call[c].use = "none"
    /\ Carries(c) /\ NotDue(c) /\ Tells(c)
    /\ call[c].use = "download" =>
          /\ now <= call[c].at + Latency
          /\ IdleTTL > 0 => call[c].at + IdleTTL <= Horizon

\* The jar's cookie was not touched after it arrived.
JarFresh == jar # None => LastActivity(jar.session) <= jar.gotAt /\ jar.gotAt <= now

\* The tabs know of the session in the jar, if they were told of it.
Informed ==
    jar # None /\ heard # "none" /\ IdleTTL > 0 =>
        SessionDeadline(jar.session) <= Horizon + IF heard = "download" THEN Latency ELSE Half

\* A deadline was read, or guessed for a download, which may since have been lost.
Sourced == deadline # 0 => basis.use \in {"fetch", "upload", "download", "lost"}

\* How far a deadline that was read can be ahead of the login and of the jar.
Heard ==
    deadline # 0 /\ basis.use \in {"fetch", "upload"} =>
        /\ basis.login \in 1 .. logins
        /\ deadline <= loginAt[basis.login] + AbsoluteTTL + basis.took + Half
        /\ IdleTTL > 0 => deadline <= now + IdleTTL + basis.took + Half
        /\ IdleTTL > 0 /\ jar # None => deadline <= jar.gotAt + IdleTTL + basis.took + Half

\* How far a deadline that was guessed can be ahead of the clock, and of the jar, when no
\* download that would have led to such a guess is under way or was lost.
Guessed ==
    deadline # 0 /\ basis.use \in {"download", "lost"} =>
        /\ IdleTTL > 0 /\ deadline <= now + IdleTTL
        /\ basis.use = "download" /\ jar # None =>
              \/ deadline <= jar.gotAt + IdleTTL + RefreshInterval
              \/ \E c \in Conn : call[c].use = "download" /\ deadline <= call[c].at + IdleTTL

ClientInv ==
    /\ SessionInv /\ ClientTypeOK
    /\ \A c \in Conn : Fits(c)
    /\ JarFresh /\ Informed /\ Sourced /\ Heard /\ Guessed

-----------------------------------------------------------------------------
(* Numbers *)

\* The constants are numbers, and the half second is one.
LEMMA ClientNumbers ==
    /\ Half \in Nat /\ Latency \in Nat /\ MaxCalls \in Nat /\ RefreshInterval \in Nat
    /\ AbsoluteTTL \in Nat /\ IdleTTL \in Nat /\ IdleTTL <= AbsoluteTTL
    /\ Second \in Nat \ {0}
BY SessionConfig, ClientConfig DEF Half

\* RoundToSecond is at most half a second over.
LEMMA RoundAbove ==
    ASSUME NEW d \in Int
    PROVE  Second * RoundToSecond(d) <= d + Half
<1> DEFINE H == Second \div 2
           Q(e) == (e + H) \div Second
<1>0. Second \in Nat \ {0}
  BY SessionConfig
<1>1. H \in Nat /\ 2 * H <= Second /\ Second <= 2 * H + 1
  BY <1>0
<1>2. ASSUME NEW e \in Nat
      PROVE  Q(e) \in Nat /\ Second * Q(e) <= e + H /\ e + H < Second * Q(e) + Second
  BY <1>0, <1>1, Z3
<1> HIDE DEF H, Q
<1>3. CASE d >= 0
  <2>1. RoundToSecond(d) = Q(d)
    BY <1>3 DEF RoundToSecond, Q, H
  <2> QED BY <1>2, <1>3, <2>1 DEF H, Half
<1>4. CASE d < 0
  <2>1. RoundToSecond(d) = -Q(-d)
    BY <1>4 DEF RoundToSecond, Q, H
  <2>2. -d \in Nat
    BY <1>4
  <2>3. Q(-d) \in Nat /\ -d + H < Second * Q(-d) + Second
    BY <1>2, <2>2
  <2>4. Second * (-Q(-d)) = -(Second * Q(-d)) /\ Second * Q(-d) \in Int
    BY <1>0, <2>3
  <2>5. Second * (-Q(-d)) <= d + H
    BY <1>0, <1>1, <2>2, <2>3, <2>4
  <2> QED BY <2>1, <2>5 DEF H, Half
<1> QED BY <1>3, <1>4

\* The seconds left until t, computed now, are right to half a second.
LEMMA LeftRight ==
    ASSUME now \in Nat, NEW t \in Nat
    PROVE  /\ SecondsUntil(t) \in Int /\ Second * SecondsUntil(t) \in Int
           /\ now + Second * SecondsUntil(t) <= t + Half
           /\ t <= now + Second * SecondsUntil(t) + Half
<1> DEFINE q == RoundToSecond(t - now)
<1>1. q \in Int /\ Second * q + Second \div 2 >= t - now
  BY RoundBound
<1>2. Second * q <= t - now + Half
  BY RoundAbove
<1>3. Second * q \in Int /\ Half \in Nat
  BY <1>1, ClientNumbers
<1> HIDE DEF q
<1>4. now + Second * q <= t + Half /\ t <= now + Second * q + Half
  BY <1>1, <1>2, <1>3 DEF Half
<1> QED BY <1>1, <1>3, <1>4 DEF SecondsUntil, q

-----------------------------------------------------------------------------
(* The sessions of a state *)

\* No session in the jar, or on its way, was touched in the future.
LEMMA Past ==
    ASSUME SessionInv
    PROVE  /\ now \in Nat
           /\ jar # None => /\ LastActivity(jar.session) \in Nat
                            /\ LastActivity(jar.session) <= now
                            /\ jar.gotAt \in Nat
           /\ \A c \in Conn :
                 /\ conn[c].cookie # None => /\ LastActivity(conn[c].cookie) \in Nat
                                             /\ LastActivity(conn[c].cookie) <= now
                 /\ conn[c].set \notin {None, Clear} =>
                       /\ LastActivity(conn[c].set) \in Nat
                       /\ LastActivity(conn[c].set) <= now
<1>1. ASSUME NEW s \in SessionData, Genuine(s)
      PROVE  LastActivity(s) \in Nat /\ LastActivity(s) <= now
  <2>1. LastActivity(s) \in Nat /\ s.login \in Login
    BY DeadlineBound DEF SessionData
  <2>2. LastActivity(s) <= lastUse[s.login] /\ lastUse[s.login] <= now
    BY <1>1, <2>1 DEF Genuine, SessionInv, Clocked
  <2>3. lastUse[s.login] \in Nat /\ now \in Nat
    BY <2>1 DEF SessionInv, TypeOK
  <2> QED BY <2>1, <2>2, <2>3
<1>2. now \in Nat /\ (jar # None => jar.gotAt \in Nat)
  BY DEF SessionInv, TypeOK, StoredCookie
<1> QED BY <1>1, <1>2, Sessions DEF SessionInv, Provenance

\* The deadline of a session: the absolute expiry of its login, or the end of its
\* idle window when that comes first.
LEMMA DeadlineParts ==
    ASSUME NEW s \in SessionData
    PROVE  /\ LastActivity(s) \in Nat /\ s.expiresAt \in Nat /\ SessionDeadline(s) \in Nat
           /\ SessionDeadline(s) <= s.expiresAt
           /\ IdleTTL > 0 => SessionDeadline(s) <= LastActivity(s) + IdleTTL
           /\ \/ SessionDeadline(s) = s.expiresAt
              \/ IdleTTL > 0 /\ SessionDeadline(s) = LastActivity(s) + IdleTTL
<1>1. LastActivity(s) \in Nat /\ s.expiresAt \in Nat
  BY DeadlineBound DEF SessionData
<1> QED BY <1>1, ClientNumbers DEF SessionDeadline

\* What the gateway answers: a request that is admitted is told the deadline of the
\* session it leaves with, and gets a cookie only when one was due; any other answer
\* sets or deletes the cookie and tells nothing.
LEMMA ServeEffect ==
    ASSUME SessionInv, SessionInv', NEW c \in Conn, Serve(c)
    PROVE  /\ conn[c].phase = "sent" /\ \A d \in Conn \ {c} : conn'[d] = conn[d]
           /\ conn'[c].phase = "served" /\ conn'[c].cookie = conn[c].cookie
           /\ UNCHANGED <<now, jar, clientVars>>
           /\ \/ conn'[c].expiresIn = -1 /\ conn'[c].set # None
              \/ \E r \in SessionData :
                    /\ conn[c].cookie \in SessionData /\ conn[c].cookie # None
                    /\ r # None /\ r.login = conn[c].cookie.login
                    /\ \/ conn'[c].set = r /\ r # Clear
                       \/ /\ conn'[c].set = None /\ r = conn[c].cookie
                          /\ ~RefreshDue(conn[c].cookie)
                    /\ SessionDeadline(r) <= now + AbsoluteTTL
                    /\ conn'[c].expiresIn = SecondsUntil(SessionDeadline(r))
<1>0. TypeOK /\ now \in Nat /\ conn[c] \in Exchange /\ UNCHANGED clientVars
  BY DEF SessionInv, TypeOK, Serve
<1>1. CASE Admit(c)
  <2>a. PICK s : s = conn[c].cookie
    OBVIOUS
  <2>b. PICK touched : touched = TouchSession(s)
    OBVIOUS
  <2>c. PICK left : left = SecondsUntil(SessionDeadline(touched))
    OBVIOUS
  <2>d. PICK x : x = IF RefreshDue(s) THEN Answer(c, "ok", touched, left, left)
                                      ELSE Answer(c, "ok", None, 0, left)
    OBVIOUS
  <2>1. s \in SessionData /\ s # None /\ s.login \in Login
    BY <1>0, <1>1, <2>a, VerdictMeaning, Sentinels DEF Admit, Exchange, SessionData
  <2>2. touched \in SessionData /\ touched.login = s.login /\ touched.expiresAt = s.expiresAt
    BY <1>0, <2>1, <2>b, TouchKeeps
  <2>3. left \in Int /\ SessionDeadline(touched) \in Nat
    BY <1>0, <2>2, <2>c, LeftCovers, DeadlineBound
  <2>4. /\ conn' = [conn EXCEPT ![c] = x] /\ conn[c].phase = "sent"
        /\ UNCHANGED <<now, jar>>
    BY <1>1, <2>a, <2>b, <2>c, <2>d DEF Admit
  <2>5. SessionDeadline(touched) <= now + AbsoluteTTL
    <3>1. Genuine(s) /\ LastActivity(s) \in Nat /\ LastActivity(s) <= now
      BY <2>1, <2>a, Past DEF SessionInv, Provenance
    <3>2. s.expiresAt = s.issuedAt + AbsoluteTTL /\ s.issuedAt <= LastActivity(s)
          /\ s.issuedAt \in Nat
      BY <2>1, <3>1 DEF Genuine, SessionData
    <3>3. SessionDeadline(touched) <= s.expiresAt
      BY <2>2, DeadlineBound
    <3> QED BY <1>0, <2>3, <3>1, <3>2, <3>3, ClientNumbers
  <2>6. "ok" \in Verdicts
    BY DEF Verdicts
  <2>7. touched \notin {None, Clear}
    BY <2>2, Sentinels
  <2>8. conn'[c] = x /\ \A d \in Conn \ {c} : conn'[d] = conn[d]
    BY <1>0, <2>4 DEF TypeOK
  <2>9. CASE RefreshDue(s)
    <3>1. x = Answer(c, "ok", touched, left, left)
      BY <2>d, <2>9
    <3>2. x \in Exchange /\ x.phase = "served" /\ x.cookie = s /\ x.set = touched
      BY <1>0, <2>2, <2>3, <2>6, <2>a, <3>1, AnswerFields
    <3>3. x.expiresIn = left
      BY <3>1 DEF Answer
    <3> QED BY <1>0, <2>1, <2>2, <2>4, <2>5, <2>7, <2>8, <2>a, <2>c, <3>2, <3>3
  <2>10. CASE ~RefreshDue(s)
    <3>1. x = Answer(c, "ok", None, 0, left) /\ touched = s
      BY <2>b, <2>d, <2>10 DEF TouchSession
    <3>2. x \in Exchange /\ x.phase = "served" /\ x.cookie = s /\ x.set = None
      BY <1>0, <2>3, <2>a, <3>1, PlainAnswerFields
    <3>3. x.expiresIn = left
      BY <3>1 DEF Answer
    <3> QED BY <1>0, <2>1, <2>2, <2>4, <2>5, <2>8, <2>10, <2>a, <2>c, <3>1, <3>2, <3>3
  <2> QED BY <2>9, <2>10
<1>2. CASE Deny(c) \/ ServeLogout(c)
  <2>a. PICK verdict : verdict = ValidateSessionCookie(conn[c].cookie)
    OBVIOUS
  <2>b. PICK x : x = Answer(c, verdict, Clear, 0, -1)
    OBVIOUS
  <2>1. conn' = [conn EXCEPT ![c] = x] /\ conn[c].phase = "sent" /\ UNCHANGED <<now, jar>>
    BY <1>2, <2>a, <2>b DEF Deny, ServeLogout
  <2>2. x.phase = "served" /\ x.cookie = conn[c].cookie /\ x.set = Clear /\ x.expiresIn = -1
    BY <2>b DEF Answer
  <2>3. x = conn'[c] /\ \A d \in Conn \ {c} : conn'[d] = conn[d]
    BY <1>0, <2>1 DEF TypeOK
  <2> QED BY <1>0, <2>1, <2>2, <2>3, Sentinels
<1>3. CASE ServeCallback(c)
  <2>a. PICK s : s = NewSession(logins + 1)
    OBVIOUS
  <2>b. PICK x : x = Answer(c, "none", s, SecondsUntil(SessionDeadline(s)), -1)
    OBVIOUS
  <2>1. conn' = [conn EXCEPT ![c] = x] /\ conn[c].phase = "sent" /\ UNCHANGED <<now, jar>>
    BY <1>3, <2>a, <2>b DEF ServeCallback
  <2>2. x.phase = "served" /\ x.cookie = conn[c].cookie /\ x.set = s /\ x.expiresIn = -1
    BY <2>b DEF Answer
  <2>3. x = conn'[c] /\ \A d \in Conn \ {c} : conn'[d] = conn[d]
    BY <1>0, <2>1 DEF TypeOK
  <2>4. s \in SessionData
    <3>1. logins + 1 \in Login /\ key \in Nat
      BY <1>0, <1>3, SessionConfig DEF TypeOK, ServeCallback, Login
    <3> QED BY <1>0, <2>a, <3>1, SessionConfig DEF NewSession, SessionData
  <2> QED BY <1>0, <2>1, <2>2, <2>3, <2>4, Sentinels
<1> QED BY <1>1, <1>2, <1>3 DEF Serve

-----------------------------------------------------------------------------
(* What a step must respect *)

\* The types that the arithmetic below needs.
LEMMA ClientTypes ==
    ASSUME ClientInv
    PROVE  /\ now \in Nat /\ deadline \in Nat /\ Horizon \in Nat /\ Horizon >= now
           /\ Horizon >= deadline
           /\ basis.took \in Nat
           /\ \A c \in Conn : call[c].at \in Nat /\ conn[c].expiresIn \in Int
           /\ \A c \in Conn : Second * conn[c].expiresIn \in Int
<1>1. now \in Nat
  BY DEF ClientInv, SessionInv, TypeOK
<1>2. deadline \in Nat
  BY <1>1, ClientNumbers DEF ClientInv, ClientTypeOK
<1>3. basis.took \in Nat
  BY DEF ClientInv, ClientTypeOK
<1>4. ASSUME NEW c \in Conn PROVE call[c].at \in Nat /\ conn[c].expiresIn \in Int
  <2>1. call[c] \in Call /\ conn[c] \in Exchange
    BY DEF ClientInv, ClientTypeOK, SessionInv, TypeOK
  <2> QED BY <2>1 DEF Call, Exchange
<1>5. ASSUME NEW c \in Conn PROVE Second * conn[c].expiresIn \in Int
  BY <1>4, ClientNumbers
<1> QED BY <1>1, <1>2, <1>3, <1>4, <1>5 DEF Horizon

\* An exchange that a step does not touch fits as before: the clock and the horizon
\* only move forward, and a jar that is filled is filled now.
LEMMA FitsKept ==
    ASSUME ClientInv, SessionInv', NEW d \in Conn,
           conn'[d] = conn[d], call'[d].at = call[d].at, call'[d].use = call[d].use,
           now' >= now, jar' = jar \/ jar' = None \/ jar'.gotAt = now',
           Horizon' \in Nat, Horizon' >= Horizon,
           call[d].use = "download" => now' <= call[d].at + Latency
    PROVE  Fits(d)'
<1>1. Fits(d) /\ now \in Nat /\ Horizon \in Nat /\ call[d].at \in Nat
      /\ Second * conn[d].expiresIn \in Int
  BY ClientTypes DEF ClientInv
<1>2. now' \in Nat
  BY DEF SessionInv, TypeOK
<1>3. Carries(d)'
  <2>1. conn[d].cookie # None => /\ LastActivity(conn[d].cookie) \in Nat
                                 /\ LastActivity(conn[d].cookie) <= now
    BY Past DEF ClientInv
  <2>2. conn[d].cookie # None /\ jar' # None => LastActivity(conn[d].cookie) <= jar'.gotAt
    BY <1>1, <1>2, <2>1 DEF Fits, Carries
  <2> QED BY <2>2 DEF Carries, LastActivity
<1>4. NotDue(d)'
  BY <1>1 DEF Fits, NotDue, LastActivity
<1>5. Tells(d)'
  <2>1. Told(d)' = Told(d)
    BY DEF Told
  <2>2. SUFFICES ASSUME conn[d].expiresIn >= 0
                 PROVE  (/\ conn[d].cookie # None /\ Told(d) # None
                         /\ Told(d).login = conn[d].cookie.login
                         /\ Advertised(call[d].at, Told(d), conn[d].expiresIn))'
    BY DEF Tells
  <2>3. /\ conn[d].cookie # None /\ Told(d) # None
        /\ Told(d).login = conn[d].cookie.login
        /\ Advertised(call[d].at, Told(d), conn[d].expiresIn)
    BY <1>1, <2>2 DEF Fits, Tells
  <2>4. SessionDeadline(Told(d)) \in Nat
    <3>1. Told(d) \in SessionData
      BY <2>3, Sessions DEF Told, ClientInv
    <3> QED BY <3>1, DeadlineParts
  <2>5. SessionDeadline(Told(d))' = SessionDeadline(Told(d))
    BY <2>1 DEF SessionDeadline, LastActivity
  <2>6. Advertised(call[d].at, Told(d), conn[d].expiresIn)'
    BY <1>1, <1>2, <2>1, <2>3, <2>4, <2>5, ClientNumbers DEF Advertised, Half
  <2> QED BY <2>1, <2>3, <2>6
<1>6. call'[d].use = "download" =>
         /\ now' <= call'[d].at + Latency
         /\ IdleTTL > 0 => call'[d].at + IdleTTL <= Horizon'
  BY <1>1, ClientNumbers DEF Fits
<1>7. call'[d].at <= now' /\ (conn'[d].phase = "idle" => call'[d].use = "none")
  BY <1>1, <1>2 DEF Fits
<1> QED BY <1>3, <1>4, <1>5, <1>6, <1>7 DEF Fits

\* What the tabs were told stays enough while the jar keeps its cookie or loses it.
LEMMA InformedKept ==
    ASSUME ClientInv, jar' = jar \/ jar' = None, heard' = heard,
           Horizon' \in Nat, Horizon' >= Horizon
    PROVE  Informed'
<1>1. jar # None => SessionDeadline(jar.session) \in Nat
  BY Sessions, DeadlineParts DEF ClientInv
<1>2. Horizon \in Nat
  BY ClientTypes
<1> QED BY <1>1, <1>2, ClientNumbers
        DEF ClientInv, Informed, SessionDeadline, LastActivity, Half

\* A deadline that stays, or is forgotten, stays as close to the login and the jar.
LEMMA HeardKept ==
    ASSUME ClientInv, SessionInv', deadline' \in {0, deadline}, basis' = basis, now' >= now,
           jar' = jar \/ jar' = None \/ jar'.gotAt = now',
           logins' >= logins, \A l \in 1 .. logins : loginAt'[l] = loginAt[l]
    PROVE  Heard' /\ Sourced'
<1>1. now \in Nat /\ deadline \in Nat /\ basis.took \in Nat
  BY ClientTypes
<1>2. now' \in Nat /\ logins \in Nat /\ logins' \in Nat
  BY SessionConfig DEF ClientInv, SessionInv, TypeOK
<1>3. jar # None => jar.gotAt \in Nat
  BY Past DEF ClientInv
<1>4. Heard /\ Sourced
  BY DEF ClientInv
<1> QED BY <1>1, <1>2, <1>3, <1>4, ClientNumbers DEF Heard, Sourced, Half

\* What is no further ahead of the clock than c stays so.
LEMMA NoFurther ==
    ASSUME NEW a \in Nat, NEW b \in Nat, NEW c \in Nat, NEW d \in Nat, a <= b + c, d >= b
    PROVE  a <= d + c
OBVIOUS

\* The same of a deadline that was guessed, as long as the downloads under way stay.
LEMMA GuessedKept ==
    ASSUME ClientInv, SessionInv', deadline' \in {0, deadline}, basis' = basis, now' >= now,
           \/ /\ jar' = jar
              /\ \A c \in Conn : call[c].use = "download" =>
                    call'[c].use = "download" /\ call'[c].at = call[c].at
           \/ jar' = None
           \/ jar'.gotAt = now'
    PROVE  Guessed'
<1>1. now \in Nat /\ deadline \in Nat
  BY ClientTypes
<1>2. now' \in Nat
  BY DEF SessionInv, TypeOK
<1>3. Guessed
  BY DEF ClientInv
<1>4. deadline' # 0 /\ basis'.use \in {"download", "lost"} =>
          IdleTTL > 0 /\ deadline' <= now' + IdleTTL
  <2>1. SUFFICES ASSUME deadline' # 0, basis'.use \in {"download", "lost"}
                 PROVE  IdleTTL > 0 /\ deadline' <= now' + IdleTTL
    OBVIOUS
  <2>2. deadline' = deadline /\ basis'.use = basis.use
    BY <2>1
  <2>3. IdleTTL > 0 /\ deadline <= now + IdleTTL
    BY <1>3, <2>1, <2>2 DEF Guessed
  <2>4. now' >= now
    OBVIOUS
  <2>5. IdleTTL \in Nat
    BY SessionConfig
  <2>6. deadline <= now' + IdleTTL
    BY <1>1, <1>2, <2>3, <2>4, <2>5, NoFurther
  <2> QED BY <2>2, <2>3, <2>6
<1>5. SUFFICES ASSUME deadline' # 0, basis'.use = "download", jar' # None
               PROVE  \/ deadline' <= jar'.gotAt + IdleTTL + RefreshInterval
                      \/ \E c \in Conn : /\ call'[c].use = "download"
                                        /\ deadline' <= call'[c].at + IdleTTL
  BY <1>4 DEF Guessed
<1>6. deadline' = deadline /\ deadline # 0 /\ basis.use = "download"
  BY <1>5
<1>7. CASE jar'.gotAt = now'
  BY <1>1, <1>2, <1>4, <1>5, <1>7, ClientNumbers
<1>8. CASE jar' = jar /\ \A c \in Conn : call[c].use = "download" =>
                           call'[c].use = "download" /\ call'[c].at = call[c].at
  BY <1>3, <1>5, <1>6, <1>8 DEF Guessed
<1> QED BY <1>5, <1>7, <1>8

\* No step changes when an earlier login took place.
LEMMA LoginsKept ==
    ASSUME SessionInv, [Next]_vars
    PROVE  logins' >= logins /\ \A l \in 1 .. logins : loginAt'[l] = loginAt[l]
<1>1. logins \in Nat /\ loginAt \in [Login -> Nat]
  BY SessionConfig DEF SessionInv, TypeOK
<1>2. ASSUME NEW c \in Conn, ServeCallback(c)
      PROVE  logins' >= logins /\ \A l \in 1 .. logins : loginAt'[l] = loginAt[l]
  <2>1. logins' = logins + 1 /\ loginAt' = [loginAt EXCEPT ![NewSession(logins + 1).login] = now]
    BY <1>2 DEF ServeCallback
  <2>2. NewSession(logins + 1).login = logins + 1
    BY DEF NewSession
  <2> QED BY <1>1, <2>1, <2>2
<1>3. CASE UNCHANGED <<logins, loginAt>>
  BY <1>1, <1>3
<1>4. [Next]_vars => UNCHANGED <<logins, loginAt>> \/ \E c \in Conn : ServeCallback(c)
  BY DEF Next, vars, Tick, RotateKey, Send, Admit, Deny, ServeLogout, Deliver, Lose
<1> QED BY <1>2, <1>3, <1>4

-----------------------------------------------------------------------------
(* The steps *)

\* Pages that nobody waits in any more leave their requests as they are.
LEMMA OrphanedFields ==
    ASSUME ClientTypeOK, NEW t \in Tab
    PROVE  /\ Orphaned(t) \in [Conn -> Call]
           /\ \A c \in Conn : Orphaned(t)[c].at = call[c].at /\ Orphaned(t)[c].use = call[c].use
<1>1. ASSUME NEW c \in Conn
      PROVE  /\ Orphaned(t)[c] \in Call
             /\ Orphaned(t)[c].at = call[c].at /\ Orphaned(t)[c].use = call[c].use
  <2>1. call[c] \in Call
    BY DEF ClientTypeOK
  <2>2. \/ Orphaned(t)[c] = [call[c] EXCEPT !.tab = None]
        \/ Orphaned(t)[c] = call[c]
    BY DEF Orphaned
  <2> QED BY <2>1, <2>2 DEF Call
<1> QED BY <1>1 DEF Orphaned

\* Time passes, and no download is under way for longer than Latency.
LEMMA ClientPass ==
    ASSUME ClientInv, Pass
    PROVE  ClientInv'
<1>1. /\ now' = now + 1
      /\ UNCHANGED <<jar, conn, logins, loginAt, deadline, page, call, calls, basis, heard>>
  BY DEF Pass, Tick, clientVars
<1>2. SessionInv'
  BY SessionStep DEF ClientInv, Pass, Next
<1>3. now \in Nat /\ deadline \in Nat /\ Horizon \in Nat
  BY ClientTypes
<1>4. Horizon' \in Nat /\ Horizon' >= Horizon
  BY <1>1, <1>3 DEF Horizon
<1>5. ASSUME NEW c \in Conn PROVE Fits(c)'
  <2>1. call[c].use = "download" => now < call[c].at + Latency
    BY DEF Pass
  <2>2. call[c].at \in Nat
    BY ClientTypes
  <2>3. call[c].use = "download" => now' <= call[c].at + Latency
    BY <1>1, <1>3, <2>1, <2>2, ClientNumbers
  <2>4. now' >= now
    BY <1>1, <1>3
  <2> QED BY <1>1, <1>2, <1>4, <2>3, <2>4, FitsKept
<1>6. JarFresh'
  <2>1. jar # None => jar.gotAt \in Nat
    BY Past DEF ClientInv
  <2> QED BY <1>1, <1>3, <2>1 DEF ClientInv, JarFresh, LastActivity
<1>7. Informed'
  BY <1>1, <1>4, InformedKept
<1>8. now' >= now /\ deadline' \in {0, deadline}
  BY <1>1, <1>3
<1>9. Heard' /\ Sourced'
  BY <1>1, <1>2, <1>8, HeardKept, LoginsKept DEF ClientInv, SessionInv, TypeOK
<1>10. Guessed'
  BY <1>1, <1>2, <1>8, GuessedKept
<1>11. ClientTypeOK'
  BY <1>1, <1>3, ClientNumbers DEF ClientInv, ClientTypeOK, Half
<1> QED BY <1>2, <1>5, <1>6, <1>7, <1>9, <1>10, <1>11 DEF ClientInv

\* A page is left or closed, or nothing happens.
LEMMA ClientPages ==
    ASSUME ClientInv,
           UNCHANGED <<vars, deadline, calls, basis, heard>>,
           page' \in [Tab -> Pages], call' \in [Conn -> Call],
           \A c \in Conn : call'[c].at = call[c].at /\ call'[c].use = call[c].use
    PROVE  ClientInv'
<1>1. UNCHANGED <<now, jar, conn, logins, loginAt, deadline, calls, basis, heard>>
  BY DEF vars
<1>2. SessionInv'
  BY SessionStep DEF ClientInv
<1>3. now \in Nat /\ deadline \in Nat /\ Horizon \in Nat
  BY ClientTypes
<1>4. Horizon' = Horizon /\ now' >= now /\ deadline' \in {0, deadline} /\ Horizon' >= Horizon
  BY <1>1, <1>3 DEF Horizon
<1>5. ASSUME NEW c \in Conn PROVE Fits(c)'
  <2>1. call[c].use = "download" => now' <= call[c].at + Latency
    BY <1>1 DEF ClientInv, Fits
  <2> QED BY <1>1, <1>2, <1>3, <1>4, <2>1, FitsKept
<1>6. JarFresh'
  BY <1>1 DEF ClientInv, JarFresh, LastActivity
<1>7. Informed'
  BY <1>1, <1>3, <1>4, InformedKept
<1>8. logins' >= logins /\ \A l \in 1 .. logins : loginAt'[l] = loginAt[l]
  BY LoginsKept DEF ClientInv
<1>9. Heard' /\ Sourced'
  BY <1>1, <1>2, <1>4, <1>8, HeardKept
<1>10. Guessed'
  BY <1>1, <1>2, <1>4, GuessedKept
<1>11. ClientTypeOK'
  BY <1>1 DEF ClientInv, ClientTypeOK
<1> QED BY <1>2, <1>5, <1>6, <1>7, <1>9, <1>10, <1>11 DEF ClientInv

\* The gateway answers: what it tells is right now, and a cookie it does not bring was
\* not due.
LEMMA ClientServe ==
    ASSUME ClientInv, NEW c \in Conn, Serve(c)
    PROVE  ClientInv'
<1>1. Next
  BY DEF Serve, Next
<1>2. SessionInv'
  BY <1>1, SessionStep DEF ClientInv
<1>3. /\ conn[c].phase = "sent" /\ \A d \in Conn \ {c} : conn'[d] = conn[d]
      /\ conn'[c].phase = "served" /\ conn'[c].cookie = conn[c].cookie
      /\ UNCHANGED <<now, jar, clientVars>>
      /\ \/ conn'[c].expiresIn = -1 /\ conn'[c].set # None
         \/ \E r \in SessionData :
               /\ conn[c].cookie \in SessionData /\ conn[c].cookie # None
               /\ r # None /\ r.login = conn[c].cookie.login
               /\ \/ conn'[c].set = r /\ r # Clear
                  \/ /\ conn'[c].set = None /\ r = conn[c].cookie
                     /\ ~RefreshDue(conn[c].cookie)
               /\ SessionDeadline(r) <= now + AbsoluteTTL
               /\ conn'[c].expiresIn = SecondsUntil(SessionDeadline(r))
  BY <1>2, ServeEffect DEF ClientInv
<1>4. UNCHANGED <<now, jar, deadline, page, call, calls, basis, heard>>
  BY <1>3 DEF clientVars
<1>5. now \in Nat /\ deadline \in Nat /\ Horizon \in Nat /\ call[c].at \in Nat
  BY ClientTypes
<1>6. Horizon' = Horizon /\ now' >= now /\ deadline' \in {0, deadline} /\ Horizon' >= Horizon
  BY <1>4, <1>5 DEF Horizon
<1>7. ASSUME NEW d \in Conn \ {c} PROVE Fits(d)'
  <2>1. call[d].use = "download" => now' <= call[d].at + Latency
    BY <1>4 DEF ClientInv, Fits
  <2> QED BY <1>2, <1>3, <1>4, <1>5, <1>6, <2>1, FitsKept
<1>8. Fits(c)'
  <2>0. Fits(c)
    BY DEF ClientInv
  <2>1. Carries(c)'
    BY <1>3, <1>4, <2>0 DEF Fits, Carries, LastActivity
  <2>2. CASE conn'[c].expiresIn = -1 /\ conn'[c].set # None
    <3>1. NotDue(c)' /\ Tells(c)'
      BY <2>2 DEF NotDue, Tells
    <3> QED BY <1>3, <1>4, <1>6, <2>0, <2>1, <3>1 DEF Fits
  <2>3. ASSUME NEW r \in SessionData,
               conn[c].cookie \in SessionData, conn[c].cookie # None,
               r # None, r.login = conn[c].cookie.login,
               \/ conn'[c].set = r /\ r # Clear
               \/ /\ conn'[c].set = None /\ r = conn[c].cookie
                  /\ ~RefreshDue(conn[c].cookie),
               SessionDeadline(r) <= now + AbsoluteTTL,
               conn'[c].expiresIn = SecondsUntil(SessionDeadline(r))
        PROVE  Fits(c)'
    <3>1. Told(c)' = r
      BY <1>3, <2>3 DEF Told
    <3>2. SessionDeadline(r) \in Nat
      BY DeadlineParts
    <3> DEFINE e == SecondsUntil(SessionDeadline(r))
    <3>3. /\ e \in Int /\ Second * e \in Int
          /\ now + Second * e <= SessionDeadline(r) + Half
          /\ SessionDeadline(r) <= now + Second * e + Half
      BY <1>5, <3>2, LeftRight
    <3> HIDE DEF e
    <3>4. Second * e <= AbsoluteTTL + Half /\ call[c].at + Second * e <= SessionDeadline(r) + Half
      BY <1>5, <2>0, <2>3, <3>2, <3>3, ClientNumbers DEF Fits
    <3>5. SessionDeadline(r)' = SessionDeadline(r)
      BY DEF SessionDeadline, LastActivity
    <3>6. Advertised(call[c].at, Told(c), conn[c].expiresIn)'
      BY <1>4, <2>3, <3>1, <3>3, <3>4, <3>5 DEF Advertised, Half, e
    <3>7. Tells(c)'
      BY <1>3, <2>3, <3>1, <3>6 DEF Tells
    <3>8. NotDue(c)'
      <4>1. SUFFICES ASSUME conn'[c].set = None
                     PROVE  /\ conn'[c].cookie # None
                            /\ IdleTTL > 0 =>
                                 call'[c].at <= LastActivity(conn'[c].cookie) + RefreshInterval
        BY DEF NotDue, LastActivity
      <4>2. ~RefreshDue(conn[c].cookie)
        BY <2>3, <4>1
      <4>3. LastActivity(conn[c].cookie) \in Nat
        BY <2>3, DeadlineParts
      <4>4. IdleTTL > 0 => now < LastActivity(conn[c].cookie) + RefreshInterval
        BY <1>5, <4>2, <4>3, ClientNumbers DEF RefreshDue
      <4> QED BY <1>3, <1>4, <1>5, <2>0, <2>3, <4>3, <4>4, ClientNumbers DEF Fits
    <3> QED BY <1>3, <1>4, <1>6, <2>0, <2>1, <3>7, <3>8 DEF Fits
  <2> QED BY <1>3, <2>2, <2>3
<1>9. JarFresh'
  BY <1>4 DEF ClientInv, JarFresh, LastActivity
<1>10. Informed'
  BY <1>4, <1>5, <1>6, InformedKept
<1>11. logins' >= logins /\ \A l \in 1 .. logins : loginAt'[l] = loginAt[l]
  BY <1>1, LoginsKept DEF ClientInv
<1>12. Heard' /\ Sourced'
  BY <1>2, <1>4, <1>6, <1>11, HeardKept
<1>13. Guessed'
  BY <1>2, <1>4, <1>6, GuessedKept
<1>14. ClientTypeOK'
  BY <1>4 DEF ClientInv, ClientTypeOK
<1>15. \A d \in Conn : Fits(d)'
  BY <1>7, <1>8
<1> QED BY <1>2, <1>9, <1>10, <1>12, <1>13, <1>14, <1>15 DEF ClientInv

\* An empty connection fits no request.
LEMMA FitsNothing ==
    ASSUME ClientInv, NEW c \in Conn, conn'[c] = NoExchange, call'[c] = NoCall, now' = now
    PROVE  Fits(c)'
<1>1. /\ NoExchange.phase = "idle" /\ NoExchange.cookie = None /\ NoExchange.expiresIn = -1
      /\ NoCall.use = "none" /\ NoCall.at = 0
  BY DEF NoExchange, NoCall
<1>2. now \in Nat
  BY ClientTypes
<1> QED BY <1>1, <1>2 DEF Fits, Carries, NotDue, Tells

\* A request is lost.  With a download goes what a guess rested on, and only the clock
\* bounds such a guess any more.
LEMMA ClientLose ==
    ASSUME ClientInv, NEW c \in Conn, LoseCall(c)
    PROVE  ClientInv'
<1>1. /\ conn' = [conn EXCEPT ![c] = NoExchange] /\ call' = [call EXCEPT ![c] = NoCall]
      /\ UNCHANGED <<now, jar, logins, loginAt, deadline, page, calls, heard>>
      /\ basis' = BasisWithout(c)
  BY DEF LoseCall, Lose
<1>2. SessionInv'
  BY SessionStep DEF ClientInv, LoseCall, Next
<1>3. conn \in [Conn -> Exchange] /\ call \in [Conn -> Call]
  BY DEF ClientInv, SessionInv, TypeOK, ClientTypeOK
<1>4. /\ conn'[c] = NoExchange /\ call'[c] = NoCall
      /\ \A d \in Conn \ {c} : conn'[d] = conn[d] /\ call'[d] = call[d]
  BY <1>1, <1>3
<1>5. now \in Nat /\ deadline \in Nat /\ Horizon \in Nat /\ logins \in Nat
  BY ClientTypes, SessionConfig DEF ClientInv, SessionInv, TypeOK
<1>6. Horizon' = Horizon /\ now' >= now /\ deadline' \in {0, deadline} /\ Horizon' >= Horizon
  BY <1>1, <1>5 DEF Horizon
<1>7. ASSUME NEW d \in Conn \ {c} PROVE Fits(d)'
  <2>1. call[d].use = "download" => now' <= call[d].at + Latency
    BY <1>1 DEF ClientInv, Fits
  <2> QED BY <1>1, <1>2, <1>4, <1>5, <1>6, <2>1, FitsKept
<1>8. \A d \in Conn : Fits(d)'
  BY <1>1, <1>4, <1>7, FitsNothing
<1>9. JarFresh'
  BY <1>1 DEF ClientInv, JarFresh, LastActivity
<1>10. Informed'
  BY <1>1, <1>5, <1>6, InformedKept
<1>11. basis \in [use : Uses \cup {"lost"}, login : Login \cup {0}, took : Nat]
  BY DEF ClientInv, ClientTypeOK
<1>12. Heard' /\ Sourced' /\ Guessed'
  <2>1. CASE call[c].use = "download" /\ basis.use = "download"
    <3>1. basis'.use = "lost"
      BY <1>1, <1>11, <2>1 DEF BasisWithout
    <3>2. Guessed
      BY DEF ClientInv
    <3> QED BY <1>1, <2>1, <3>1, <3>2 DEF Heard, Sourced, Guessed
  <2>2. CASE basis.use # "download"
    <3>1. basis' = basis
      BY <1>1, <2>2 DEF BasisWithout
    <3>2. Guessed'
      BY <1>1, <2>2, <3>1 DEF ClientInv, Guessed
    <3> QED BY <1>1, <1>2, <1>5, <1>6, <3>1, <3>2, HeardKept
  <2>3. CASE call[c].use # "download"
    <3>1. basis' = basis
      BY <1>1, <2>3 DEF BasisWithout
    <3>2. \A d \in Conn : call[d].use = "download" =>
              call'[d].use = "download" /\ call'[d].at = call[d].at
      BY <1>1, <1>4, <2>3
    <3> QED BY <1>1, <1>2, <1>5, <1>6, <3>1, <3>2, HeardKept, GuessedKept
  <2> QED BY <2>1, <2>2, <2>3
<1>13. ClientTypeOK'
  <2>1. NoCall \in Call
    BY DEF NoCall, Call, Uses
  <2>2. call' \in [Conn -> Call]
    BY <1>1, <1>3, <2>1
  <2>3. basis' \in [use : Uses \cup {"lost"}, login : Login \cup {0}, took : Nat]
    BY <1>1, <1>11 DEF BasisWithout
  <2> QED BY <1>1, <2>2, <2>3 DEF ClientInv, ClientTypeOK
<1> QED BY <1>2, <1>8, <1>9, <1>10, <1>12, <1>13 DEF ClientInv

\* A page asks for something.  Only the guess for a download moves the deadline
\* forward, and only loading a page forgets it.
LEMMA ClientAsk ==
    ASSUME ClientInv, NEW c \in Conn, NEW t \in Tab, NEW kind \in Kinds,
           NEW use \in Uses, use # "none", Send(c, kind),
           NEW waiting \in [Conn -> Call],
           \A d \in Conn : waiting[d].at = call[d].at /\ waiting[d].use = call[d].use,
           Ask(waiting, c, t, use),
           heard' = heard, page' \in [Tab -> Pages],
           deadline' \in Nat, Horizon' >= Horizon, deadline' <= now + AbsoluteTTL + Half,
           use = "download" /\ IdleTTL > 0 => now + IdleTTL <= Horizon',
           \/ deadline' \in {0, deadline} /\ basis' = basis
           \/ /\ use = "download" /\ IdleTTL > 0 /\ deadline' = now + IdleTTL
              /\ basis' = Basis("download", JarSession, 0)
    PROVE  ClientInv'
<1>1. /\ conn[c].phase = "idle" /\ conn' = [conn EXCEPT ![c] = Request(kind)]
      /\ calls < MaxCalls /\ calls' = calls + 1
      /\ call' = [waiting EXCEPT ![c] = [tab |-> t, use |-> use, at |-> now]]
      /\ UNCHANGED <<now, jar, logins, loginAt>>
  BY DEF Send, Ask
<1>2. SessionInv'
  BY SessionStep DEF ClientInv, Next
<1>3. conn \in [Conn -> Exchange] /\ call \in [Conn -> Call]
  BY DEF ClientInv, SessionInv, TypeOK, ClientTypeOK
<1>4. /\ conn'[c] = Request(kind) /\ call'[c] = [tab |-> t, use |-> use, at |-> now]
      /\ \A d \in Conn \ {c} : conn'[d] = conn[d] /\ call'[d] = waiting[d]
  BY <1>1, <1>3
<1>5. now \in Nat /\ deadline \in Nat /\ Horizon \in Nat /\ logins \in Nat
      /\ now' >= now
  BY <1>1, ClientTypes, SessionConfig DEF ClientInv, SessionInv, TypeOK
<1>6. Horizon' \in Nat
  BY <1>1, <1>5 DEF Horizon
<1>7. ASSUME NEW d \in Conn \ {c} PROVE Fits(d)'
  <2>1. call[d].use = "download" => now' <= call[d].at + Latency
    BY <1>1 DEF ClientInv, Fits
  <2> QED BY <1>1, <1>2, <1>4, <1>5, <1>6, <2>1, FitsKept
<1>8. Fits(c)'
  <2>1. /\ Request(kind).phase = "sent" /\ Request(kind).cookie = JarSession
        /\ Request(kind).expiresIn = -1
    BY DEF Request
  <2>2. call'[c].use = use /\ call'[c].at = now
    BY <1>4
  <2>3. Carries(c)'
    <3>1. JarSession # None => jar # None /\ JarSession = jar.session
      BY JarSessionType DEF ClientInv, SessionInv
    <3>2. JarSession # None => LastActivity(JarSession) <= jar.gotAt
      BY <3>1 DEF ClientInv, JarFresh
    <3> QED BY <1>1, <1>4, <2>1, <3>2 DEF Carries, LastActivity
  <2>4. NotDue(c)' /\ Tells(c)'
    BY <1>4, <2>1 DEF NotDue, Tells
  <2>5. use = "download" => now <= now + Latency
    BY <1>5, ClientNumbers
  <2> QED BY <1>1, <1>4, <1>5, <2>1, <2>2, <2>3, <2>4, <2>5 DEF Fits
<1>9. \A d \in Conn : Fits(d)'
  BY <1>7, <1>8
<1>10. JarFresh'
  BY <1>1 DEF ClientInv, JarFresh, LastActivity
<1>11. Informed'
  BY <1>1, <1>6, InformedKept
<1>12. Heard' /\ Sourced' /\ Guessed'
  <2>1. CASE deadline' \in {0, deadline} /\ basis' = basis
    <3>1. Heard' /\ Sourced'
      BY <1>1, <1>2, <1>5, <2>1, HeardKept
    <3>2. \A d \in Conn : call[d].use = "download" =>
              call'[d].use = "download" /\ call'[d].at = call[d].at
      BY <1>1, <1>4 DEF ClientInv, Fits
    <3>3. Guessed'
      BY <1>1, <1>2, <1>5, <2>1, <3>2, GuessedKept
    <3> QED BY <3>1, <3>3
  <2>2. CASE /\ use = "download" /\ IdleTTL > 0 /\ deadline' = now + IdleTTL
             /\ basis' = Basis("download", JarSession, 0)
    <3>1. basis'.use = "download"
      BY <2>2 DEF Basis
    <3>2. call'[c].use = "download" /\ deadline' <= call'[c].at + IdleTTL
      BY <1>4, <1>5, <2>2, ClientNumbers
    <3> QED BY <1>1, <1>5, <2>2, <3>1, <3>2, ClientNumbers DEF Heard, Sourced, Guessed
  <2> QED BY <2>1, <2>2
<1>13. ClientTypeOK'
  <2>1. [tab |-> t, use |-> use, at |-> now] \in Call
    BY <1>5 DEF Call
  <2>2. call' \in [Conn -> Call]
    BY <1>1, <2>1
  <2>3. calls' \in 0 .. MaxCalls
    BY <1>1, ClientNumbers DEF ClientInv, ClientTypeOK
  <2>4. deadline' \in 0 .. now' + AbsoluteTTL + Second \div 2
    BY <1>1, <1>5, ClientNumbers DEF Half
  <2>5. basis' \in [use : Uses \cup {"lost"}, login : Login \cup {0}, took : Nat]
    <3>1. CASE basis' = basis
      BY <3>1 DEF ClientInv, ClientTypeOK
    <3>2. CASE basis' = Basis("download", JarSession, 0)
      <4>1. JarSession # None => JarSession.login \in Login
        BY JarSessionType DEF ClientInv, SessionInv, SessionData
      <4>2. "download" \in Uses
        BY DEF Uses
      <4> QED BY <3>2, <4>1, <4>2 DEF Basis
    <3> QED BY <3>1, <3>2
  <2> QED BY <2>2, <2>3, <2>4, <2>5 DEF ClientInv, ClientTypeOK
<1> QED BY <1>2, <1>9, <1>10, <1>11, <1>12, <1>13 DEF ClientInv

\* Every request of the frontend, and what its page does to the deadline.
LEMMA ClientAsks ==
    ASSUME ClientInv, NEW c \in Conn, NEW t \in Tab,
           \/ Load(t, c) \/ Fetch(t, c) \/ StartDownload(t, c) \/ Upload(t, c)
           \/ SignIn(t, c) \/ SignOut(t, c)
    PROVE  ClientInv'
<1>1. /\ now \in Nat /\ deadline \in Nat /\ Horizon \in Nat
      /\ deadline <= now + AbsoluteTTL + Half /\ page \in [Tab -> Pages]
      /\ call \in [Conn -> Call]
  BY ClientTypes, ClientNumbers DEF ClientInv, ClientTypeOK, Half
<1>2. /\ {"api", "callback", "logout"} \subseteq Kinds
      /\ {"fetch", "upload", "download", "navigation"} \subseteq Uses
  BY DEF Kinds, Uses
<1>3. \A d \in Conn : call[d].at = call[d].at /\ call[d].use = call[d].use
  OBVIOUS
<1>4. ASSUME UNCHANGED <<now, deadline, basis, heard>>
      PROVE  /\ deadline' \in Nat /\ Horizon' >= Horizon /\ heard' = heard
             /\ deadline' <= now + AbsoluteTTL + Half
             /\ deadline' \in {0, deadline} /\ basis' = basis
  BY <1>1, <1>4 DEF Horizon
<1>5. CASE Load(t, c)
  <2>1. /\ Send(c, "api") /\ Ask(call, c, t, "fetch") /\ basis' = basis /\ heard' = heard
        /\ page' = [page EXCEPT ![t] = "app"] /\ deadline' = ForgetExpiredDeadline
        /\ now' = now
    BY <1>5 DEF Load, Send
  <2>2. page' \in [Tab -> Pages]
    BY <1>1, <2>1 DEF Pages
  <2>3. /\ deadline' \in {0, deadline} /\ deadline' \in Nat /\ Horizon' >= Horizon
        /\ deadline' <= now + AbsoluteTTL + Half
    BY <1>1, <2>1, ClientNumbers DEF ForgetExpiredDeadline, Horizon
  <2> QED BY <1>1, <1>2, <1>3, <2>1, <2>2, <2>3, ClientAsk
<1>6. CASE Fetch(t, c)
  <2>1. /\ Send(c, "api") /\ Ask(call, c, t, "fetch")
        /\ UNCHANGED <<now, deadline, basis, heard>> /\ page' = page
    BY <1>6 DEF Fetch, Send
  <2> QED BY <1>1, <1>2, <1>3, <1>4, <2>1, ClientAsk
<1>7. CASE Upload(t, c)
  <2>1. /\ Send(c, "api") /\ Ask(call, c, t, "upload")
        /\ UNCHANGED <<now, deadline, basis, heard>> /\ page' = page
    BY <1>7 DEF Upload, Send
  <2> QED BY <1>1, <1>2, <1>3, <1>4, <2>1, ClientAsk
<1>8. CASE SignIn(t, c)
  <2>1. /\ Send(c, "callback") /\ Ask(Orphaned(t), c, t, "navigation")
        /\ UNCHANGED <<now, deadline, basis, heard>> /\ page' = page
    BY <1>8 DEF SignIn, Send
  <2>2. /\ Orphaned(t) \in [Conn -> Call]
        /\ \A d \in Conn : Orphaned(t)[d].at = call[d].at /\ Orphaned(t)[d].use = call[d].use
    BY OrphanedFields DEF ClientInv
  <2> QED BY <1>1, <1>2, <1>4, <2>1, <2>2, ClientAsk
<1>9. CASE SignOut(t, c)
  <2>1. /\ Send(c, "logout") /\ Ask(call, c, t, "navigation")
        /\ UNCHANGED <<now, deadline, basis, heard>> /\ page' = page
    BY <1>9 DEF SignOut, Send
  <2> QED BY <1>1, <1>2, <1>3, <1>4, <2>1, ClientAsk
<1>10. CASE StartDownload(t, c)
  <2>1. /\ Send(c, "api") /\ Ask(call, c, t, "download")
        /\ deadline' = NoteUnreadRequest /\ page' = page /\ heard' = heard /\ now' = now
        /\ basis' = IF deadline' # deadline THEN Basis("download", JarSession, 0) ELSE basis
    BY <1>10 DEF StartDownload, Send
  <2>2. /\ deadline' \in Nat /\ deadline' >= deadline
        /\ deadline' <= now + AbsoluteTTL + Half
        /\ IdleTTL > 0 => now + IdleTTL <= deadline'
        /\ deadline' # deadline => IdleTTL > 0 /\ deadline' = now + IdleTTL
    BY <1>1, <2>1, ClientNumbers DEF NoteUnreadRequest, ExtendTo
  <2>3. Horizon' >= Horizon /\ (IdleTTL > 0 => now + IdleTTL <= Horizon')
    BY <1>1, <2>1, <2>2, ClientNumbers DEF Horizon
  <2> QED BY <1>1, <1>2, <1>3, <2>1, <2>2, <2>3, ClientAsk
<1> QED BY <1>5, <1>6, <1>7, <1>8, <1>9, <1>10

\* The jar after a response: as before, empty, or with the cookie the response brought.
LEMMA StoreEffect ==
    ASSUME SessionInv, NEW c \in Conn, Deliver(c)
    PROVE  /\ conn[c].phase = "served" /\ conn' = [conn EXCEPT ![c] = NoExchange]
           /\ UNCHANGED <<now, logins, loginAt>>
           /\ \/ conn[c].set = None /\ jar' = jar
              \/ conn[c].set # None /\ jar' = None
              \/ /\ conn[c].set \in SessionData /\ conn[c].set \notin {None, Clear}
                 /\ jar'.session = conn[c].set /\ jar'.gotAt = now
<1>1. conn[c] \in Exchange
  BY DEF SessionInv, TypeOK
<1>2. conn[c].set \in SessionData \cup {None, Clear} /\ conn[c].maxAge \in Int
  BY <1>1 DEF Exchange
<1>3. jar' = Store(conn[c])
  BY DEF Deliver
<1>4. CASE conn[c].set = None
  BY <1>3, <1>4 DEF Store, Deliver
<1>5. CASE conn[c].set # None /\ (conn[c].set = Clear \/ conn[c].maxAge < 0)
  BY <1>3, <1>5 DEF Store, Deliver
<1>6. CASE conn[c].set \notin {None, Clear} /\ ~(conn[c].maxAge < 0)
  <2>1. jar' = [session |-> conn[c].set, gotAt |-> now, maxAge |-> conn[c].maxAge]
    BY <1>3, <1>6 DEF Store
  <2> QED BY <1>2, <1>6, <2>1 DEF Deliver
<1> QED BY <1>4, <1>5, <1>6

\* What a page does with a response it waits for: the deadline moves forward at most,
\* and only to what the response tells.
LEMMA ReceiveEffect ==
    ASSUME ClientInv, NEW c \in Conn, Receive(c)
    PROVE  LET e == conn[c].expiresIn
               use == call[c].use
               reads == call[c].tab # None /\ use \in {"fetch", "upload"}
           IN  /\ Deliver(c) /\ calls' = calls
               /\ deadline' \in Nat /\ deadline' >= deadline
               /\ reads /\ e >= 0 => deadline' >= now + Second * e
               /\ \/ deadline' = deadline /\ basis' = basis
                  \/ /\ reads /\ e >= 0 /\ deadline' = now + Second * e
                     /\ basis' = Basis(use, conn[c].cookie, now - call[c].at)
               /\ page' \in [Tab -> Pages] /\ call' \in [Conn -> Call]
               /\ call'[c] = NoCall
               /\ \A d \in Conn \ {c} : call'[d].at = call[d].at /\ call'[d].use = call[d].use
               /\ \/ conn[c].set # None /\ heard' = "none"
                  \/ conn[c].set # None /\ use = "download" /\ heard' = "download"
                  \/ conn[c].set # None /\ reads /\ e >= 0 /\ heard' = use
                  \/ /\ conn[c].set = None /\ reads /\ e >= 0 /\ heard' = use
                     /\ jar # None /\ conn[c].cookie = jar.session
                  \/ conn[c].set = None /\ heard' = heard
<1> DEFINE e == conn[c].expiresIn
           use == call[c].use
           t == call[c].tab
           reads == t # None /\ use \in Read
           leaves == t # None /\ IF use = "navigation" THEN conn[c].kind = "logout"
                                                       ELSE conn[c].verdict # "ok"
           told == use = "download" \/ (reads /\ e >= 0)
           at == now + Second * e
<1>1. /\ now \in Nat /\ deadline \in Nat /\ e \in Int /\ Second * e \in Int
      /\ call \in [Conn -> Call] /\ page \in [Tab -> Pages] /\ ClientTypeOK
  BY ClientTypes DEF ClientInv, ClientTypeOK
<1>2. reads <=> call[c].tab # None /\ use \in {"fetch", "upload"}
  BY DEF Read
<1>3. /\ Deliver(c) /\ calls' = calls
      /\ deadline' = IF reads THEN NoteExpiresIn(e) ELSE deadline
      /\ basis' = IF deadline' # deadline THEN Basis(use, conn[c].cookie, now - call[c].at)
                                          ELSE basis
      /\ page' = IF leaves THEN [page EXCEPT ![t] = "away"] ELSE page
      /\ call' = [(IF leaves THEN Orphaned(t) ELSE call) EXCEPT ![c] = NoCall]
      /\ heard' = CASE conn[c].set # None -> IF told THEN use ELSE "none"
                    [] conn[c].set = None /\ told /\ reads /\ jar # None
                          /\ conn[c].cookie = jar.session -> use
                    [] OTHER -> heard
  BY DEF Receive
<1>4. NoteExpiresIn(e) = IF e < 0 THEN deadline ELSE ExtendTo(at)
  BY DEF NoteExpiresIn
<1>5. ExtendTo(at) = IF deadline >= at THEN deadline ELSE at
  BY DEF ExtendTo
<1>6. t \in Tab \cup {None} /\ (leaves => t \in Tab)
  <2>1. call[c] \in Call
    BY <1>1
  <2> QED BY <2>1 DEF Call
<1>7. page' \in [Tab -> Pages]
  BY <1>1, <1>3, <1>6 DEF Pages
<1> DEFINE rest == IF leaves THEN Orphaned(t) ELSE call
<1>8. /\ rest \in [Conn -> Call]
      /\ \A d \in Conn : rest[d].at = call[d].at /\ rest[d].use = call[d].use
  BY <1>1, <1>6, OrphanedFields
<1>9. call' = [rest EXCEPT ![c] = NoCall]
  BY <1>3
<1> HIDE DEF rest
<1>10. /\ call' \in [Conn -> Call] /\ call'[c] = NoCall
       /\ \A d \in Conn \ {c} : call'[d].at = call[d].at /\ call'[d].use = call[d].use
  <2>1. NoCall \in Call
    BY DEF NoCall, Call, Uses
  <2> QED BY <1>8, <1>9, <2>1
<1> HIDE DEF leaves
<1>11. /\ deadline' \in Nat /\ deadline' >= deadline
       /\ reads /\ e >= 0 => deadline' >= now + Second * e
       /\ \/ deadline' = deadline
          \/ reads /\ e >= 0 /\ deadline' = now + Second * e
  <2> HIDE DEF e, reads
  <2>1. CASE ~reads \/ e < 0
    BY <1>1, <1>3, <1>4, <2>1
  <2>2. CASE reads /\ ~(e < 0)
    BY <1>1, <1>3, <1>4, <1>5, <2>2
  <2> QED BY <2>1, <2>2
<1>12. /\ deadline' = deadline => basis' = basis
       /\ deadline' # deadline => basis' = Basis(use, conn[c].cookie, now - call[c].at)
  BY <1>3
<1>13. \/ conn[c].set # None /\ heard' = "none"
       \/ conn[c].set # None /\ use = "download" /\ heard' = "download"
       \/ conn[c].set # None /\ reads /\ e >= 0 /\ heard' = use
       \/ /\ conn[c].set = None /\ reads /\ e >= 0 /\ heard' = use
          /\ jar # None /\ conn[c].cookie = jar.session
       \/ conn[c].set = None /\ heard' = heard
  <2>1. reads => use # "download"
    BY <1>2
  <2>2. CASE conn[c].set # None
    <3>1. heard' = IF told THEN use ELSE "none"
      BY <1>3, <2>2
    <3> QED BY <2>2, <3>1
  <2>3. CASE conn[c].set = None
    <3>1. heard' = IF told /\ reads /\ jar # None /\ conn[c].cookie = jar.session
                   THEN use ELSE heard
      BY <1>3, <2>3
    <3> QED BY <2>1, <2>3, <3>1
  <2> QED BY <2>2, <2>3
<1> HIDE DEF e, use, reads
<1>14. \/ deadline' = deadline /\ basis' = basis
       \/ /\ reads /\ e >= 0 /\ deadline' = now + Second * e
          /\ basis' = Basis(use, conn[c].cookie, now - call[c].at)
  BY <1>11, <1>12
<1> QED BY <1>2, <1>3, <1>7, <1>10, <1>11, <1>13, <1>14 DEF e, use, reads

\* A response arrives.  A deadline that is read from it belongs to the session it
\* tells of; when it brings no cookie after a download, none was due, so the guess
\* was early by less than the refresh interval.
LEMMA ClientReceive ==
    ASSUME ClientInv, NEW c \in Conn, Receive(c)
    PROVE  ClientInv'
<1>a. PICK x : x = conn[c]
  OBVIOUS
<1>b. PICK use : use = call[c].use
  OBVIOUS
<1>c. PICK e : e = conn[c].expiresIn
  OBVIOUS
<1>d. PICK told : told = Second * e
  OBVIOUS
<1> DEFINE reads == call[c].tab # None /\ use \in {"fetch", "upload"}
<1>1. /\ Deliver(c) /\ calls' = calls
      /\ deadline' \in Nat /\ deadline' >= deadline
      /\ reads /\ e >= 0 => deadline' >= now + told
      /\ \/ deadline' = deadline /\ basis' = basis
         \/ /\ reads /\ e >= 0 /\ deadline' = now + told
            /\ basis' = Basis(use, x.cookie, now - call[c].at)
      /\ page' \in [Tab -> Pages] /\ call' \in [Conn -> Call]
      /\ call'[c] = NoCall
      /\ \A d \in Conn \ {c} : call'[d].at = call[d].at /\ call'[d].use = call[d].use
      /\ \/ x.set # None /\ heard' = "none"
         \/ x.set # None /\ use = "download" /\ heard' = "download"
         \/ x.set # None /\ reads /\ e >= 0 /\ heard' = use
         \/ /\ x.set = None /\ reads /\ e >= 0 /\ heard' = use
            /\ jar # None /\ x.cookie = jar.session
         \/ x.set = None /\ heard' = heard
  BY <1>a, <1>b, <1>c, <1>d, ReceiveEffect
<1>2. /\ x.phase = "served" /\ conn' = [conn EXCEPT ![c] = NoExchange]
      /\ UNCHANGED <<now, logins, loginAt>>
      /\ \/ x.set = None /\ jar' = jar
         \/ x.set # None /\ jar' = None
         \/ /\ x.set \in SessionData /\ x.set \notin {None, Clear}
            /\ jar'.session = x.set /\ jar'.gotAt = now
  BY <1>1, <1>a, StoreEffect DEF ClientInv
<1>3. SessionInv'
  BY <1>1, SessionStep DEF ClientInv, Next
<1>4. /\ now \in Nat /\ deadline \in Nat /\ Horizon \in Nat /\ call[c].at \in Nat
      /\ Horizon >= deadline /\ e \in Int /\ told \in Int /\ logins \in Nat
      /\ now' >= now
  BY <1>2, <1>c, <1>d, ClientTypes, SessionConfig DEF ClientInv, SessionInv, TypeOK
<1>5. Horizon' \in Nat /\ Horizon' >= Horizon /\ Horizon' >= deadline'
  BY <1>1, <1>2, <1>4 DEF Horizon
<1>6. \A d \in Conn : Fits(d)'
  <2>1. conn'[c] = NoExchange /\ \A d \in Conn \ {c} : conn'[d] = conn[d]
    BY <1>2 DEF ClientInv, SessionInv, TypeOK
  <2>2. ASSUME NEW d \in Conn \ {c} PROVE Fits(d)'
    <3>1. call[d].use = "download" => now' <= call[d].at + Latency
      BY <1>2 DEF ClientInv, Fits
    <3>2. jar' = jar \/ jar' = None \/ jar'.gotAt = now'
      BY <1>2
    <3> QED BY <1>1, <1>3, <1>4, <1>5, <2>1, <3>1, <3>2, FitsKept
  <2> QED BY <1>1, <1>2, <2>1, <2>2, FitsNothing
<1>7. /\ Fits(c)
      /\ x.cookie # None => /\ x.cookie \in SessionData /\ x.cookie.login \in 1 .. logins
                            /\ LastActivity(x.cookie) \in Nat /\ LastActivity(x.cookie) <= now
      /\ x.set \notin {None, Clear} =>
            /\ x.set \in SessionData
            /\ LastActivity(x.set) \in Nat /\ LastActivity(x.set) <= now
  BY <1>4, <1>a, Sessions, Past DEF ClientInv, Login
<1>8. JarFresh'
  BY <1>2, <1>4, <1>7 DEF ClientInv, JarFresh, LastActivity
\* What the response tells, if it tells something.
<1>9. ASSUME e >= 0
      PROVE  \E r \in SessionData :
                /\ r = IF x.set \in {None, Clear} THEN x.cookie ELSE x.set
                /\ x.cookie # None /\ r.login = x.cookie.login
                /\ r.expiresAt = loginAt[r.login] + AbsoluteTTL
                /\ LastActivity(r) <= now
                /\ call[c].at + told <= SessionDeadline(r) + Half
                /\ SessionDeadline(r) <= now + told + Half
                /\ told <= AbsoluteTTL + Half
  <2> DEFINE r == Told(c)
  <2>1. /\ x.cookie # None /\ r # None /\ r.login = x.cookie.login
        /\ Advertised(call[c].at, r, e)
    BY <1>7, <1>9, <1>a, <1>c DEF Fits, Tells
  <2>2. r = IF x.set \in {None, Clear} THEN x.cookie ELSE x.set
    BY <1>a DEF Told
  <2>3. r \in SessionData /\ LastActivity(r) <= now
    BY <1>7, <2>1, <2>2
  <2>4. Genuine(r)
    BY <2>1, <2>2, <1>a DEF ClientInv, SessionInv, Provenance
  <2>5. r.expiresAt = loginAt[r.login] + AbsoluteTTL
    BY <2>4 DEF Genuine
  <2> HIDE DEF r
  <2> QED BY <1>d, <2>1, <2>2, <2>3, <2>5 DEF Advertised
<1>10. Informed'
  <2>1. CASE x.set = None /\ heard' = heard
    BY <1>2, <1>5, <2>1, InformedKept
  <2>2. CASE x.set = None /\ heard' # heard
    <3>1. reads /\ e >= 0 /\ heard' = use /\ jar # None /\ x.cookie = jar.session /\ jar' = jar
      BY <1>1, <1>2, <2>2
    <3>2. PICK r \in SessionData :
             /\ r = x.cookie /\ SessionDeadline(r) <= now + told + Half
      BY <1>9, <2>2, <3>1
    <3>3. SessionDeadline(jar.session) <= Horizon' + Half
      BY <1>1, <1>4, <1>5, <3>1, <3>2, DeadlineParts, ClientNumbers
    <3>4. heard' # "download"
      BY <3>1
    <3> QED BY <3>1, <3>3, <3>4 DEF Informed, SessionDeadline, LastActivity, Half
  <2>3. CASE x.set # None
    <3>1. SUFFICES ASSUME jar' # None, heard' # "none", IdleTTL > 0
                   PROVE  SessionDeadline(jar'.session)
                             <= Horizon' + IF heard' = "download" THEN Latency ELSE Half
      BY DEF Informed, SessionDeadline, LastActivity, Half
    <3>2. /\ x.set \in SessionData /\ x.set \notin {None, Clear} /\ jar'.session = x.set
      BY <1>2, <2>3, <3>1
    <3>3. CASE use = "download" /\ heard' = "download"
      <4>1. now <= call[c].at + Latency /\ call[c].at + IdleTTL <= Horizon
        BY <1>7, <1>b, <3>1, <3>3 DEF Fits
      <4>2. SessionDeadline(x.set) \in Nat /\ SessionDeadline(x.set) <= LastActivity(x.set) + IdleTTL
        BY <3>1, <3>2, DeadlineParts
      <4>3. SessionDeadline(x.set) <= Horizon' + Latency
        BY <1>4, <1>5, <1>7, <3>2, <4>1, <4>2, ClientNumbers
      <4> QED BY <3>2, <3>3, <4>3
    <3>4. CASE reads /\ e >= 0 /\ heard' = use
      <4>1. PICK r \in SessionData :
               /\ r = x.set /\ SessionDeadline(r) <= now + told + Half
        BY <1>9, <3>2, <3>4
      <4>2. SessionDeadline(x.set) <= Horizon' + Half
        BY <1>1, <1>4, <1>5, <3>4, <4>1, DeadlineParts, ClientNumbers
      <4>3. heard' # "download"
        BY <3>4
      <4> QED BY <3>2, <4>2, <4>3
    <3> QED BY <1>1, <2>3, <3>1, <3>3, <3>4
  <2> QED BY <2>1, <2>2, <2>3
<1>11. ASSUME deadline' = deadline, basis' = basis
       PROVE  Heard' /\ Sourced' /\ Guessed'
  <2>1. jar' = jar \/ jar' = None \/ jar'.gotAt = now'
    BY <1>2
  <2>2. Heard' /\ Sourced'
    BY <1>2, <1>3, <1>4, <1>11, <2>1, HeardKept
  <2>3. Guessed'
    <3>1. CASE jar' = None \/ jar'.gotAt = now'
      BY <1>3, <1>4, <1>11, <3>1, GuessedKept
    <3>2. CASE x.set = None /\ jar' = jar
      <4>1. SUFFICES ASSUME deadline # 0, basis.use = "download", jar # None
                     PROVE  \/ deadline <= jar.gotAt + IdleTTL + RefreshInterval
                            \/ \E d \in Conn : call'[d].use = "download"
                                               /\ deadline <= call'[d].at + IdleTTL
        BY <1>2, <1>11, <3>2 DEF Guessed, ClientInv
      <4>2. IdleTTL > 0 /\ \/ deadline <= jar.gotAt + IdleTTL + RefreshInterval
                           \/ \E d \in Conn : call[d].use = "download"
                                              /\ deadline <= call[d].at + IdleTTL
        BY <4>1 DEF Guessed, ClientInv
      <4>3. ASSUME NEW d \in Conn, call[d].use = "download", deadline <= call[d].at + IdleTTL,
                   d # c
            PROVE  call'[d].use = "download" /\ deadline <= call'[d].at + IdleTTL
        BY <1>1, <4>3
      <4>4. ASSUME deadline <= call[c].at + IdleTTL
            PROVE  deadline <= jar.gotAt + IdleTTL + RefreshInterval
        <5>1. x.cookie # None /\ call[c].at <= LastActivity(x.cookie) + RefreshInterval
          BY <1>2, <1>7, <1>a, <3>2, <4>2 DEF Fits, NotDue
        <5>2. LastActivity(x.cookie) <= jar.gotAt
          BY <1>7, <1>a, <4>1, <5>1 DEF Fits, Carries
        <5>3. jar.gotAt \in Nat /\ LastActivity(x.cookie) \in Nat
          BY <1>7, <4>1, <5>1, Past DEF ClientInv
        <5> QED BY <1>4, <4>4, <5>1, <5>2, <5>3, ClientNumbers
      <4> QED BY <4>2, <4>3, <4>4
    <3> QED BY <1>2, <3>1, <3>2
  <2> QED BY <2>2, <2>3
<1>12. ASSUME reads, e >= 0, deadline' = now + told,
              basis' = Basis(use, x.cookie, now - call[c].at)
       PROVE  Heard' /\ Sourced' /\ Guessed'
  <2>1. PICK r \in SessionData :
           /\ r = IF x.set \in {None, Clear} THEN x.cookie ELSE x.set
           /\ x.cookie # None /\ r.login = x.cookie.login
           /\ r.expiresAt = loginAt[r.login] + AbsoluteTTL
           /\ LastActivity(r) <= now
           /\ call[c].at + told <= SessionDeadline(r) + Half
    BY <1>9, <1>12
  <2>2. /\ basis'.use = use /\ basis'.login = x.cookie.login
        /\ basis'.took = now - call[c].at
    BY <1>12, <2>1 DEF Basis
  <2>3. /\ SessionDeadline(r) \in Nat /\ r.expiresAt \in Nat /\ LastActivity(r) \in Nat
        /\ SessionDeadline(r) <= r.expiresAt
        /\ IdleTTL > 0 => SessionDeadline(r) <= LastActivity(r) + IdleTTL
    BY DeadlineParts
  <2>4. deadline' <= SessionDeadline(r) + basis'.took + Half
    BY <1>4, <1>12, <2>1, <2>2, <2>3, ClientNumbers
  <2>5. basis'.took \in Int
    BY <1>4, <2>2
  <2>6. basis'.login \in 1 .. logins' /\ loginAt'[basis'.login] = loginAt[r.login]
    BY <1>2, <1>7, <2>1, <2>2
  <2>7. deadline' <= loginAt'[basis'.login] + AbsoluteTTL + basis'.took + Half
    BY <1>1, <2>1, <2>3, <2>4, <2>5, <2>6, ClientNumbers
  <2>8. IdleTTL > 0 => deadline' <= now' + IdleTTL + basis'.took + Half
    BY <1>1, <1>2, <1>4, <2>1, <2>3, <2>4, <2>5, ClientNumbers
  <2>9. jar' # None => LastActivity(r) <= jar'.gotAt /\ jar'.gotAt \in Nat
    <3>1. SUFFICES ASSUME jar' # None
                   PROVE  LastActivity(r) <= jar'.gotAt /\ jar'.gotAt \in Nat
      OBVIOUS
    <3>2. CASE x.set = None /\ jar' = jar
      <4>1. r = x.cookie /\ jar # None /\ jar.gotAt \in Nat
        BY <2>1, <3>1, <3>2, Past DEF ClientInv
      <4> QED BY <1>7, <1>a, <2>1, <3>2, <4>1 DEF Fits, Carries
    <3>3. CASE jar'.gotAt = now
      BY <1>4, <2>1, <3>3
    <3> QED BY <1>2, <3>1, <3>2, <3>3
  <2>10. IdleTTL > 0 /\ jar' # None => deadline' <= jar'.gotAt + IdleTTL + basis'.took + Half
    BY <1>1, <2>3, <2>4, <2>5, <2>9, ClientNumbers
  <2>11. Heard'
    BY <2>6, <2>7, <2>8, <2>10 DEF Heard, Half
  <2>12. Sourced' /\ Guessed'
    BY <1>12, <2>2 DEF Sourced, Guessed
  <2> QED BY <2>11, <2>12
<1>13. ClientTypeOK'
  <2>1. deadline' \in 0 .. now' + AbsoluteTTL + Second \div 2
    <3>1. CASE deadline' = deadline
      BY <1>2, <3>1 DEF ClientInv, ClientTypeOK
    <3>2. CASE e >= 0 /\ deadline' = now + told
      <4>1. told <= AbsoluteTTL + Half
        BY <1>9, <3>2
      <4> QED BY <1>1, <1>2, <1>4, <3>2, <4>1, ClientNumbers DEF Half
    <3> QED BY <1>1, <3>1, <3>2
  <2>2. basis' \in [use : Uses \cup {"lost"}, login : Login \cup {0}, took : Nat]
    <3>1. CASE basis' = basis
      BY <3>1 DEF ClientInv, ClientTypeOK
    <3>2. CASE reads /\ basis' = Basis(use, x.cookie, now - call[c].at)
      <4>1. call[c].at <= now /\ now - call[c].at \in Nat
        BY <1>4, <1>7 DEF Fits
      <4>2. use \in Uses
        BY <3>2 DEF Uses
      <4>3. x.cookie # None => x.cookie.login \in Login
        BY <1>7 DEF SessionData
      <4> QED BY <3>2, <4>1, <4>2, <4>3 DEF Basis
    <3> QED BY <1>1, <3>1, <3>2
  <2>3. heard' \in {"none", "fetch", "upload", "download"}
    BY <1>1 DEF ClientInv, ClientTypeOK
  <2> QED BY <1>1, <2>1, <2>2, <2>3 DEF ClientInv, ClientTypeOK
<1> QED BY <1>1, <1>3, <1>6, <1>8, <1>10, <1>11, <1>12, <1>13 DEF ClientInv

\* The frontend is started in no page, with nothing under way.
LEMMA ClientStart ==
    ASSUME ClientInit
    PROVE  ClientInv
<1>1. Init /\ SessionInv
  BY SessionInit DEF ClientInit
<1>2. /\ now = 0 /\ deadline = 0 /\ heard = "none"
      /\ \A c \in Conn : conn[c] = NoExchange /\ call[c] = NoCall
  BY DEF ClientInit, Init
<1>3. /\ NoExchange.phase = "idle" /\ NoExchange.cookie = None /\ NoExchange.expiresIn = -1
      /\ NoCall.use = "none" /\ NoCall.at = 0 /\ NoCall \in Call
  BY DEF NoExchange, NoCall, Call, Uses
<1>4. \A c \in Conn : Fits(c)
  BY <1>2, <1>3 DEF Fits, Carries, NotDue, Tells
<1>5. JarFresh
  BY <1>2 DEF Init, JarFresh, LegacySession, LastActivity, ZeroTime, ClientInit
<1>6. Informed /\ Sourced /\ Heard /\ Guessed
  BY <1>2 DEF Informed, Sourced, Heard, Guessed
<1>7. ClientTypeOK
  <2>1. basis \in [use : Uses \cup {"lost"}, login : Login \cup {0}, took : Nat]
    BY DEF ClientInit, Basis, Uses
  <2>2. call \in [Conn -> Call] /\ page \in [Tab -> Pages]
    BY <1>3 DEF ClientInit, Pages
  <2>3. deadline \in 0 .. now + AbsoluteTTL + Second \div 2 /\ calls \in 0 .. MaxCalls
    BY <1>2, ClientNumbers DEF ClientInit, Half
  <2> QED BY <1>2, <2>1, <2>2, <2>3 DEF ClientTypeOK
<1> QED BY <1>1, <1>4, <1>5, <1>6, <1>7 DEF ClientInv

\* Every step of browser, tabs and gateway keeps the invariant.
LEMMA ClientStep ==
    ASSUME ClientInv, [ClientNext]_allVars
    PROVE  ClientInv'
<1>1. ASSUME NEW t \in Tab, Countdown(t) \/ Close(t)
      PROVE  ClientInv'
  <2>1. /\ UNCHANGED <<vars, deadline, calls, basis, heard>>
        /\ page' = [page EXCEPT ![t] = "away"] /\ call' = Orphaned(t)
    BY <1>1 DEF Countdown, Close
  <2>2. page' \in [Tab -> Pages]
    BY <2>1 DEF ClientInv, ClientTypeOK, Pages
  <2> QED BY <2>1, <2>2, OrphanedFields, ClientPages DEF ClientInv
<1>2. CASE UNCHANGED allVars
  <2>1. UNCHANGED <<vars, deadline, calls, basis, heard>> /\ page' = page /\ call' = call
    BY <1>2 DEF allVars, clientVars
  <2> QED BY <2>1, ClientPages DEF ClientInv, ClientTypeOK
<1> QED BY <1>1, <1>2, ClientPass, ClientServe, ClientReceive, ClientLose, ClientAsks
        DEF ClientNext

-----------------------------------------------------------------------------
(* The theorems *)

\* What is true of gateway, jar and tabs in every state: what is told is right to half
\* a second when it is computed, and the deadline is tied to the login it came from
\* and to when the jar's cookie arrived.
THEOREM ClientInvariant == ClientSpec => []ClientInv
<1>1. ClientInit => ClientInv
  BY ClientStart
<1>2. ClientInv /\ [ClientNext]_allVars => ClientInv'
  BY ClientStep
<1> QED BY <1>1, <1>2, PTL DEF ClientSpec

\* The type of the frontend's state; the deadline of session.ts is never further away
\* than the longest a session lasts.
THEOREM ClientTyped == ClientSpec => []ClientTypeOK
<1>1. ClientInv => ClientTypeOK
  BY DEF ClientInv
<1> QED BY <1>1, ClientInvariant, PTL

\* Whatever the frontend asks and when, rounding costs no cookie as much as half a
\* second: every step of the frontend is one that Session allows.
THEOREM ClientNoEarlyDrop == ClientSpec => []NoEarlyDrop
<1>1. ClientInv => NoEarlyDrop
  BY DEF ClientInv, SessionInv
<1> QED BY <1>1, ClientInvariant, PTL

\* No tab announces a logout that did not happen, however many tabs share the
\* deadline and whichever of their answers come late or not at all (session.ts).
THEOREM ClientNoFalseLogout == ClientSpec => []NoFalseLogout
<1>1. ClientInv => NoFalseLogout
  <2>1. SUFFICES ASSUME ClientInv, NEW t \in Tab, Expired(t), heard # "none", JarSession # None
                 PROVE  SessionDeadline(JarSession) - now
                           <= IF heard = "download" THEN Latency ELSE Second \div 2
    BY DEF NoFalseLogout, ValidateSessionCookie
  <2>2. jar # None /\ JarSession = jar.session
    BY <2>1, JarSessionType DEF ClientInv, SessionInv
  <2>3. now \in Nat /\ deadline \in Nat /\ SessionDeadline(jar.session) \in Nat
    BY <2>1, <2>2, ClientTypes, Sessions, DeadlineParts DEF ClientInv
  <2>4. IdleTTL > 0 /\ Horizon = now
    BY <2>1, <2>3 DEF Expired, Horizon
  <2>5. SessionDeadline(jar.session) <= now + IF heard = "download" THEN Latency ELSE Half
    BY <2>1, <2>2, <2>4 DEF ClientInv, Informed
  <2> QED BY <2>2, <2>3, <2>5, ClientNumbers DEF Half
<1> QED BY <1>1, ClientInvariant, PTL

\* The warning comes before the session ends, but for what a response took, what the
\* throttle leaves unsaid, and what the cookie in the jar lost on its way; and a download
\* that was lost puts it off by no more than one idle window.
THEOREM ClientWarnsInTime == ClientSpec => []WarnsInTime
<1>1. ClientInv => WarnsInTime
  <2>1. SUFFICES ASSUME ClientInv, deadline # 0, JarSession # None,
                        JarSession.login = basis.login
                 PROVE  \/ /\ basis.use \in Read
                           /\ deadline <= SessionDeadline(JarSession) + basis.took + Underway
                                             + Second \div 2
                        \/ /\ basis.use = "download"
                           /\ \/ \E c \in Conn : call[c].use = "download"
                              \/ deadline <= LastActivity(JarSession) + IdleTTL
                                               + RefreshInterval + Underway
                        \/ basis.use = "lost" /\ deadline <= now + IdleTTL
    BY DEF WarnsInTime
  <2>2. jar # None /\ JarSession = jar.session /\ jar.session \in SessionData
    BY <2>1, JarSessionType, Sessions DEF ClientInv, SessionInv
  <2>3. now \in Nat /\ deadline \in Nat /\ basis.took \in Nat /\ jar.gotAt \in Nat
    BY <2>1, <2>2, ClientTypes, Past DEF ClientInv
  <2>4. /\ LastActivity(jar.session) \in Nat /\ SessionDeadline(jar.session) \in Nat
        /\ \/ SessionDeadline(jar.session) = jar.session.expiresAt
           \/ /\ IdleTTL > 0
              /\ SessionDeadline(jar.session) = LastActivity(jar.session) + IdleTTL
    BY <2>2, DeadlineParts
  <2>5. LastActivity(jar.session) <= jar.gotAt
        /\ Underway = jar.gotAt - LastActivity(jar.session)
    BY <2>1, <2>2 DEF ClientInv, JarFresh, Underway
  <2>6. jar.session.expiresAt = loginAt[basis.login] + AbsoluteTTL
    BY <2>1, <2>2 DEF ClientInv, SessionInv, Provenance, Genuine
  <2>7. CASE basis.use \in {"fetch", "upload"}
    <3>1. /\ deadline <= loginAt[basis.login] + AbsoluteTTL + basis.took + Half
          /\ IdleTTL > 0 => deadline <= jar.gotAt + IdleTTL + basis.took + Half
      BY <2>1, <2>2, <2>7 DEF ClientInv, Heard
    <3>2. loginAt[basis.login] + AbsoluteTTL \in Nat
      BY <2>2, <2>6 DEF SessionData
    <3>3. deadline <= SessionDeadline(jar.session) + basis.took + Underway + Half
      BY <2>3, <2>4, <2>5, <2>6, <3>1, <3>2, ClientNumbers
    <3> QED BY <2>2, <2>7, <3>3 DEF Read, Half
  <2>8. CASE basis.use = "download"
    <3>1. \/ deadline <= jar.gotAt + IdleTTL + RefreshInterval
          \/ \E c \in Conn : call[c].use = "download"
      BY <2>1, <2>2, <2>8 DEF ClientInv, Guessed
    <3> QED BY <2>2, <2>3, <2>4, <2>5, <2>8, <3>1, ClientNumbers
  <2>9. CASE basis.use = "lost"
    BY <2>1, <2>9 DEF ClientInv, Guessed
  <2> QED BY <2>1, <2>7, <2>8, <2>9 DEF ClientInv, Sourced
<1> QED BY <1>1, ClientInvariant, PTL

-----------------------------------------------------------------------------
(* The refinement of Session *)

\* Every step of the frontend is one of the browser and the gateway of Session, or is
\* none of their business.
LEMMA ClientStepsAreSession == [ClientNext]_allVars => [Next]_vars
<1> SUFFICES ASSUME [ClientNext]_allVars PROVE [Next]_vars
  OBVIOUS
<1>1. CASE Pass
  BY <1>1 DEF Pass, Next
<1>2. ASSUME NEW t \in Tab, Countdown(t) \/ Close(t) PROVE [Next]_vars
  BY <1>2 DEF Countdown, Close, vars
<1>3. ASSUME NEW c \in Conn, Serve(c) \/ Receive(c) \/ LoseCall(c) PROVE [Next]_vars
  BY <1>3 DEF Serve, Receive, LoseCall, Next
<1>4. ASSUME NEW t \in Tab, NEW c \in Conn,
             \/ Load(t, c) \/ Fetch(t, c) \/ StartDownload(t, c) \/ Upload(t, c)
             \/ SignIn(t, c) \/ SignOut(t, c)
      PROVE  [Next]_vars
  <2>1. \E kind \in Kinds : Send(c, kind)
    BY <1>4 DEF Load, Fetch, StartDownload, Upload, SignIn, SignOut, Kinds
  <2> QED
    BY <2>1 DEF Next
<1>5. CASE UNCHANGED allVars
  BY <1>5 DEF allVars
<1> QED
  BY <1>1, <1>2, <1>3, <1>4, <1>5 DEF ClientNext

\* The gateway under the frontend behaves as the one whose browser does what it likes:
\* with the countdown, the tabs and the latencies put on top, what is proved of Session
\* stays true.
THEOREM ClientImplementsSession == ClientSpec => Spec
<1>1. ClientInit => Init
  BY DEF ClientInit
<1> QED
  BY <1>1, ClientStepsAreSession, PTL DEF ClientSpec, Spec

\* So no timing of the frontend's tabs gets a request admitted that the table of logins
\* would not let in, and what was logged out stays so.
THEOREM ClientKeepsPolicy ==
    ClientSpec => /\ ImplementsLease
                  /\ [][OverStays]_vars
                  /\ []LogoutSticks
                  /\ []NoEarlyDrop
                  /\ []IdleNotEarly
BY ClientImplementsSession, SessionImplementsLease, SessionOverStays, SessionLogoutSticks,
   SessionNoEarlyDrop, SessionIdleNotEarly, PTL

=============================================================================
