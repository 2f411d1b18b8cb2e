----------------------------- MODULE LoginFlow -----------------------------
(***************************************************************************)
(* Signing in through OpenID Connect (internal/auth/oidc.go) and out again *)
(* (LogoutHandler): one browser with several tabs, the identity provider's *)
(* single sign-on session, and the gateway.                                *)
(*                                                                         *)
(* A browser has ONE slot for the cookies of a login in progress.  Every   *)
(* start of a login overwrites it; every callback, whichever tab it comes  *)
(* from, reads it when it is sent and empties it when it is answered.  The *)
(* state, nonce and verifier cookies are written, deleted and expire       *)
(* together, so the number of the login they belong to stands for all      *)
(* three; the cookie with the path to return to has a life of its own.     *)
(***************************************************************************)
EXTENDS Integers

CONSTANTS
    Tab,          \* tabs of the browser
    Claims,       \* what an ID token may say, see KnownClaims
    Path,         \* paths a login may be asked to return to
    IdleTTL,      \* SESSION_IDLE_TTL; 0 turns the timeout off
    AbsoluteTTL,  \* SESSION_ABSOLUTE_TTL
    Leeway,       \* authTimeLeeway
    FlowTTL,      \* flowTTL
    EndSession,   \* does the provider advertise an end_session_endpoint?
    MaxTime,      \* bound: the clock stops here
    MaxFlows,     \* bound: logins started
    None

\* "honours":  asks for the password again when the sign-on is older than
\*             max_age, and attests auth_time, as OIDC Core demands;
\* "attests":  ignores max_age, but attests auth_time;
\* "ignores":  ignores max_age and attests nothing.
ProviderKind == {"honours", "attests", "ignores"}

\* Of the identity, as far as the gateway tells it apart: fit to sign in, or the
\* reason why not.
KnownClaims == {"good", "email_not_verified", "email_missing", "mfa_missing"}

ASSUME LoginConfig ==
    /\ "good" \in Claims /\ Claims \subseteq KnownClaims
    /\ IdleTTL \in Nat /\ AbsoluteTTL \in Nat \ {0} /\ IdleTTL <= AbsoluteTTL
    /\ Leeway \in Nat /\ FlowTTL \in Nat \ {0}
    /\ EndSession \in BOOLEAN /\ MaxFlows \in Nat
    /\ None \notin Path \cup Claims \cup Nat
    /\ None \notin [id : Nat, at : Nat] \cup [path : Path, at : Nat]
                \cup [at : Nat, claims : Claims] \cup [lastSeen : Nat, expiresAt : Nat]

VARIABLES
    provider, \* what the provider makes of max_age: a ProviderKind
    now,      \* the clock
    flows,    \* logins started so far; numbers them
    flow,     \* the state, nonce and pkce cookies: None or [id, at]
    next,     \* the oauth_next cookie: None or [path, at]
    tab,      \* tab -> how far its login has got
    sso,      \* the provider's sign-on session: None or [at, claims]
    session,  \* the last session cookie: None or [lastSeen, expiresAt]; once
              \* it is no longer valid it may as well have left the browser
    seen,     \* history: the activity the last session ended up with
    logoutAt, \* history: when a browser last came to the logged-out page by a logout
              \* that found the session valid
    answered  \* history: logins whose callback's answer reached the browser

vars == <<provider, now, flows, flow, next, tab, sso, session, seen, logoutAt, answered>>

Never == -1

\* A tab: the app, a login, or a logout.  startedAt is when the login or the logout
\* began; of a login, asked is the path it was to return to, hasFlow and hasNext
\* are the cookies its callback carries, authAt and claims come with its code, spent
\* says that the code has been redeemed and the answer to the callback was lost;
\* crossed is history: has another tab touched the cookies since it started?
TabState ==
    [phase : {"app", "atProvider", "callback", "landed", "failed",
              "endSession", "loggedOut"},
     id : 0 .. MaxFlows, startedAt : Nat, asked : Path \cup {None},
     hasFlow : 0 .. MaxFlows, hasNext : Path \cup {None},
     authAt : Int, claims : Claims \cup {None}, before : Int,
     crossed : BOOLEAN, spent : BOOLEAN, to : Path \cup {None}]

Idle == [phase |-> "app", id |-> 0, startedAt |-> 0, asked |-> None,
         hasFlow |-> 0, hasNext |-> None, authAt |-> Never, claims |-> None,
         before |-> Never, crossed |-> FALSE, spent |-> FALSE, to |-> None]

-----------------------------------------------------------------------------
(* LoginHandler *)

\* The tabs once t is as given, having touched the cookies of the browser.
Touched(t, state) ==
    [u \in Tab |-> IF u = t THEN state
                   ELSE [tab[u] EXCEPT !.crossed = @ \/ tab[u].phase \in {"atProvider", "callback"}]]

\* Cookies the browser still sends: a flow cookie lives for FlowTTL.
Live(cookie) == cookie # None /\ now < cookie.at + FlowTTL

\* Mutant: max_age is not asked for.
NoMaxAge == None

\* The max_age of the authorization request; None: not asked for.
MaxAge == IF IdleTTL > 0 THEN IdleTTL ELSE None

\* Mutant: the cookies of a login still in progress are kept.
StartKeepsFlow(t, path) ==
    /\ tab[t].phase # "callback"
    /\ flows < MaxFlows
    /\ flows' = flows + 1
    /\ flow' = IF Live(flow) THEN flow ELSE [id |-> flows + 1, at |-> now]
    /\ next' = IF path = None THEN next ELSE [path |-> path, at |-> now]
    /\ tab' = Touched(t, [Idle EXCEPT !.phase = "atProvider", !.id = flows + 1,
                                       !.startedAt = now, !.asked = path])
    /\ UNCHANGED <<provider, now, sso, session, seen, logoutAt, answered>>

\* Mutant: an oauth_next cookie that is still live is kept.
StartKeepsNext(t, path) ==
    /\ tab[t].phase # "callback"
    /\ flows < MaxFlows
    /\ flows' = flows + 1
    /\ flow' = [id |-> flows + 1, at |-> now]
    /\ next' = IF path = None \/ Live(next) THEN next ELSE [path |-> path, at |-> now]
    /\ tab' = Touched(t, [Idle EXCEPT !.phase = "atProvider", !.id = flows + 1,
                                       !.startedAt = now, !.asked = path])
    /\ UNCHANGED <<provider, now, sso, session, seen, logoutAt, answered>>

\* A login left at the provider is abandoned when its tab starts another one.
\* The next cookie is written only when there is a path to return to, and is
\* otherwise left as an earlier login of the browser left it.
Start(t, path) ==
    /\ tab[t].phase # "callback"
    /\ flows < MaxFlows
    /\ flows' = flows + 1
    /\ flow' = [id |-> flows + 1, at |-> now]
    /\ next' = IF path = None THEN next ELSE [path |-> path, at |-> now]
    /\ tab' = Touched(t, [Idle EXCEPT !.phase = "atProvider", !.id = flows + 1,
                                       !.startedAt = now, !.asked = path])
    /\ UNCHANGED <<provider, now, sso, session, seen, logoutAt, answered>>

-----------------------------------------------------------------------------
(* The identity provider (external) *)

\* May the provider answer the authorization request without asking the user?
SignedOn ==
    /\ sso # None
    /\ MaxAge # None /\ provider = "honours" => now - sso.at <= MaxAge

\* The browser follows the redirect back with the cookies it has by then.
Callback(t, authAt, claims) ==
    tab' = [tab EXCEPT ![t].phase = "callback",
                       ![t].hasFlow = IF Live(flow) THEN flow.id ELSE 0,
                       ![t].hasNext = IF Live(next) THEN next.path ELSE None,
                       ![t].authAt = authAt, ![t].claims = claims]

AuthorizeSilently(t) ==
    /\ tab[t].phase = "atProvider"
    /\ SignedOn
    /\ Callback(t, sso.at, sso.claims)
    /\ UNCHANGED <<provider, now, flows, flow, next, sso, session, seen, logoutAt, answered>>

Authenticate(t, claims) ==
    /\ tab[t].phase = "atProvider"
    /\ ~SignedOn
    /\ sso' = [at |-> now, claims |-> claims]
    /\ Callback(t, now, claims)
    /\ UNCHANGED <<provider, now, flows, flow, next, session, seen, logoutAt, answered>>

\* The user cancels: the callback comes with an error instead of a code.
Cancel(t) ==
    /\ tab[t].phase = "atProvider"
    /\ Callback(t, Never, None)
    /\ UNCHANGED <<provider, now, flows, flow, next, sso, session, seen, logoutAt, answered>>

\* The auth_time claim, 0 when the provider attests none.
AuthTime(t) == IF provider = "ignores" THEN 0 ELSE tab[t].authAt

-----------------------------------------------------------------------------
(* CallbackHandler *)

\* Mutant: auth_time is not checked.
AlwaysFresh(authTime) == TRUE

\* 0 stands for a missing auth_time: the clock starts at 1.
AuthTimeFresh(authTime) == authTime # 0 /\ now - authTime <= IdleTTL + Leeway

\* Why the callback of t is refused, in the order of the checks; "" if it is not.
Refusal(t) ==
    CASE tab[t].hasFlow # tab[t].id -> "state"
      [] tab[t].hasFlow = tab[t].id /\ tab[t].claims = None -> "error"
      [] tab[t].hasFlow = tab[t].id /\ tab[t].claims \notin {None, "good"} ->
           tab[t].claims
      [] tab[t].hasFlow = tab[t].id /\ tab[t].claims = "good"
           /\ IdleTTL > 0 /\ ~AuthTimeFresh(AuthTime(t)) -> "auth_too_old"
      [] OTHER -> ""

\* Mutant: the state cookie outlives the callback.
ClearNextOnly == UNCHANGED flow /\ next' = None

\* Every outcome deletes the flow cookies, whichever login wrote them.
ClearFlowCookies == flow' = None /\ next' = None

\* The token endpoint forgets a code when it is redeemed.
Redeemable(t) == tab[t].phase = "callback" /\ ~tab[t].spent

\* The answer to the callback of t reaches the browser.
Deliver(t, state) ==
    /\ ClearFlowCookies
    /\ answered' = answered \cup {tab[t].id}
    /\ tab' = Touched(t, state)

Failed(t) == [Idle EXCEPT !.phase = "failed", !.id = tab[t].id]

\* Mutant: the session starts without its first activity.
AcceptUnseen(t) ==
    /\ Redeemable(t)
    /\ Refusal(t) = ""
    /\ session' = [lastSeen |-> Never, expiresAt |-> now + AbsoluteTTL]
    /\ seen' = Never
    /\ Deliver(t, [tab[t] EXCEPT !.phase = "landed", !.to = tab[t].hasNext,
                                  !.before = seen, !.claims = None])
    /\ UNCHANGED <<provider, now, flows, sso, logoutAt>>

Accept(t) ==
    /\ Redeemable(t)
    /\ Refusal(t) = ""
    /\ session' = [lastSeen |-> now, expiresAt |-> now + AbsoluteTTL]
    /\ seen' = now
    /\ Deliver(t, [tab[t] EXCEPT !.phase = "landed", !.to = tab[t].hasNext,
                                  !.before = seen, !.claims = None])
    /\ UNCHANGED <<provider, now, flows, sso, logoutAt>>

\* State and error are looked at before the code is redeemed, the rest after.
Refuse(t) ==
    /\ tab[t].phase = "callback"
    /\ Refusal(t) # "" /\ (Redeemable(t) \/ Refusal(t) \in {"state", "error"})
    /\ Deliver(t, Failed(t))
    /\ UNCHANGED <<provider, now, flows, sso, session, seen, logoutAt>>

\* The code exchange or the verification of the ID token fails: always when the
\* code has been redeemed before.
ExchangeFails(t) ==
    /\ tab[t].phase = "callback"
    /\ Refusal(t) \notin {"state", "error"}
    /\ Deliver(t, Failed(t))
    /\ UNCHANGED <<provider, now, flows, sso, session, seen, logoutAt>>

\* The code is redeemed but the connection breaks before the browser has the answer:
\* no cookie changes, and the page is loaded again with those there are now.
AnswerLost(t) ==
    /\ Redeemable(t)
    /\ Refusal(t) \notin {"state", "error"}
    /\ tab' = [tab EXCEPT ![t].spent = TRUE,
                          ![t].hasFlow = IF Live(flow) THEN flow.id ELSE 0,
                          ![t].hasNext = IF Live(next) THEN next.path ELSE None]
    /\ UNCHANGED <<provider, now, flows, flow, next, sso, session, seen, logoutAt, answered>>

\* The user goes back to the page of the provider, which still has the parameters of
\* the login in its address (what the login was about is kept only while it has not
\* been answered: it is history for the properties of its landing).
Back(t) ==
    /\ tab[t].phase \in {"landed", "failed"} \/ tab[t].spent
    /\ tab' = [tab EXCEPT ![t] =
            IF tab[t].spent THEN [@ EXCEPT !.phase = "atProvider", !.spent = FALSE]
            ELSE [Idle EXCEPT !.phase = "atProvider", !.id = tab[t].id]]
    /\ UNCHANGED <<provider, now, flows, flow, next, sso, session, seen, logoutAt, answered>>

-----------------------------------------------------------------------------
(* The session, as far as signing in and out depends on it *)

Valid == /\ session # None
         /\ now <= session.expiresAt
         /\ IdleTTL > 0 => now <= session.lastSeen + IdleTTL

\* An authenticated request; the throttle decides whether it moves lastSeen.
Use ==
    /\ Valid
    /\ \E moved \in BOOLEAN :
          LET at == IF moved /\ IdleTTL > 0 THEN now ELSE session.lastSeen IN
          /\ session' = [session EXCEPT !.lastSeen = at]
          /\ seen' = at
    /\ UNCHANGED <<provider, now, flows, flow, next, tab, sso, logoutAt, answered>>

\* The cookie is deleted, and t is on its way to the page given.
SignOut(t, page) ==
    /\ tab[t].phase \in {"app", "landed"}
    /\ session' = None
    /\ tab' = [tab EXCEPT ![t] = [Idle EXCEPT !.phase = page, !.startedAt = now]]
    /\ logoutAt' = IF page = "loggedOut" /\ Valid THEN now ELSE logoutAt
    /\ UNCHANGED <<provider, now, flows, flow, next, sso, seen, answered>>

\* Mutant: the provider is never told.
LogoutLocally(t) == SignOut(t, "loggedOut")

\* LogoutHandler: the redirect leads to the provider only from a session that is still
\* valid; the provider has not seen it yet.
Logout(t) == SignOut(t, IF EndSession /\ Valid THEN "endSession" ELSE "loggedOut")

\* The provider is asked to end its session, and sends the browser on to the logged-out
\* page (external).
EndSso(t) ==
    /\ tab[t].phase = "endSession"
    /\ sso' = None
    /\ tab' = [tab EXCEPT ![t].phase = "loggedOut"]
    /\ logoutAt' = now
    /\ UNCHANGED <<provider, now, flows, flow, next, session, seen, answered>>

\* The user leaves the logged-out page; or the redirect to the provider got lost, or the
\* user declined there (external).
Leave(t) ==
    /\ tab[t].phase \in {"endSession", "loggedOut"}
    /\ tab' = [tab EXCEPT ![t] = Idle]
    /\ UNCHANGED <<provider, now, flows, flow, next, sso, session, seen, logoutAt, answered>>

Tick ==
    /\ now < MaxTime
    /\ now' = now + 1
    /\ UNCHANGED <<provider, flows, flow, next, tab, sso, session, seen, logoutAt, answered>>

-----------------------------------------------------------------------------

Init ==
    /\ provider \in ProviderKind
    /\ now = 1
    /\ flows = 0
    /\ flow = None /\ next = None
    /\ tab = [t \in Tab |-> Idle]
    /\ sso = None /\ session = None
    /\ seen = Never /\ logoutAt = Never
    /\ answered = {}

Next ==
    \/ Tick \/ Use
    \/ \E t \in Tab :
          \/ \E path \in Path \cup {None} : Start(t, path)
          \/ AuthorizeSilently(t)
          \/ \E claims \in Claims : Authenticate(t, claims)
          \/ Cancel(t)
          \/ Accept(t) \/ Refuse(t) \/ ExchangeFails(t) \/ AnswerLost(t)
          \/ Back(t)
          \/ Logout(t) \/ EndSso(t) \/ Leave(t)

Spec == Init /\ [][Next]_vars

-----------------------------------------------------------------------------
(* Properties *)

\* The type of the state.
TypeOK ==
    /\ provider \in ProviderKind
    /\ now \in Nat /\ flows \in 0 .. MaxFlows
    /\ flow \in [id : 1 .. MaxFlows, at : Nat] \cup {None}
    /\ next \in [path : Path, at : Nat] \cup {None}
    /\ tab \in [Tab -> TabState]
    /\ sso \in [at : Nat, claims : Claims] \cup {None}
    /\ session \in [lastSeen : Nat, expiresAt : Nat] \cup {None}
    /\ {seen, logoutAt} \subseteq Int
    /\ answered \subseteq 1 .. flows

\* docs/architecture.md: the login request carries max_age "so the provider's own
\* session cannot silently reinstate an idled-out recipient".  At a provider that
\* honours it, a login started after the previous session had gone idle ends in a
\* session only if the user authenticated again after that session's last activity.
NoSilentReinstatement ==
    \A t \in Tab : LET login == tab[t] IN
        /\ login.phase = "landed" /\ login.before # Never
        /\ provider = "honours" /\ IdleTTL > 0
        => \/ login.authAt > login.before
           \/ login.startedAt <= login.before + IdleTTL

\* At a provider that ignores max_age, the auth_time check of the callback bounds
\* what single sign-on can reinstate: without having authenticated again, a
\* recipient gets back in only within SESSION_IDLE_TTL and the leeway after the
\* last activity of the previous session.
ReinstatementBounded ==
    \A t \in Tab : LET login == tab[t] IN
        login.phase = "landed" /\ login.before # Never /\ IdleTTL > 0
        => \/ login.authAt > login.before
           \/ login.startedAt <= login.before + IdleTTL + Leeway

\* Whoever has come to the logged-out page by a logout from a valid session is signed
\* off at the provider as well, whatever other tabs did while the browser was on its way
\* there: a login started afterwards ends in a session only if the user authenticated
\* again.  A redirect that is lost or declined ends on no such page and ends nothing.
LogoutEndsSSO ==
    \A t \in Tab : tab[t].phase = "landed" =>
        \/ tab[t].authAt >= logoutAt
        \/ tab[t].startedAt <= logoutAt

\* Nothing that earlier logins left behind (abandoned, cancelled, failed or expired
\* ones) makes a later one fail: a callback is refused for its state only after its
\* own cookies expired, when another tab started or finished a login meanwhile, or when
\* this very login was answered before and the user went back to the provider.
NoSpuriousRefusal ==
    \A t \in Tab : tab[t].phase = "callback" /\ Refusal(t) = "state" =>
        now >= tab[t].startedAt + FlowTTL \/ tab[t].crossed \/ tab[t].id \in answered

\* A login is good for one session: once the browser has the answer to its callback,
\* neither going back to the provider and signing in there once more nor any other
\* tab's login makes the gateway accept it again.
SingleUse ==
    \A t \in Tab : tab[t].phase = "callback" /\ Refusal(t) = "" => tab[t].id \notin answered

\* A login that asked for a path returns to that path and to no other (a login that
\* asked for none may follow the cookie an abandoned one left).
ReturnsWhereAsked ==
    \A t \in Tab : tab[t].phase = "landed" /\ tab[t].asked # None =>
        tab[t].to = tab[t].asked \/ tab[t].crossed
=============================================================================
