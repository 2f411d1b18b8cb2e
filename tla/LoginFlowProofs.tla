-------------------------- MODULE LoginFlowProofs --------------------------
(***************************************************************************)
(* TLAPS proofs about LoginFlow, for any number of tabs, paths and logins  *)
(* and all lifetimes.                                                      *)
(***************************************************************************)
EXTENDS LoginFlow, TLAPS

\* The cookies of a login that no other tab has touched and nothing has answered are
\* still the ones its start wrote.
Kept(r) ==
    r.phase \in {"atProvider", "callback"} /\ ~r.crossed /\ r.id \notin answered =>
        /\ flow = [id |-> r.id, at |-> r.startedAt]
        /\ r.asked # None => next = [path |-> r.asked, at |-> r.startedAt]

\* What a callback carries: its own cookies, unless something happened to them, and
\* then its login has not been answered.
Carried(r) ==
    r.phase = "callback" =>
        /\ r.hasFlow # r.id =>
              now >= r.startedAt + FlowTTL \/ r.crossed \/ r.id \in answered
        /\ r.hasFlow = r.id =>
              /\ r.id \notin answered
              /\ r.asked # None => r.hasNext = r.asked \/ r.crossed

\* How old the authentication behind a callback may be.
Vouched(r) ==
    r.phase = "callback" /\ r.claims # None =>
        /\ provider = "honours" /\ IdleTTL > 0 => r.startedAt <= r.authAt + IdleTTL
        /\ EndSession => r.authAt >= logoutAt \/ r.startedAt <= logoutAt

\* What is asked of a login that led to a session.
Landed(r) ==
    r.phase = "landed" =>
        /\ r.before # Never /\ provider = "honours" /\ IdleTTL > 0 =>
              r.authAt > r.before \/ r.startedAt <= r.before + IdleTTL
        /\ r.before # Never /\ IdleTTL > 0 =>
              r.authAt > r.before \/ r.startedAt <= r.before + IdleTTL + Leeway
        /\ EndSession => r.authAt >= logoutAt \/ r.startedAt <= logoutAt
        /\ r.asked # None => r.to = r.asked \/ r.crossed

\* Is a tab on a login, and not on its way out?
OnLogin(r) == r.phase \notin {"app", "endSession", "loggedOut"}

\* Where a tab is, and of which login.
Placed(r) ==
    /\ r.startedAt <= now
    /\ OnLogin(r) => r.id \in 1 .. flows
    /\ r.phase \in {"landed", "failed"} => r.id \in answered
    /\ r.spent => r.phase = "callback"

Sound(r) == Placed(r) /\ Kept(r) /\ Carried(r) /\ Vouched(r) /\ Landed(r)

\* No two tabs are on the same login.
Distinct ==
    \A t, u \in Tab :
        OnLogin(tab[t]) /\ OnLogin(tab[u]) /\ tab[t].id = tab[u].id => t = u

\* The cookies in the browser are those of a login not answered yet, and the sign-on
\* at the provider is younger than the last logout that it was told of.
Current ==
    /\ flow # None => flow.id \in 1 .. flows /\ flow.id \notin answered
    /\ EndSession /\ sso # None => sso.at >= logoutAt
    /\ sso # None => sso.at <= now
    /\ logoutAt <= now

FlowInv == TypeOK /\ Distinct /\ Current /\ \A t \in Tab : Sound(tab[t])

\* Has a tab in state s got as far as in state r, but for what others did to its cookies?
SameLogin(r, s) ==
    /\ r.phase = s.phase /\ r.id = s.id /\ r.startedAt = s.startedAt
    /\ r.asked = s.asked /\ r.hasFlow = s.hasFlow /\ r.hasNext = s.hasNext
    /\ r.authAt = s.authAt /\ r.claims = s.claims /\ r.before = s.before
    /\ r.spent = s.spent /\ r.to = s.to
    /\ s.crossed => r.crossed

\* A tab that is left as it was, except that another one may have touched the cookies
\* it counts on, stays sound while time passes and other logins are answered.
LEMMA FlowOthers ==
    ASSUME FlowInv, NEW t \in Tab, TypeOK',
           SameLogin(tab[t]', tab[t]),
           now <= now', flows <= flows',
           answered \subseteq answered', OnLogin(tab[t]) => tab[t].id \notin answered' \ answered,
           logoutAt' = logoutAt \/ logoutAt' = now, provider' = provider,
           \/ UNCHANGED <<flow, next>>
           \/ tab[t].phase \in {"atProvider", "callback"} => tab'[t].crossed
    PROVE  Sound(tab[t])'
<1> USE LoginConfig
<1>1. /\ tab[t] \in TabState /\ tab'[t] \in TabState
      /\ now \in Nat /\ now' \in Nat /\ flows \in Nat /\ flows' \in Nat
      /\ logoutAt \in Int /\ logoutAt' \in Int
  BY DEF FlowInv, TypeOK
<1>2. /\ tab'[t].phase = tab[t].phase /\ tab'[t].id = tab[t].id
      /\ tab'[t].startedAt = tab[t].startedAt /\ tab'[t].asked = tab[t].asked
      /\ tab'[t].hasFlow = tab[t].hasFlow /\ tab'[t].hasNext = tab[t].hasNext
      /\ tab'[t].authAt = tab[t].authAt /\ tab'[t].claims = tab[t].claims
      /\ tab'[t].before = tab[t].before /\ tab'[t].spent = tab[t].spent
      /\ tab'[t].to = tab[t].to
      /\ tab[t].crossed => tab'[t].crossed
  BY DEF SameLogin
<1>3. Sound(tab[t]) /\ tab[t].startedAt <= now /\ logoutAt <= now
  BY DEF FlowInv, Sound, Placed, Current, OnLogin
<1>4. /\ tab[t].startedAt \in Nat /\ tab[t].authAt \in Int /\ tab[t].before \in Int
      /\ tab[t].id \in Nat
  BY <1>1 DEF TabState
<1>5. Placed(tab[t])'
  BY <1>1, <1>2, <1>3, <1>4 DEF Placed, Sound, OnLogin
<1>6. Kept(tab[t])'
  BY <1>2, <1>3 DEF Kept, Sound
<1>7. Carried(tab[t])'
  BY <1>1, <1>2, <1>3, <1>4 DEF Carried, Sound, OnLogin
<1>8. Vouched(tab[t])'
  BY <1>1, <1>2, <1>3, <1>4 DEF Vouched, Sound
<1>9. Landed(tab[t])'
  BY <1>1, <1>2, <1>3, <1>4 DEF Landed, Sound
<1> QED
  BY <1>5, <1>6, <1>7, <1>8, <1>9 DEF Sound

\* A step of one tab keeps the invariant if that tab is sound after it: the others are
\* at most crossed, and the tab is still on its login or on a new one.
LEMMA FlowOneTab ==
    ASSUME FlowInv, NEW t \in Tab, TypeOK', Current', Sound(tab[t])',
           \A u \in Tab \ {t} :
              /\ SameLogin(tab'[u], tab[u])
              /\ \/ UNCHANGED <<flow, next>>
                 \/ tab[u].phase \in {"atProvider", "callback"} => tab'[u].crossed,
           UNCHANGED <<now, provider>>, logoutAt' = logoutAt \/ logoutAt' = now,
           flows <= flows',
           \/ answered' = answered
           \/ OnLogin(tab[t]) /\ answered' = answered \cup {tab[t].id},
           \/ OnLogin(tab[t]) /\ tab'[t].id = tab[t].id
           \/ tab'[t].id = flows + 1
           \/ ~OnLogin(tab'[t])
    PROVE  FlowInv'
<1>1. \A u \in Tab : u # t /\ OnLogin(tab[t]) /\ OnLogin(tab[u])
                        => tab[u].id # tab[t].id
  BY DEF FlowInv, Distinct
<1>2. \A u \in Tab : OnLogin(tab[u]) => tab[u].id \in 1 .. flows
  BY DEF FlowInv, Sound, Placed, OnLogin
<1>3. now <= now' /\ flows \in Nat
  BY DEF FlowInv, TypeOK
<1>4. ASSUME NEW u \in Tab, u # t PROVE Sound(tab[u])'
  <2>1. OnLogin(tab[u]) => tab[u].id \notin answered' \ answered
    BY <1>1, <1>4
  <2> QED
    BY <1>3, <1>4, <2>1, FlowOthers
<1>5. Distinct'
  <2> SUFFICES ASSUME NEW u \in Tab, NEW w \in Tab, OnLogin(tab'[u]),
                      OnLogin(tab'[w]), tab'[u].id = tab'[w].id
               PROVE  u = w
    BY DEF Distinct, OnLogin
  <2>1. \A x \in Tab \ {t} : (OnLogin(tab'[x]) <=> OnLogin(tab[x]))
                               /\ tab'[x].id = tab[x].id
    BY DEF SameLogin, OnLogin
  <2>2. CASE u # t /\ w # t
    BY <2>1, <2>2 DEF FlowInv, Distinct
  <2>3. CASE u = t /\ w # t
    BY <2>1, <2>3, <1>1, <1>2, <1>3
  <2>4. CASE u # t /\ w = t
    BY <2>1, <2>4, <1>1, <1>2, <1>3
  <2> QED
    BY <2>2, <2>3, <2>4
<1> QED
  BY <1>4, <1>5 DEF FlowInv

\* A step that leaves the tabs and their cookies alone keeps their part of it.
LEMMA FlowNoTab ==
    ASSUME FlowInv, TypeOK', Current', now <= now',
           UNCHANGED <<provider, flows, flow, next, tab, answered>>,
           logoutAt' = logoutAt \/ logoutAt' = now
    PROVE  FlowInv'
<1>1. flows <= flows'
  BY DEF FlowInv, TypeOK
<1>2. \A t \in Tab : SameLogin(tab'[t], tab[t])
  BY DEF SameLogin
<1>3. ASSUME NEW t \in Tab PROVE Sound(tab[t])'
  BY <1>1, <1>2, FlowOthers
<1>4. Distinct'
  BY DEF FlowInv, Distinct, OnLogin
<1> QED
  BY <1>3, <1>4 DEF FlowInv

\* A callback that is sent with the cookies of this moment carries what it should.
LEMMA FlowReread ==
    ASSUME FlowInv, NEW t \in Tab, tab[t].phase \in {"atProvider", "callback"},
           tab'[t].id = tab[t].id, tab'[t].startedAt = tab[t].startedAt,
           tab'[t].asked = tab[t].asked, tab'[t].crossed = tab[t].crossed,
           tab'[t].hasFlow = IF Live(flow) THEN flow.id ELSE 0,
           tab'[t].hasNext = IF Live(next) THEN next.path ELSE None,
           UNCHANGED <<now, answered>>
    PROVE  Carried(tab[t])'
<1> USE LoginConfig
<1> DEFINE hasFlow == IF Live(flow) THEN flow.id ELSE 0
           hasNext == IF Live(next) THEN next.path ELSE None
<1>1. /\ TypeOK /\ Current /\ Sound(tab[t]) /\ tab[t] \in TabState /\ now \in Nat
  BY DEF FlowInv, TypeOK
<1>2. tab'[t].hasFlow = hasFlow /\ tab'[t].hasNext = hasNext
  OBVIOUS
<1> HIDE DEF hasFlow, hasNext
<1>3. /\ tab[t].startedAt \in Nat /\ tab[t].startedAt <= now
      /\ tab[t].id \in 1 .. flows
  BY <1>1 DEF Sound, Placed, TabState, OnLogin
<1>4. hasFlow = tab[t].id => tab[t].id \notin answered
  BY <1>1, <1>3 DEF hasFlow, Live, Current
<1>5. CASE tab[t].id \in answered
  BY <1>2, <1>4, <1>5 DEF Carried
<1>6. CASE tab[t].crossed
  BY <1>2, <1>4, <1>6 DEF Carried
<1>7. CASE tab[t].id \notin answered /\ ~tab[t].crossed
  <2>1. /\ flow = [id |-> tab[t].id, at |-> tab[t].startedAt]
        /\ tab[t].asked # None => next = [path |-> tab[t].asked, at |-> tab[t].startedAt]
    BY <1>1, <1>7 DEF Sound, Kept
  <2>2. flow # None /\ flow.id = tab[t].id /\ flow.at = tab[t].startedAt
    BY <1>1, <1>3, <2>1 DEF TypeOK
  <2>3. tab[t].asked # None => next # None /\ next.path = tab[t].asked
                                           /\ next.at = tab[t].startedAt
    BY <1>1, <1>3, <2>1 DEF TabState
  <2>4. CASE now < tab[t].startedAt + FlowTTL
    <3>1. hasFlow = tab[t].id /\ (tab[t].asked # None => hasNext = tab[t].asked)
      BY <2>2, <2>3, <2>4 DEF hasFlow, hasNext, Live
    <3> QED
      BY <1>2, <1>7, <3>1 DEF Carried
  <2>5. CASE now >= tab[t].startedAt + FlowTTL
    <3>1. hasFlow # tab[t].id
      BY <1>1, <1>3, <2>2, <2>5 DEF hasFlow, Live
    <3> QED
      BY <1>2, <2>5, <3>1 DEF Carried
  <2> QED
    BY <1>1, <1>3, <2>4, <2>5
<1> QED
  BY <1>5, <1>6, <1>7

\* The redirect back from the provider, with or without a code.
LEMMA FlowCallback ==
    ASSUME FlowInv, NEW t \in Tab, NEW authAt \in Int, NEW claims \in Claims \cup {None},
           tab[t].phase = "atProvider", Callback(t, authAt, claims),
           UNCHANGED <<provider, now, flows, flow, next, session, seen, logoutAt, answered>>,
           sso' \in [at : Nat, claims : Claims] \cup {None},
           EndSession /\ sso' # None => sso'.at >= logoutAt,
           sso' # None => sso'.at <= now,
           claims # None =>
              /\ EndSession => authAt >= logoutAt
              /\ provider = "honours" /\ IdleTTL > 0 => now - authAt <= IdleTTL
    PROVE  FlowInv'
<1> USE LoginConfig
<1>1. /\ TypeOK /\ Current /\ Sound(tab[t]) /\ tab[t] \in TabState
      /\ now \in Nat /\ logoutAt \in Int
  BY DEF FlowInv, TypeOK
<1> DEFINE hasFlow == IF Live(flow) THEN flow.id ELSE 0
           hasNext == IF Live(next) THEN next.path ELSE None
<1>2. hasFlow \in 0 .. MaxFlows /\ hasNext \in Path \cup {None}
  BY <1>1 DEF TypeOK, Live
<1>3. tab' = [tab EXCEPT ![t] = [tab[t] EXCEPT !.phase = "callback", !.hasFlow = hasFlow,
                   !.hasNext = hasNext, !.authAt = authAt, !.claims = claims]]
  BY <1>1 DEF Callback, TypeOK
<1> HIDE DEF hasFlow, hasNext
<1>4. tab[t] \in TabState /\ tab'[t] \in TabState
  BY <1>1, <1>2, <1>3 DEF TypeOK, TabState
<1>5. /\ tab'[t].phase = "callback" /\ tab'[t].id = tab[t].id
      /\ tab'[t].startedAt = tab[t].startedAt /\ tab'[t].asked = tab[t].asked
      /\ tab'[t].hasFlow = hasFlow /\ tab'[t].hasNext = hasNext
      /\ tab'[t].authAt = authAt /\ tab'[t].claims = claims
      /\ tab'[t].spent = tab[t].spent /\ tab'[t].crossed = tab[t].crossed
  BY <1>1, <1>3, <1>4 DEF TypeOK, TabState
<1>6. \A u \in Tab \ {t} : tab'[u] = tab[u]
  BY <1>1, <1>3 DEF TypeOK
<1>7. tab' \in [Tab -> TabState]
  BY <1>1, <1>3, <1>4 DEF TypeOK
<1>8. TypeOK'
  BY <1>1, <1>7 DEF TypeOK
<1>9. Current'
  BY <1>1 DEF Current
<1>10. /\ tab[t].startedAt \in Nat /\ tab[t].startedAt <= now
       /\ tab[t].id \in 1 .. flows
  BY <1>1, <1>4 DEF Sound, Placed, TabState, OnLogin
<1>11. Placed(tab[t])'
  BY <1>1, <1>5 DEF Sound, Placed, OnLogin
<1>12. Kept(tab[t])'
  BY <1>1, <1>5 DEF Sound, Kept
<1>13. Carried(tab[t])'
  BY <1>1, <1>5, FlowReread DEF hasFlow, hasNext
<1>14. Vouched(tab[t])'
  BY <1>1, <1>5, <1>10 DEF Vouched
<1>15. Landed(tab[t])'
  BY <1>5 DEF Landed
<1>16. Sound(tab[t])'
  BY <1>11, <1>12, <1>13, <1>14, <1>15 DEF Sound
<1>17. \A u \in Tab \ {t} : SameLogin(tab'[u], tab[u])
  BY <1>6 DEF SameLogin
<1>18. flows <= flows'
  BY <1>1 DEF TypeOK
<1> QED
  BY <1>5, <1>8, <1>9, <1>16, <1>17, <1>18, FlowOneTab DEF OnLogin

\* Whatever the provider answers, the invariant holds.
LEMMA FlowProvider ==
    ASSUME FlowInv, NEW t \in Tab,
           \/ AuthorizeSilently(t)
           \/ \E claims \in Claims : Authenticate(t, claims)
           \/ Cancel(t)
    PROVE  FlowInv'
<1> USE LoginConfig
<1>1. /\ sso \in [at : Nat, claims : Claims] \cup {None} /\ now \in Nat
      /\ logoutAt \in Int /\ logoutAt <= now /\ None \notin Claims
      /\ EndSession /\ sso # None => sso.at >= logoutAt
      /\ sso # None => sso.at <= now
  BY DEF FlowInv, TypeOK, Current
<1>2. CASE AuthorizeSilently(t)
  <2>1. /\ tab[t].phase = "atProvider" /\ SignedOn /\ Callback(t, sso.at, sso.claims)
        /\ UNCHANGED <<provider, now, flows, flow, next, sso, session, seen, logoutAt, answered>>
    BY <1>2 DEF AuthorizeSilently
  <2>2. sso # None /\ sso.at \in Nat /\ sso.claims \in Claims
    BY <1>1, <2>1 DEF SignedOn
  <2>3. provider = "honours" /\ IdleTTL > 0 => now - sso.at <= IdleTTL
    BY <2>1 DEF SignedOn, MaxAge
  <2> QED
    BY <1>1, <2>1, <2>2, <2>3, FlowCallback
<1>3. ASSUME NEW claims \in Claims, Authenticate(t, claims) PROVE FlowInv'
  <2>1. /\ tab[t].phase = "atProvider" /\ Callback(t, now, claims)
        /\ sso' = [at |-> now, claims |-> claims]
        /\ UNCHANGED <<provider, now, flows, flow, next, session, seen, logoutAt, answered>>
    BY <1>3 DEF Authenticate
  <2>2. sso'.at = now /\ sso' \in [at : Nat, claims : Claims]
    BY <1>1, <2>1
  <2>3. now >= logoutAt /\ now - now <= IdleTTL /\ sso'.at <= now
    BY <1>1, <2>2
  <2> QED
    BY <1>1, <2>1, <2>2, <2>3, FlowCallback
<1>4. CASE Cancel(t)
  <2>1. /\ tab[t].phase = "atProvider" /\ Callback(t, Never, None)
        /\ UNCHANGED <<provider, now, flows, flow, next, sso, session, seen, logoutAt, answered>>
    BY <1>4 DEF Cancel
  <2>2. Never \in Int
    BY DEF Never
  <2> QED
    BY <1>1, <2>1, <2>2, FlowCallback
<1> QED
  BY <1>2, <1>3, <1>4

\* A tab that has touched the cookies of the browser: it is as given, and the logins of
\* the others are where they were, crossed if they counted on the cookies.
LEMMA FlowTouched ==
    ASSUME TypeOK, NEW t \in Tab, NEW r \in TabState, tab' = Touched(t, r)
    PROVE  /\ tab' \in [Tab -> TabState] /\ tab'[t] = r
           /\ \A u \in Tab \ {t} :
                 /\ SameLogin(tab'[u], tab[u])
                 /\ tab[u].phase \in {"atProvider", "callback"} => tab'[u].crossed
<1>1. tab'[t] = r
  BY DEF Touched
<1>2. ASSUME NEW u \in Tab, u # t
      PROVE  /\ tab'[u] \in TabState /\ SameLogin(tab'[u], tab[u])
             /\ tab[u].phase \in {"atProvider", "callback"} => tab'[u].crossed
  <2> DEFINE crossed == tab[u].crossed \/ tab[u].phase \in {"atProvider", "callback"}
  <2>1. tab[u] \in TabState
    BY DEF TypeOK
  <2>2. tab'[u] = [tab[u] EXCEPT !.crossed = crossed]
    BY <1>2 DEF Touched
  <2>3. crossed \in BOOLEAN
    BY <2>1 DEF TabState
  <2>4. /\ tab[u].crossed => crossed
        /\ tab[u].phase \in {"atProvider", "callback"} => crossed
    OBVIOUS
  <2> HIDE DEF crossed
  <2>5. tab'[u] \in TabState /\ tab'[u].crossed = crossed
    BY <2>1, <2>2, <2>3 DEF TabState
  <2>6. /\ tab'[u].phase = tab[u].phase /\ tab'[u].id = tab[u].id
        /\ tab'[u].startedAt = tab[u].startedAt /\ tab'[u].asked = tab[u].asked
        /\ tab'[u].hasFlow = tab[u].hasFlow /\ tab'[u].hasNext = tab[u].hasNext
        /\ tab'[u].authAt = tab[u].authAt /\ tab'[u].claims = tab[u].claims
        /\ tab'[u].before = tab[u].before /\ tab'[u].spent = tab[u].spent
        /\ tab'[u].to = tab[u].to
    BY <2>1, <2>2 DEF TabState
  <2> QED
    BY <2>4, <2>5, <2>6 DEF SameLogin
<1>3. tab' = [u \in Tab |-> tab'[u]]
  BY DEF Touched
<1>4. \A u \in Tab : tab'[u] \in TabState
  BY <1>1, <1>2
<1> QED
  BY <1>1, <1>2, <1>3, <1>4

\* A tab without a login.
LEMMA FlowIdle ==
    /\ Idle \in TabState /\ Idle.phase = "app" /\ Idle.claims = None /\ Idle.spent = FALSE
    /\ Idle.asked = None /\ Idle.startedAt = 0 /\ Idle.id = 0
<1>1. Never \in Int /\ 0 \in 0 .. MaxFlows
  BY LoginConfig DEF Never
<1>2. Idle \in TabState
  BY <1>1 DEF Idle, TabState
<1> QED
  BY <1>2 DEF Idle

\* A login is started.
LEMMA FlowStart ==
    ASSUME FlowInv, NEW t \in Tab, NEW path \in Path \cup {None}, Start(t, path)
    PROVE  FlowInv'
<1> USE LoginConfig
<1> DEFINE r == [Idle EXCEPT !.phase = "atProvider", !.id = flows + 1,
                             !.startedAt = now, !.asked = path]
<1>1. /\ TypeOK /\ Current /\ now \in Nat /\ flows \in Nat /\ logoutAt \in Int
      /\ answered \subseteq 1 .. flows
  BY DEF FlowInv, TypeOK
<1>2. /\ tab[t].phase # "callback" /\ flows < MaxFlows /\ flows' = flows + 1
      /\ flow' = [id |-> flows + 1, at |-> now]
      /\ next' = IF path = None THEN next ELSE [path |-> path, at |-> now]
      /\ tab' = Touched(t, r)
      /\ UNCHANGED <<provider, now, sso, session, seen, logoutAt, answered>>
  BY DEF Start
<1>3. /\ r \in TabState
      /\ r.phase = "atProvider" /\ r.id = flows + 1 /\ r.startedAt = now /\ r.asked = path
      /\ r.claims = None /\ r.spent = FALSE
  <2>1. flows + 1 \in 0 .. MaxFlows
    BY <1>1, <1>2
  <2>2. r \in TabState
    BY <1>1, <2>1, FlowIdle DEF TabState
  <2> QED
    BY <2>2, FlowIdle DEF TabState
<1> HIDE DEF r
<1>4. /\ tab' \in [Tab -> TabState] /\ tab'[t] = r
      /\ \A u \in Tab \ {t} :
            /\ SameLogin(tab'[u], tab[u])
            /\ tab[u].phase \in {"atProvider", "callback"} => tab'[u].crossed
  BY <1>1, <1>2, <1>3, FlowTouched
<1>5. next' \in [path : Path, at : Nat] \cup {None}
  BY <1>1, <1>2 DEF TypeOK
<1>6. TypeOK'
  BY <1>1, <1>2, <1>4, <1>5 DEF TypeOK
<1>7. Current'
  BY <1>1, <1>2 DEF Current
<1>8. tab'[t].id \notin answered
  BY <1>1, <1>3, <1>4
<1>9. Sound(tab[t])'
  BY <1>1, <1>2, <1>3, <1>4, <1>8 DEF Sound, Placed, Kept, Carried, Vouched, Landed, OnLogin
<1> QED
  BY <1>1, <1>2, <1>3, <1>4, <1>6, <1>7, <1>9, FlowOneTab

\* The answer to a callback reaches the browser, and the tab is done with its login.
LEMMA FlowDelivered ==
    ASSUME FlowInv, NEW t \in Tab, NEW r \in TabState, tab[t].phase = "callback",
           Deliver(t, r), UNCHANGED <<provider, now, flows, sso, logoutAt>>,
           r.id = tab[t].id, r.phase \in {"landed", "failed"}, r.startedAt <= now,
           ~r.spent, Landed(r), {seen'} \subseteq Int,
           session' \in [lastSeen : Nat, expiresAt : Nat] \cup {None}
    PROVE  FlowInv'
<1> USE LoginConfig
<1>1. /\ TypeOK /\ Current /\ now \in Nat /\ flows \in Nat
      /\ answered \subseteq 1 .. flows /\ tab[t].id \in 1 .. flows
  BY DEF FlowInv, TypeOK, Sound, Placed, OnLogin
<1>2. /\ flow' = None /\ next' = None /\ answered' = answered \cup {tab[t].id}
      /\ tab' = Touched(t, r)
  BY DEF Deliver, ClearFlowCookies
<1>3. /\ tab' \in [Tab -> TabState] /\ tab'[t] = r
      /\ \A u \in Tab \ {t} :
            /\ SameLogin(tab'[u], tab[u])
            /\ tab[u].phase \in {"atProvider", "callback"} => tab'[u].crossed
  BY <1>1, <1>2, FlowTouched
<1>4. TypeOK'
  BY <1>1, <1>2, <1>3 DEF TypeOK
<1>5. Current'
  BY <1>1, <1>2 DEF Current
<1>6. Placed(tab[t])'
  BY <1>1, <1>2, <1>3 DEF Placed, OnLogin
<1>7. Kept(tab[t])' /\ Carried(tab[t])' /\ Vouched(tab[t])'
  BY <1>2, <1>3 DEF Kept, Carried, Vouched
<1>8. Landed(tab[t])'
  BY <1>3 DEF Landed
<1>9. Sound(tab[t])'
  BY <1>6, <1>7, <1>8 DEF Sound
<1> QED
  BY <1>1, <1>2, <1>3, <1>4, <1>5, <1>9, FlowOneTab DEF OnLogin

\* A callback that is not refused carries its own cookies and an authentication by the
\* right identity that is not too old.
LEMMA FlowPassed ==
    ASSUME FlowInv, NEW t \in Tab, Refusal(t) = ""
    PROVE  /\ tab[t].hasFlow = tab[t].id /\ tab[t].claims = "good"
           /\ IdleTTL > 0 => now - tab[t].authAt <= IdleTTL + Leeway
<1> USE LoginConfig
<1>1. tab[t].claims \in Claims \cup {None}
  BY DEF FlowInv, TypeOK, TabState
<1>2. tab[t].hasFlow = tab[t].id
  BY DEF Refusal
<1>3. tab[t].claims # None
  BY <1>2 DEF Refusal
<1>4. tab[t].claims = "good"
  <2> SUFFICES ASSUME tab[t].claims # "good" PROVE FALSE
    OBVIOUS
  <2>1. Refusal(t) = tab[t].claims
    BY <1>2, <1>3 DEF Refusal
  <2> QED
    BY <1>1, <1>3, <2>1 DEF KnownClaims
<1>5. ASSUME IdleTTL > 0 PROVE now - tab[t].authAt <= IdleTTL + Leeway
  <2>1. AuthTimeFresh(AuthTime(t))
    BY <1>2, <1>4, <1>5 DEF Refusal
  <2>2. AuthTime(t) # 0 /\ now - AuthTime(t) <= IdleTTL + Leeway
    BY <2>1 DEF AuthTimeFresh
  <2>3. AuthTime(t) = tab[t].authAt
    BY <2>2 DEF AuthTime
  <2> QED
    BY <2>2, <2>3
<1> QED
  BY <1>2, <1>4, <1>5

\* A session begins.
LEMMA FlowAccept ==
    ASSUME FlowInv, NEW t \in Tab, Accept(t)
    PROVE  FlowInv'
<1> USE LoginConfig
<1> DEFINE r == [tab[t] EXCEPT !.phase = "landed", !.to = tab[t].hasNext, !.before = seen,
                               !.claims = None]
<1>1. /\ TypeOK /\ Sound(tab[t]) /\ tab[t] \in TabState /\ now \in Nat /\ seen \in Int
      /\ logoutAt \in Int
  BY DEF FlowInv, TypeOK
<1>2. /\ tab[t].phase = "callback" /\ ~tab[t].spent /\ Refusal(t) = ""
      /\ session' = [lastSeen |-> now, expiresAt |-> now + AbsoluteTTL] /\ seen' = now
      /\ Deliver(t, r) /\ UNCHANGED <<provider, now, flows, sso, logoutAt>>
  BY DEF Accept, Redeemable
<1>3. r \in TabState
  BY <1>1 DEF TabState
<1>4. /\ r.phase = "landed" /\ r.to = tab[t].hasNext /\ r.before = seen
      /\ r.id = tab[t].id /\ r.startedAt = tab[t].startedAt /\ r.asked = tab[t].asked
      /\ r.authAt = tab[t].authAt /\ r.spent = tab[t].spent /\ r.crossed = tab[t].crossed
  BY <1>1 DEF TabState
<1> HIDE DEF r
<1>5. /\ tab[t].hasFlow = tab[t].id /\ tab[t].claims = "good"
      /\ IdleTTL > 0 => now - tab[t].authAt <= IdleTTL + Leeway
  BY <1>2, FlowPassed
<1>6. tab[t].startedAt <= now /\ tab[t].startedAt \in Nat /\ tab[t].authAt \in Int
  BY <1>1 DEF Sound, Placed, TabState, OnLogin
<1>7. /\ provider = "honours" /\ IdleTTL > 0 => tab[t].startedAt <= tab[t].authAt + IdleTTL
      /\ EndSession => tab[t].authAt >= logoutAt \/ tab[t].startedAt <= logoutAt
  BY <1>1, <1>2, <1>5 DEF Sound, Vouched
<1>8. tab[t].asked # None => tab[t].hasNext = tab[t].asked \/ tab[t].crossed
  BY <1>1, <1>2, <1>5 DEF Sound, Carried
<1>9. Landed(r)
  BY <1>1, <1>4, <1>5, <1>6, <1>7, <1>8 DEF Landed
<1>10. session' \in [lastSeen : Nat, expiresAt : Nat] /\ {seen'} \subseteq Int
  <2>1. now + AbsoluteTTL \in Nat /\ now \in Int
    BY <1>1
  <2> QED
    BY <1>1, <1>2, <2>1
<1> QED
  BY <1>1, <1>2, <1>3, <1>4, <1>6, <1>9, <1>10, FlowDelivered

\* A login fails.
LEMMA FlowFailed ==
    ASSUME FlowInv, NEW t \in Tab, Refuse(t) \/ ExchangeFails(t)
    PROVE  FlowInv'
<1> USE LoginConfig
<1>1. /\ TypeOK /\ tab[t] \in TabState /\ now \in Nat /\ seen \in Int
      /\ session \in [lastSeen : Nat, expiresAt : Nat] \cup {None}
  BY DEF FlowInv, TypeOK
<1>2. /\ tab[t].phase = "callback" /\ Deliver(t, Failed(t))
      /\ UNCHANGED <<provider, now, flows, sso, session, seen, logoutAt>>
  BY DEF Refuse, ExchangeFails
<1>3. Failed(t) \in TabState
  BY <1>1, FlowIdle DEF Failed, TabState
<1>4. /\ Failed(t).phase = "failed" /\ Failed(t).id = tab[t].id
      /\ Failed(t).startedAt = 0 /\ Failed(t).spent = FALSE
  BY FlowIdle DEF Failed, TabState
<1>5. Landed(Failed(t))
  BY <1>4 DEF Landed
<1> QED
  BY <1>1, <1>2, <1>3, <1>4, <1>5, FlowDelivered

\* The answer to a callback is lost, and the page loaded again.
LEMMA FlowAnswerLost ==
    ASSUME FlowInv, NEW t \in Tab, AnswerLost(t)
    PROVE  FlowInv'
<1> USE LoginConfig
<1> DEFINE hasFlow == IF Live(flow) THEN flow.id ELSE 0
           hasNext == IF Live(next) THEN next.path ELSE None
<1>1. /\ TypeOK /\ Current /\ Sound(tab[t]) /\ tab[t] \in TabState
      /\ now \in Nat /\ logoutAt \in Int
  BY DEF FlowInv, TypeOK
<1>2. hasFlow \in 0 .. MaxFlows /\ hasNext \in Path \cup {None}
  BY <1>1 DEF TypeOK, Live
<1>3. /\ tab[t].phase = "callback"
      /\ UNCHANGED <<provider, now, flows, flow, next, sso, session, seen, logoutAt, answered>>
      /\ tab' = [tab EXCEPT ![t] = [tab[t] EXCEPT !.spent = TRUE, !.hasFlow = hasFlow,
                                                  !.hasNext = hasNext]]
  BY <1>1 DEF AnswerLost, Redeemable, TypeOK
<1> HIDE DEF hasFlow, hasNext
<1>4. tab'[t] \in TabState
  BY <1>1, <1>2, <1>3 DEF TypeOK, TabState
<1>5. /\ tab'[t].phase = "callback" /\ tab'[t].id = tab[t].id
      /\ tab'[t].startedAt = tab[t].startedAt /\ tab'[t].asked = tab[t].asked
      /\ tab'[t].hasFlow = hasFlow /\ tab'[t].hasNext = hasNext
      /\ tab'[t].authAt = tab[t].authAt /\ tab'[t].claims = tab[t].claims
      /\ tab'[t].crossed = tab[t].crossed
  BY <1>1, <1>3, <1>4 DEF TypeOK, TabState
<1>6. \A u \in Tab \ {t} : tab'[u] = tab[u]
  BY <1>1, <1>3 DEF TypeOK
<1>7. tab' \in [Tab -> TabState]
  BY <1>1, <1>3, <1>4 DEF TypeOK
<1>8. TypeOK' /\ Current'
  BY <1>1, <1>3, <1>7 DEF TypeOK, Current
<1>9. tab[t].id \in 1 .. flows
  BY <1>1, <1>3 DEF Sound, Placed, OnLogin
<1>10. Placed(tab[t])'
  BY <1>1, <1>3, <1>5 DEF Sound, Placed, OnLogin
<1>11. Kept(tab[t])'
  BY <1>1, <1>3, <1>5 DEF Sound, Kept
<1>12. Carried(tab[t])'
  BY <1>1, <1>3, <1>5, FlowReread DEF hasFlow, hasNext
<1>13. Vouched(tab[t])' /\ Landed(tab[t])'
  BY <1>1, <1>3, <1>5 DEF Sound, Vouched, Landed
<1>14. Sound(tab[t])'
  BY <1>10, <1>11, <1>12, <1>13 DEF Sound
<1>15. \A u \in Tab \ {t} : SameLogin(tab'[u], tab[u])
  BY <1>6 DEF SameLogin
<1>16. flows <= flows'
  BY <1>1, <1>3 DEF TypeOK
<1> QED
  BY <1>3, <1>5, <1>8, <1>14, <1>15, <1>16, FlowOneTab DEF OnLogin

\* The user goes back to the page of the provider.
LEMMA FlowBack ==
    ASSUME FlowInv, NEW t \in Tab, Back(t)
    PROVE  FlowInv'
<1> USE LoginConfig
<1> DEFINE r == IF tab[t].spent THEN [tab[t] EXCEPT !.phase = "atProvider", !.spent = FALSE]
                ELSE [Idle EXCEPT !.phase = "atProvider", !.id = tab[t].id]
<1>1. /\ TypeOK /\ Current /\ Sound(tab[t]) /\ tab[t] \in TabState
      /\ now \in Nat /\ logoutAt \in Int
  BY DEF FlowInv, TypeOK
<1>2. /\ tab[t].phase \in {"landed", "failed"} \/ tab[t].spent
      /\ UNCHANGED <<provider, now, flows, flow, next, sso, session, seen, logoutAt, answered>>
      /\ tab' = [tab EXCEPT ![t] = r]
  BY <1>1 DEF Back, TypeOK
<1>3. tab[t].spent => tab[t].phase = "callback"
  BY <1>1 DEF Sound, Placed, OnLogin
<1>4. /\ r \in TabState /\ r.phase = "atProvider" /\ r.id = tab[t].id /\ ~r.spent
      /\ \/ /\ tab[t].phase = "callback" /\ r.startedAt = tab[t].startedAt
            /\ r.asked = tab[t].asked /\ r.crossed = tab[t].crossed
         \/ tab[t].phase \in {"landed", "failed"} /\ r.startedAt = 0
  <2>1. CASE tab[t].spent
    BY <1>1, <1>3, <2>1 DEF TabState
  <2>2. CASE ~tab[t].spent
    <3>1. r = [Idle EXCEPT !.phase = "atProvider", !.id = tab[t].id]
      BY <2>2
    <3>2. tab[t].id \in 0 .. MaxFlows
      BY <1>1 DEF TabState
    <3> QED
      BY <1>2, <2>2, <3>1, <3>2, FlowIdle DEF TabState
  <2> QED
    BY <2>1, <2>2
<1> HIDE DEF r
<1>5. /\ tab' \in [Tab -> TabState] /\ tab'[t] = r
      /\ \A u \in Tab \ {t} : tab'[u] = tab[u]
  BY <1>1, <1>2, <1>4 DEF TypeOK
<1>6. TypeOK' /\ Current'
  BY <1>1, <1>2, <1>5 DEF TypeOK, Current
<1>7. Placed(tab[t])'
  BY <1>1, <1>2, <1>4, <1>5 DEF Sound, Placed, OnLogin
<1>8. Kept(tab[t])'
  BY <1>1, <1>2, <1>4, <1>5 DEF Sound, Placed, Kept, OnLogin
<1>9. Carried(tab[t])' /\ Vouched(tab[t])' /\ Landed(tab[t])'
  BY <1>4, <1>5 DEF Carried, Vouched, Landed
<1>10. Sound(tab[t])'
  BY <1>7, <1>8, <1>9 DEF Sound
<1>11. \A u \in Tab \ {t} : SameLogin(tab'[u], tab[u])
  BY <1>5 DEF SameLogin
<1>12. flows <= flows' /\ OnLogin(tab[t])
  BY <1>1, <1>2, <1>3 DEF TypeOK, OnLogin
<1> QED
  BY <1>2, <1>4, <1>5, <1>6, <1>10, <1>11, <1>12, FlowOneTab

\* A logout, as far as it has got: t is on no login any more, and no sign-on is left at
\* the provider when it was told.
LEMMA FlowLeaves ==
    ASSUME FlowInv, NEW t \in Tab, NEW r \in TabState,
           r.phase \in {"app", "endSession", "loggedOut"}, r.startedAt <= now,
           r.spent = FALSE, tab' = [tab EXCEPT ![t] = r],
           UNCHANGED <<provider, now, flows, flow, next, seen, answered>>,
           session' \in {session, None}, sso' \in {sso, None},
           \/ logoutAt' = logoutAt
           \/ logoutAt' = now /\ (EndSession => sso' = None)
    PROVE  FlowInv'
<1> USE LoginConfig
<1>1. /\ TypeOK /\ Current /\ now \in Nat /\ flows \in Nat /\ logoutAt \in Int
  BY DEF FlowInv, TypeOK
<1>2. /\ tab' \in [Tab -> TabState] /\ tab'[t] = r
      /\ \A u \in Tab \ {t} : tab'[u] = tab[u]
  BY <1>1 DEF TypeOK
<1>3. TypeOK'
  BY <1>1, <1>2 DEF TypeOK
<1>4. Current'
  BY <1>1 DEF Current
<1>5. Sound(tab[t])'
  <2>1. /\ tab'[t].phase \in {"app", "endSession", "loggedOut"}
        /\ tab'[t].startedAt <= now' /\ tab'[t].spent = FALSE
    BY <1>2
  <2> QED
    BY <2>1 DEF Sound, Placed, OnLogin, Kept, Carried, Vouched, Landed
<1>6. \A u \in Tab \ {t} : SameLogin(tab'[u], tab[u])
  BY <1>2 DEF SameLogin
<1>7. flows <= flows' /\ ~OnLogin(tab'[t])
  BY <1>1, <1>2 DEF OnLogin
<1> QED
  BY <1>3, <1>4, <1>5, <1>6, <1>7, FlowOneTab

\* The gateway signs out, the provider does, and the user leaves.
LEMMA FlowLogout ==
    ASSUME FlowInv, NEW t \in Tab, Logout(t) \/ EndSso(t) \/ Leave(t)
    PROVE  FlowInv'
<1> USE LoginConfig
<1>1. /\ TypeOK /\ Sound(tab[t]) /\ tab[t] \in TabState /\ now \in Nat
  BY DEF FlowInv, TypeOK
<1>2. CASE Logout(t)
  <2>1. PICK page \in {"endSession", "loggedOut"} :
            SignOut(t, page) /\ (page = "loggedOut" => ~(EndSession /\ Valid))
    BY <1>2 DEF Logout
  <2> DEFINE r == [Idle EXCEPT !.phase = page, !.startedAt = now]
  <2>2. /\ r \in TabState /\ r.phase \in {"endSession", "loggedOut"}
        /\ r.startedAt <= now /\ r.spent = FALSE
    <3>1. r \in TabState
      BY <1>1, FlowIdle DEF TabState
    <3>2. r.phase = page /\ r.startedAt = now /\ r.spent = FALSE
      BY FlowIdle DEF TabState
    <3>3. now <= now
      BY <1>1
    <3> QED
      BY <3>1, <3>2, <3>3
  <2>3. /\ tab' = [tab EXCEPT ![t] = r] /\ session' = None
        /\ logoutAt' = IF page = "loggedOut" /\ Valid THEN now ELSE logoutAt
        /\ UNCHANGED <<provider, now, flows, flow, next, sso, seen, answered>>
    BY <2>1 DEF SignOut
  <2>4. logoutAt' = logoutAt \/ (logoutAt' = now /\ ~EndSession)
    BY <2>1, <2>3
  <2> HIDE DEF r
  <2> QED
    BY <2>2, <2>3, <2>4, FlowLeaves
<1>3. CASE EndSso(t)
  <2> DEFINE r == [tab[t] EXCEPT !.phase = "loggedOut"]
  <2>1. /\ tab[t].phase = "endSession" /\ sso' = None /\ logoutAt' = now
        /\ tab' = [tab EXCEPT ![t] = r]
        /\ UNCHANGED <<provider, now, flows, flow, next, session, seen, answered>>
    BY <1>1, <1>3 DEF EndSso, TypeOK
  <2>2. /\ r \in TabState /\ r.phase = "loggedOut" /\ r.startedAt = tab[t].startedAt
        /\ r.spent = tab[t].spent
    BY <1>1 DEF TabState
  <2>3. tab[t].startedAt <= now /\ tab[t].spent = FALSE
    BY <1>1, <2>1 DEF Sound, Placed, TabState
  <2> HIDE DEF r
  <2> QED
    BY <2>1, <2>2, <2>3, FlowLeaves
<1>4. CASE Leave(t)
  <2>1. /\ tab' = [tab EXCEPT ![t] = Idle]
        /\ UNCHANGED <<provider, now, flows, flow, next, sso, session, seen, logoutAt,
                        answered>>
    BY <1>4 DEF Leave
  <2>2. Idle.startedAt <= now
    BY <1>1, FlowIdle
  <2> QED
    BY <2>1, <2>2, FlowIdle, FlowLeaves
<1> QED
  BY <1>2, <1>3, <1>4

\* The session is used, or time passes.
LEMMA FlowSession ==
    ASSUME FlowInv, Use \/ Tick
    PROVE  FlowInv'
<1> USE LoginConfig
<1>1. /\ TypeOK /\ Current /\ now \in Nat /\ logoutAt \in Int /\ logoutAt <= now
      /\ session \in [lastSeen : Nat, expiresAt : Nat] \cup {None}
      /\ sso \in [at : Nat, claims : Claims] \cup {None}
  BY DEF FlowInv, TypeOK, Current
<1>2. CASE Use
  <2>1. PICK moved \in BOOLEAN :
            LET at == IF moved /\ IdleTTL > 0 THEN now ELSE session.lastSeen IN
            session' = [session EXCEPT !.lastSeen = at] /\ seen' = at
    BY <1>2 DEF Use
  <2> DEFINE at == IF moved /\ IdleTTL > 0 THEN now ELSE session.lastSeen
  <2>2. /\ session # None /\ session' = [session EXCEPT !.lastSeen = at] /\ seen' = at
        /\ UNCHANGED <<provider, now, flows, flow, next, tab, sso, logoutAt, answered>>
    BY <1>2, <2>1 DEF Use, Valid
  <2>3. at \in Nat
    BY <1>1, <2>2
  <2> HIDE DEF at
  <2>4. session' \in [lastSeen : Nat, expiresAt : Nat] /\ seen' \in Int
    BY <1>1, <2>2, <2>3
  <2>5. TypeOK' /\ Current'
    BY <1>1, <2>2, <2>4 DEF TypeOK, Current
  <2> QED
    BY <1>1, <2>2, <2>5, FlowNoTab
<1>3. CASE Tick
  <2>1. /\ now' = now + 1
        /\ UNCHANGED <<provider, flows, flow, next, tab, sso, session, seen, logoutAt, answered>>
    BY <1>3 DEF Tick
  <2>2. TypeOK' /\ Current' /\ now <= now'
    BY <1>1, <2>1 DEF TypeOK, Current
  <2> QED
    BY <2>1, <2>2, FlowNoTab
<1> QED
  BY <1>2, <1>3

\* The invariant holds before the first login.
LEMMA FlowInit == Init => FlowInv
<1> SUFFICES ASSUME Init PROVE FlowInv
  OBVIOUS
<1> USE LoginConfig
<1>1. /\ provider \in ProviderKind /\ now = 1 /\ flows = 0 /\ flow = None /\ next = None
      /\ tab = [t \in Tab |-> Idle] /\ sso = None /\ session = None
      /\ seen = Never /\ logoutAt = Never /\ answered = {}
  BY DEF Init
<1>2. Never \in Int /\ Never <= 1
  BY DEF Never
<1>3. tab \in [Tab -> TabState] /\ \A t \in Tab : tab[t] = Idle
  BY <1>1, FlowIdle
<1>4. TypeOK /\ Current
  BY <1>1, <1>2, <1>3 DEF TypeOK, Current
<1>5. ASSUME NEW t \in Tab PROVE Sound(tab[t])
  <2>1. /\ tab[t].phase = "app" /\ tab[t].startedAt = 0 /\ tab[t].spent = FALSE
    BY <1>3, FlowIdle
  <2>2. Placed(tab[t])
    BY <1>1, <2>1 DEF Placed, OnLogin
  <2> QED
    BY <2>1, <2>2 DEF Sound, Kept, Carried, Vouched, Landed
<1>6. Distinct
  BY <1>3, FlowIdle DEF Distinct, OnLogin
<1> QED
  BY <1>4, <1>5, <1>6 DEF FlowInv

\* Every step of the browser, the provider, the gateway and time keeps the invariant.
LEMMA FlowStep == FlowInv /\ [Next]_vars => FlowInv'
<1> SUFFICES ASSUME FlowInv, [Next]_vars PROVE FlowInv'
  OBVIOUS
<1>1. CASE Tick \/ Use
  BY <1>1, FlowSession
<1>2. ASSUME NEW t \in Tab, NEW path \in Path \cup {None}, Start(t, path) PROVE FlowInv'
  BY <1>2, FlowStart
<1>3. ASSUME NEW t \in Tab, AuthorizeSilently(t) \/ Cancel(t)
                            \/ \E claims \in Claims : Authenticate(t, claims)
      PROVE  FlowInv'
  BY <1>3, FlowProvider
<1>4. ASSUME NEW t \in Tab, Accept(t) PROVE FlowInv'
  BY <1>4, FlowAccept
<1>5. ASSUME NEW t \in Tab, Refuse(t) \/ ExchangeFails(t) PROVE FlowInv'
  BY <1>5, FlowFailed
<1>6. ASSUME NEW t \in Tab, AnswerLost(t) PROVE FlowInv'
  BY <1>6, FlowAnswerLost
<1>7. ASSUME NEW t \in Tab, Back(t) PROVE FlowInv'
  BY <1>7, FlowBack
<1>8. ASSUME NEW t \in Tab, Logout(t) \/ EndSso(t) \/ Leave(t) PROVE FlowInv'
  BY <1>8, FlowLogout
<1>9. CASE UNCHANGED vars
  <2>1. TypeOK' /\ Current' /\ now <= now'
    BY <1>9 DEF vars, FlowInv, TypeOK, Current
  <2> QED
    BY <1>9, <2>1, FlowNoTab DEF vars
<1> QED
  BY <1>1, <1>2, <1>3, <1>4, <1>5, <1>6, <1>7, <1>8, <1>9 DEF Next

\* The invariant holds throughout.
THEOREM FlowInvariant == Spec => []FlowInv
BY FlowInit, FlowStep, PTL DEF Spec

\* The state has its type.
THEOREM FlowTyped == Spec => []TypeOK
<1>1. FlowInv => TypeOK
  BY DEF FlowInv
<1> QED
  BY FlowInvariant, <1>1, PTL

\* At a provider that honours max_age single sign-on does not reinstate a recipient who
\* has idled out.
THEOREM FlowNoSilentReinstatement == Spec => []NoSilentReinstatement
<1>1. FlowInv => NoSilentReinstatement
  BY DEF FlowInv, Sound, Landed, NoSilentReinstatement
<1> QED
  BY FlowInvariant, <1>1, PTL

\* At any provider what single sign-on can reinstate is bounded by the idle timeout and
\* the leeway.
THEOREM FlowReinstatementBounded == Spec => []ReinstatementBounded
<1>1. FlowInv => ReinstatementBounded
  BY DEF FlowInv, Sound, Landed, ReinstatementBounded
<1> QED
  BY FlowInvariant, <1>1, PTL

\* Where the provider has an end_session_endpoint, whoever was led to the logged-out page
\* from a valid session is signed off there too, in whatever order the tabs sign in and
\* out and whichever redirects are lost.
THEOREM FlowLogoutEndsSSO ==
    ASSUME EndSession
    PROVE  Spec => []LogoutEndsSSO
<1>1. FlowInv => LogoutEndsSSO
  BY DEF FlowInv, Sound, Landed, LogoutEndsSSO
<1> QED
  BY FlowInvariant, <1>1, PTL

\* A callback is refused for its state only for what happened to its own login.
THEOREM FlowNoSpuriousRefusal == Spec => []NoSpuriousRefusal
<1>1. FlowInv => NoSpuriousRefusal
  <2> SUFFICES ASSUME FlowInv, NEW t \in Tab, tab[t].phase = "callback",
                      Refusal(t) = "state"
               PROVE  now >= tab[t].startedAt + FlowTTL \/ tab[t].crossed
                         \/ tab[t].id \in answered
    BY DEF NoSpuriousRefusal
  <2>1. tab[t].claims \in Claims \cup {None} /\ "state" \notin Claims
    BY LoginConfig DEF FlowInv, TypeOK, TabState, KnownClaims
  <2>2. tab[t].hasFlow # tab[t].id
    BY <2>1 DEF Refusal
  <2> QED
    BY <2>2 DEF FlowInv, Sound, Carried
<1> QED
  BY FlowInvariant, <1>1, PTL

\* A login that was answered is never accepted again.
THEOREM FlowSingleUse == Spec => []SingleUse
<1>1. FlowInv => SingleUse
  BY FlowPassed DEF FlowInv, Sound, Carried, SingleUse
<1> QED
  BY FlowInvariant, <1>1, PTL

\* A login returns to the path it was asked to return to.
THEOREM FlowReturnsWhereAsked == Spec => []ReturnsWhereAsked
<1>1. FlowInv => ReturnsWhereAsked
  BY DEF FlowInv, Sound, Landed, ReturnsWhereAsked
<1> QED
  BY FlowInvariant, <1>1, PTL
=============================================================================
