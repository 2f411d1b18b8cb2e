--------------------------- MODULE GatewayProofs ---------------------------
(***************************************************************************)
(* TLAPS proofs about Gateway, for every environment, any number of        *)
(* connections and all requests.                                           *)
(***************************************************************************)
EXTENDS Gateway, TLAPS

\* What is settled when main has come so far: Load has accepted the environment and
\* made the configuration of it, the provider's client was built, and the gate is on
\* if it was asked for.
Settled ==
    /\ stage \notin {"Load", "exited"} =>
          Acceptable(env) /\ cfg = [absolute |-> Absolute(env), idle |-> Idle(env),
                                    tos |-> env.tos = "true"]
    /\ stage \in {"checkProviderTrust", "NewManager", "listen", "select", "Shutdown"}
          => env.provider
    /\ stage \in {"Load", "NewOIDCAuth", "newProvider", "checkProviderTrust", "NewManager"}
          => gate = FALSE
    /\ stage = "NewManager" => env.tos = "true"
    /\ stage \in {"listen", "select", "Shutdown"} => gate = (env.tos = "true")

\* The listener runs only while main waits; a process that has not ended cut nobody
\* off, and waits in Shutdown only for a signal.
Orderly ==
    /\ listener # "none" => stage \in {"select", "Shutdown"}
    /\ stage = "Shutdown" => signalled = TRUE
    /\ stage # "exited" => code = -1
    /\ stage # "exited" => \A c \in Conn : conn[c].phase # "cut"
    /\ code = 0 => signalled = TRUE /\ \A c \in Conn : conn[c].phase # "cut"

\* The handler of a request nobody has taken up.
Nobody == ""

\* The type, as far as the other conjuncts rest on it.
Typed ==
    /\ env \in Environments /\ stage \in Stages
    /\ gate \in BOOLEAN /\ signalled \in BOOLEAN
    /\ conn \in [Conn -> Exchange]
    /\ \A c \in Conn : conn[c].phase # "idle" => conn[c].request \in Requests

GatewayInv == Typed /\ Settled /\ Orderly

-----------------------------------------------------------------------------
(* The routing table *)

\* Of the patterns that match a request, one is more specific than all the others.
Unambiguous(table, request) ==
    LET matching == {p \in table : Covers(p, request.path) /\ Admits(p, request.method)}
    IN  matching # {} => \E p \in matching : \A q \in matching \ {p} : MoreSpecific(p, q)

\* Then the choice Dispatch makes is a pattern of the table.
LEMMA DispatchEnds ==
    ASSUME NEW table, NEW request, Unambiguous(table, request)
    PROVE  Dispatch(table, request) \in
               {p.handler : p \in table} \cup {"not found", "method not allowed"}
<1> DEFINE covering == {p \in table : Covers(p, request.path)}
           matching == {p \in covering : Admits(p, request.method)}
           chosen == CHOOSE p \in matching : \A q \in matching \ {p} : MoreSpecific(p, q)
<1>1. CASE matching # {}
  <2>1. matching = {p \in table : Covers(p, request.path) /\ Admits(p, request.method)}
    OBVIOUS
  <2>2. chosen \in matching
    <3> HIDE DEF matching
    <3>1. \E p \in matching : \A q \in matching \ {p} : MoreSpecific(p, q)
      BY <1>1, <2>1 DEF Unambiguous
    <3> QED
      BY <3>1
  <2>3. Dispatch(table, request) = chosen.handler
    BY <1>1 DEF Dispatch
  <2> HIDE DEF chosen
  <2> QED
    BY <2>2, <2>3
<1>2. CASE matching = {}
  <2>1. Dispatch(table, request) \in {"not found", "method not allowed"}
    BY <1>2 DEF Dispatch
  <2> QED
    BY <2>1
<1> QED
  BY <1>1, <1>2

\* A pattern that covers a path and begins with a name begins with the path's.
LEMMA CoversFirst ==
    ASSUME NEW p, NEW path, Covers(p, path), Len(p.path) \in {1, 2, 3, 4, 6},
           NEW i \in 1 .. Len(p.path), p.path[i] \notin {"...", "*"}
    PROVE  p.path[i] = path[i]
BY DEF Covers

\* The same request meets two patterns of the outer table, other than the one for
\* everything, only below /api/.
LEMMA OuterOverlap ==
    ASSUME NEW request, NEW gated \in BOOLEAN,
           NEW p \in Outer(gated), NEW q \in Outer(gated),
           Covers(p, request.path), Covers(q, request.path),
           p # On(AnyMethod, <<"...">>, "spa"), q # On(AnyMethod, <<"...">>, "spa"), p # q
    PROVE  {p, q} \subseteq {On(AnyMethod, <<"api", "...">>, "api")} \cup ConsentRoutes
<1> DEFINE Own == Outer(gated) \ {On(AnyMethod, <<"...">>, "spa")}
           Lens == {1, 2, 3, 4, 6}
<1>1. ASSUME NEW r \in Own
      PROVE  /\ Len(r.path) \in Lens
             /\ r.path[1] \in {"branding", "healthz", "readyz", "auth", "api"}
             /\ r.path[1] = "auth" => Len(r.path) = 2 /\ r.path[2] \in {"login", "callback", "logout"}
             /\ r.path[1] = "api" =>
                   r \in {On(AnyMethod, <<"api", "...">>, "api")} \cup ConsentRoutes
  <2>1. CASE r \in ConsentRoutes
    BY <2>1 DEF ConsentRoutes, On
  <2>2. CASE r \notin ConsentRoutes
    BY <2>2 DEF Outer, On
  <2> QED
    BY <2>1, <2>2
<1>2. ASSUME NEW r \in Own, Covers(r, request.path)
      PROVE  /\ r.path[1] = request.path[1]
             /\ r.path[1] = "auth" => r.path[2] = request.path[2]
  <2>1. Len(r.path) \in Lens /\ 1 \in 1 .. Len(r.path) /\ r.path[1] \notin {"...", "*"}
    BY <1>1
  <2>2. r.path[1] = request.path[1]
    BY <1>2, <2>1, CoversFirst
  <2>3. ASSUME r.path[1] = "auth" PROVE r.path[2] = request.path[2]
    <3>1. 2 \in 1 .. Len(r.path) /\ r.path[2] \notin {"...", "*"}
      BY <1>1, <2>3
    <3> QED
      BY <1>2, <2>1, <3>1, CoversFirst
  <2> QED
    BY <2>2, <2>3
<1>3. ASSUME NEW r \in Own, NEW s \in Own, r.path[1] = s.path[1], r.path[1] # "api",
             r.path[1] = "auth" => r.path[2] = s.path[2]
      PROVE  r = s
  <2>1. r \notin ConsentRoutes /\ s \notin ConsentRoutes
    BY <1>3 DEF ConsentRoutes, On
  <2> QED
    BY <1>3, <2>1 DEF Outer, On
<1>4. p \in Own /\ q \in Own
  OBVIOUS
<1> HIDE DEF Own
<1> QED
  BY <1>1, <1>2, <1>3, <1>4

\* Every pattern of the outer table that matches a request gives way to one of them.
LEMMA OuterUnambiguous ==
    ASSUME NEW request, NEW gated \in BOOLEAN
    PROVE  Unambiguous(Outer(gated), request)
<1> DEFINE matching == {p \in Outer(gated) : Covers(p, request.path) /\ Admits(p, request.method)}
           spa == On(AnyMethod, <<"...">>, "spa")
           api == On(AnyMethod, <<"api", "...">>, "api")
           content == On("GET", <<"api", "tos">>, "ContentHandler")
           accept == On("POST", <<"api", "tos", "accept">>, "AcceptHandler")
           best(p) == p \in matching /\ \A q \in matching \ {p} : MoreSpecific(p, q)
<1>1. ASSUME NEW p \in Outer(gated), p # spa PROVE MoreSpecific(p, spa)
  <2>1. CASE p \in ConsentRoutes
    BY <2>1 DEF ConsentRoutes, MoreSpecific, On
  <2>2. CASE p \notin ConsentRoutes
    BY <1>1, <2>2 DEF Outer, MoreSpecific, On
  <2> QED
    BY <2>1, <2>2
<1>2. MoreSpecific(content, api) /\ MoreSpecific(accept, api)
  BY DEF MoreSpecific, On
<1>3. ~ (content \in matching /\ accept \in matching)
  <2>1. Len(content.path) = 2 /\ content.path[2] = "tos" /\ Len(accept.path) = 3
        /\ accept.path[3] = "accept"
    BY DEF On
  <2> HIDE DEF content, accept
  <2>2. Covers(content, request.path) => Len(request.path) = 2
    BY <2>1 DEF Covers
  <2>3. Covers(accept, request.path) => Len(request.path) = 3
    BY <2>1 DEF Covers
  <2>4. \A n : n = 2 => n # 3
    OBVIOUS
  <2> QED
    BY <2>2, <2>3, <2>4
<1>4. ConsentRoutes = {content, accept}
  BY DEF ConsentRoutes
<1>5. ASSUME NEW p \in matching, NEW q \in matching, p # spa, q # spa, p # q
      PROVE  p \in {api, content, accept} /\ q \in {api, content, accept}
  BY <1>4, <1>5, OuterOverlap
<1>6. content # spa /\ accept # spa
  BY DEF On
<1> HIDE DEF spa, api, content, accept
<1>7. matching # {} => \E p : best(p)
  <2>1. ASSUME NEW p \in matching PROVE p # spa => MoreSpecific(p, spa)
    BY <1>1
  <2> HIDE DEF matching
  <2>2. CASE content \in matching \/ accept \in matching
    <3>1. PICK p \in {content, accept} \cap matching : TRUE
      BY <2>2
    <3>2. ASSUME NEW q \in matching \ {p} PROVE MoreSpecific(p, q)
      <4>1. CASE q = spa
        BY <1>6, <2>1, <3>1, <4>1
      <4>2. CASE q # spa
        <5>1. q \in {api, content, accept}
          BY <1>5, <1>6, <3>1, <3>2, <4>2
        <5>2. q = api
          BY <1>3, <3>1, <3>2, <5>1
        <5> QED
          BY <1>2, <3>1, <5>2
      <4> QED
        BY <4>1, <4>2
    <3>3. best(p)
      BY <3>1, <3>2
    <3> QED
      BY <3>3
  <2>3. CASE content \notin matching /\ accept \notin matching
    <3>1. ASSUME NEW p \in matching, p # spa PROVE best(p)
      BY <1>5, <2>1, <2>3, <3>1
    <3>2. (\A p \in matching : p = spa) /\ matching # {} => best(spa)
      OBVIOUS
    <3> QED
      BY <3>1, <3>2
  <2> QED
    BY <2>2, <2>3
<1> QED
  BY <1>7 DEF Unambiguous

\* No request matches two patterns behind the gates.
LEMMA ApiUnambiguous ==
    ASSUME NEW request
    PROVE  Unambiguous(Api, request)
<1>1. ASSUME NEW p \in Api
      PROVE  /\ Len(p.path) \in {2, 3, 4, 6} /\ p.path[Len(p.path)] \notin {"...", "*"}
             /\ Len(p.path) = 2 => p.path[2] \in {"me", "shares"}
             /\ Len(p.path) = 4 => p.path[4] \in {"content", "folder", "upload"}
  <2>1. /\ Len(p.path) \in {2, 4, 6}
        /\ Len(p.path) = 2 => p.path[2] \in {"me", "shares"}
        /\ Len(p.path) = 4 => p.path[4] \in {"content", "folder", "upload"}
        /\ Len(p.path) = 6 => p.path[6] = "content"
    BY DEF Api, On
  <2> QED
    BY <2>1
<1>2. ASSUME NEW p \in Api, Covers(p, request.path)
      PROVE  /\ Len(p.path) = Len(request.path)
             /\ p.path[Len(p.path)] = request.path[Len(p.path)]
  <2>1. \A n \in {2, 3, 4, 6} : n \in {1, 2, 3, 4, 6} /\ n \in 1 .. n
    OBVIOUS
  <2>2. Len(p.path) \in {1, 2, 3, 4, 6} /\ Len(p.path) \in 1 .. Len(p.path)
    BY <1>1, <2>1
  <2>3. p.path[Len(p.path)] = request.path[Len(p.path)]
    BY <1>1, <1>2, <2>2, CoversFirst
  <2> QED
    BY <1>1, <1>2, <2>3 DEF Covers
<1>3. ASSUME NEW p \in Api, NEW q \in Api, Len(p.path) = Len(q.path),
             p.path[Len(p.path)] = q.path[Len(p.path)]
      PROVE  p = q
  BY <1>3 DEF Api, On
<1>4. ASSUME NEW p \in Api, NEW q \in Api, Covers(p, request.path), Covers(q, request.path)
      PROVE  p = q
  BY <1>2, <1>3, <1>4
<1> QED
  BY <1>4 DEF Unambiguous

\* The routing table is unambiguous, with the gate and without it: whatever the method
\* and the path of a request, it never depends on a choice of the table which handler
\* gets it and which of the gates it passes.
THEOREM RoutesUnambiguous ==
    \A request : \A gated \in BOOLEAN :
        Unambiguous(Outer(gated), request) /\ Unambiguous(Api, request)
BY OuterUnambiguous, ApiUnambiguous

\* So every request ends at a handler there is, or at none.
LEMMA GatewayRoute ==
    ASSUME NEW request, NEW gated \in BOOLEAN
    PROVE  Route(request, gated).handler \in Handler
<1> DEFINE outer == Dispatch(Outer(gated), request)
           inner == Dispatch(Api, request)
<1>1. outer \in {p.handler : p \in Outer(gated)} \cup {"not found", "method not allowed"}
  BY OuterUnambiguous, DispatchEnds
<1>2. inner \in {p.handler : p \in Api} \cup {"not found", "method not allowed"}
  BY ApiUnambiguous, DispatchEnds
<1>3. Outer(gated) \subseteq Outer(TRUE)
  BY DEF Outer
<1>4. \A p \in Api : p.handler # "api"
  BY DEF Api, On
<1> HIDE DEF outer, inner
<1>5. inner \in Endings
  BY <1>2, <1>4 DEF Endings
<1>6. outer # "api" => outer \in Endings
  BY <1>1, <1>3 DEF Endings
<1>7. Route(request, gated).handler = IF outer = "api" THEN inner ELSE outer
  BY DEF Route, outer, inner
<1> QED
  BY <1>5, <1>6, <1>7 DEF Handler

-----------------------------------------------------------------------------
(* The process *)

\* Whatever is asked and whatever the services reply, the status is one there is.
LEMMA GatewayStatus ==
    /\ \A handler, request : LocalStatus(handler, request) \in Status
    /\ \A handler, reply : HandlerStatus(handler, reply) \in Status
<1>1. \A path : ShellStatus(path) \in {200, 403, 404}
  BY DEF ShellStatus
<1>2. ASSUME NEW handler, NEW request PROVE LocalStatus(handler, request) \in Status
  <2>1. LocalStatus(handler, request) \in {200, 204, 302, 404, 405, ShellStatus(request.path)}
    BY DEF LocalStatus
  <2> QED
    BY <1>1, <2>1 DEF Status
<1>3. \A err : RecipientStatus(err) \in {403, 404, 410, 500, 503}
  BY DEF RecipientStatus
<1>4. ASSUME NEW handler, NEW reply PROVE HandlerStatus(handler, reply) \in Status
  <2>1. \E err : HandlerStatus(handler, reply) \in {200, 302, 502, 503, RecipientStatus(err)}
    BY DEF HandlerStatus, ListStatus, FolderStatus
  <2> QED
    BY <1>3, <2>1 DEF Status
<1> QED
  BY <1>2, <1>4

\* A connection without a request.
LEMMA GatewayFree ==
    /\ Free \in Exchange /\ Free.phase = "idle" /\ Free.handler = Nobody /\ Free.status = 0
<1>1. Nobody \in Handler /\ 0 \in Status
  BY DEF Handler, Status, Nobody
<1>2. Free = [phase |-> "idle", request |-> None, session |-> FALSE, consent |-> FALSE,
              handler |-> Nobody, status |-> 0]
  BY Zenon DEF Free, Nobody
<1>3. None \in Requests \cup {None} /\ FALSE \in BOOLEAN
  OBVIOUS
<1> QED
  BY <1>1, <1>2, <1>3 DEF Exchange

\* The invariant holds when the process is started.
LEMMA GatewayInit == Init => GatewayInv
<1> SUFFICES ASSUME Init PROVE GatewayInv
  OBVIOUS
<1>1. /\ env \in Environments /\ stage = "Load" /\ gate = FALSE /\ signalled = FALSE
      /\ listener = "none" /\ code = -1 /\ conn = [c \in Conn |-> Free]
  BY DEF Init
<1>2. Free \in Exchange /\ Free.phase = "idle"
  BY GatewayFree
<1>3. \A c \in Conn : conn[c] = Free
  BY <1>1
<1>4. conn \in [Conn -> Exchange]
  BY <1>1, <1>2
<1>5. Typed
  BY <1>1, <1>2, <1>3, <1>4 DEF Typed, Stages
<1>6. Settled
  BY <1>1 DEF Settled
<1>7. Orderly
  BY <1>1, <1>2, <1>3 DEF Orderly
<1> QED
  BY <1>5, <1>6, <1>7 DEF GatewayInv

\* An exit keeps the invariant if it is not with 0, or with 0 on a signal and with
\* nothing under way.
LEMMA GatewayExit ==
    ASSUME GatewayInv, NEW status \in {0, 1, 143}, Exit(status), env' = env,
           gate' \in BOOLEAN, signalled' \in BOOLEAN,
           status = 0 => signalled' = TRUE /\ Active = {} /\ stage # "exited"
    PROVE  GatewayInv'
<1>1. /\ stage' = "exited" /\ code' = status /\ listener' = "none"
      /\ conn' = [c \in Conn |-> IF c \in Active THEN [conn[c] EXCEPT !.phase = "cut"]
                                                 ELSE conn[c]]
  BY DEF Exit
<1>2. Typed'
  <2>1. /\ \A c \in Conn : conn[c] \in Exchange
        /\ \A c \in Conn : conn[c].phase # "idle" => conn[c].request \in Requests
    BY DEF GatewayInv, Typed
  <2>2. ASSUME NEW c \in Conn
        PROVE  conn'[c] \in Exchange /\ (conn'[c].phase # "idle" => conn'[c].request \in Requests)
    <3>1. CASE c \in Active
      <4>1. conn'[c] = [conn[c] EXCEPT !.phase = "cut"] /\ conn[c].phase # "idle"
        BY <1>1, <3>1 DEF Active
      <4> QED
        BY <2>1, <4>1 DEF Exchange
    <3>2. CASE c \notin Active
      BY <1>1, <2>1, <3>2
    <3> QED
      BY <3>1, <3>2
  <2>3. conn' \in [Conn -> Exchange]
    BY <1>1, <2>2
  <2> QED
    BY <1>1, <2>2, <2>3 DEF GatewayInv, Typed, Stages
<1>3. Settled'
  BY <1>1 DEF Settled
<1>4. ASSUME status = 0 PROVE \A c \in Conn : conn'[c].phase # "cut"
  <2>1. Active = {} /\ stage # "exited"
    BY <1>4
  <2>2. \A c \in Conn : conn'[c] = conn[c]
    BY <1>1, <2>1
  <2> QED
    BY <2>1, <2>2 DEF GatewayInv, Orderly
<1>5. Orderly'
  BY <1>1, <1>4 DEF Orderly
<1> QED
  BY <1>2, <1>3, <1>5 DEF GatewayInv

\* A step of one request keeps the invariant.
LEMMA GatewayRequest ==
    ASSUME GatewayInv, NEW c \in Conn, NEW x \in Exchange, x.phase # "cut",
           x.phase # "idle" => x.request \in Requests,
           conn' = [conn EXCEPT ![c] = x], UNCHANGED process
    PROVE  GatewayInv'
<1>1. conn \in [Conn -> Exchange]
  BY DEF GatewayInv, Typed
<1>2. conn'[c] = x /\ \A d \in Conn : d # c => conn'[d] = conn[d]
  BY <1>1
<1>3. conn' \in [Conn -> Exchange]
  BY <1>1
<1>4. UNCHANGED <<env, cfg, stage, gate, signalled, listener, code>>
  BY DEF process
<1>5. Typed'
  BY <1>2, <1>3, <1>4 DEF GatewayInv, Typed
<1>6. Settled'
  BY <1>4 DEF GatewayInv, Settled
<1>7. \A d \in Conn : conn'[d].phase = "cut" => conn[d].phase = "cut"
  BY <1>2
<1>8. Orderly'
  BY <1>4, <1>7 DEF GatewayInv, Orderly
<1> QED
  BY <1>5, <1>6, <1>8 DEF GatewayInv

\* A request on its way through the gates and the handlers keeps the invariant.
LEMMA GatewayRequests ==
    ASSUME GatewayInv, NEW c \in Conn,
           \/ \E request \in Requests : Accept(c, request)
           \/ Serve(c) \/ Done(c)
           \/ \E reply \in Replies : Return(c, reply)
    PROVE  GatewayInv'
<1>1. /\ conn \in [Conn -> Exchange] /\ conn[c] \in Exchange /\ gate \in BOOLEAN
      /\ conn[c].phase # "idle" => conn[c].request \in Requests
  BY DEF GatewayInv, Typed
<1>2. ASSUME NEW handler \in Handler, NEW status \in Status, conn[c].phase # "idle",
             Answered(c, handler, status), UNCHANGED process
      PROVE  GatewayInv'
  <2> DEFINE x == [conn[c] EXCEPT !.phase = "answered", !.handler = handler,
                                  !.status = status]
  <2>1. conn' = [conn EXCEPT ![c] = x]
    BY <1>1, <1>2 DEF Answered
  <2>2. x \in Exchange /\ x.phase = "answered" /\ x.request = conn[c].request
    BY <1>1 DEF Exchange
  <2> HIDE DEF x
  <2> QED
    BY <1>1, <1>2, <2>1, <2>2, GatewayRequest
<1>3. ASSUME NEW request \in Requests, Accept(c, request) PROVE GatewayInv'
  <2>1. PICK session \in BOOLEAN, consent \in BOOLEAN :
            conn' = [conn EXCEPT ![c] = [Free EXCEPT !.phase = "accepted",
                        !.request = request, !.session = session, !.consent = consent]]
    BY <1>3 DEF Accept
  <2> DEFINE x == [Free EXCEPT !.phase = "accepted", !.request = request,
                               !.session = session, !.consent = consent]
  <2>2. x \in Exchange /\ x.phase = "accepted" /\ x.request = request
    BY GatewayFree DEF Exchange
  <2> HIDE DEF x
  <2>3. conn' = [conn EXCEPT ![c] = x] /\ UNCHANGED process
    BY <1>3, <2>1 DEF Accept, x
  <2> QED
    BY <2>2, <2>3, GatewayRequest
<1>4. CASE Serve(c)
  <2> DEFINE request == conn[c].request
             handler == Route(request, gate).handler
  <2>1. /\ conn[c].phase = "accepted" /\ UNCHANGED process
        /\ \/ Answered(c, "RequireAuth", 401)
           \/ Answered(c, "RequireTOS", 403)
           \/ conn' = [conn EXCEPT ![c].phase = "calling", ![c].handler = handler]
           \/ Answered(c, handler, LocalStatus(handler, request))
    BY <1>4 DEF Serve
  <2>2. request \in Requests
    BY <1>1, <2>1
  <2> HIDE DEF request
  <2>3. handler \in Handler
    BY <1>1, <2>2, GatewayRoute
  <2> HIDE DEF handler
  <2>4. LocalStatus(handler, request) \in Status
    BY GatewayStatus
  <2>5. 401 \in Status /\ 403 \in Status
    BY DEF Status
  <2>6. "RequireAuth" \in Handler /\ "RequireTOS" \in Handler
    BY DEF Handler
  <2>7. CASE conn' = [conn EXCEPT ![c].phase = "calling", ![c].handler = handler]
    <3> DEFINE x == [conn[c] EXCEPT !.phase = "calling", !.handler = handler]
    <3>1. conn' = [conn EXCEPT ![c] = x]
      BY <1>1, <2>7
    <3>2. x \in Exchange /\ x.phase = "calling" /\ x.request = conn[c].request
      BY <1>1, <2>3 DEF Exchange
    <3> HIDE DEF x
    <3> QED
      BY <1>1, <2>1, <3>1, <3>2, GatewayRequest
  <2> QED
    BY <1>2, <2>1, <2>3, <2>4, <2>5, <2>6, <2>7
<1>5. CASE Done(c)
  BY <1>5, GatewayFree, GatewayRequest DEF Done
<1>6. ASSUME NEW reply \in Replies, Return(c, reply) PROVE GatewayInv'
  <2>1. /\ conn[c].phase = "calling" /\ UNCHANGED process
        /\ Answered(c, conn[c].handler, HandlerStatus(conn[c].handler, reply))
    BY <1>6 DEF Return
  <2>2. conn[c].handler \in Handler
    BY <1>1 DEF Exchange
  <2>3. HandlerStatus(conn[c].handler, reply) \in Status
    BY GatewayStatus
  <2> QED
    BY <1>2, <2>1, <2>2, <2>3
<1> QED
  BY <1>3, <1>4, <1>5, <1>6

\* A step of main from one stage to the next keeps the invariant.
LEMMA GatewayStart ==
    ASSUME GatewayInv, Load \/ NewOIDCAuth \/ Abandon \/ NewProvider
    PROVE  GatewayInv'
<1>1. stage \in {"Load", "NewOIDCAuth", "newProvider"} /\ env' = env
  BY DEF Load, NewOIDCAuth, Abandon, NewProvider
<1>2. gate' = gate /\ signalled' = signalled /\ gate' \in BOOLEAN /\ signalled' \in BOOLEAN
  BY DEF Load, NewOIDCAuth, Abandon, NewProvider, GatewayInv, Typed
<1>3. CASE Exit(1)
  BY <1>1, <1>2, <1>3, GatewayExit
<1>4. CASE Load /\ ~Exit(1)
  <2>1. /\ stage = "Load" /\ Acceptable(env)
        /\ cfg' = [absolute |-> Absolute(env), idle |-> Idle(env), tos |-> env.tos = "true"]
        /\ stage' = "NewOIDCAuth" /\ UNCHANGED <<code, listener, conn>>
    BY <1>4 DEF Load, Advance
  <2>2. Typed'
    BY <1>1, <1>2, <2>1 DEF GatewayInv, Typed, Stages
  <2>3. Settled'
    BY <1>1, <1>2, <2>1 DEF GatewayInv, Settled
  <2>4. Orderly'
    BY <1>2, <2>1 DEF GatewayInv, Orderly
  <2> QED
    BY <2>2, <2>3, <2>4 DEF GatewayInv
<1>5. CASE (NewOIDCAuth \/ NewProvider) /\ ~Exit(1)
  <2>1. /\ \/ stage = "NewOIDCAuth" /\ stage' = "newProvider"
           \/ stage = "newProvider" /\ stage' = "checkProviderTrust" /\ env.provider
        /\ UNCHANGED <<cfg, code, listener, conn>>
    BY <1>5 DEF NewOIDCAuth, NewProvider, Advance
  <2>2. Typed'
    BY <1>1, <1>2, <2>1 DEF GatewayInv, Typed, Stages
  <2>3. Settled'
    BY <1>1, <1>2, <2>1 DEF GatewayInv, Settled
  <2>4. Orderly'
    BY <1>2, <2>1 DEF GatewayInv, Orderly
  <2> QED
    BY <2>2, <2>3, <2>4 DEF GatewayInv
<1> QED
  BY <1>3, <1>4, <1>5 DEF Abandon

\* So does settling the gate.
LEMMA GatewayGate ==
    ASSUME GatewayInv, CheckProviderTrust \/ NewManager \/ Listen
    PROVE  GatewayInv'
<1>1. /\ stage \in {"checkProviderTrust", "NewManager", "listen"} /\ env' = env
      /\ signalled' = signalled /\ signalled' \in BOOLEAN
  BY DEF CheckProviderTrust, NewManager, Listen, GatewayInv, Typed
<1>2. CASE NewManager /\ Exit(1)
  <2>1. gate' = gate \/ gate' = TRUE
    BY <1>2 DEF NewManager
  <2>2. gate' \in BOOLEAN
    BY <2>1 DEF GatewayInv, Typed
  <2> QED
    BY <1>1, <1>2, <2>2, GatewayExit
<1>3. CASE ~Exit(1) \/ ~NewManager
  <2>1. /\ \/ /\ stage = "checkProviderTrust" /\ gate' = gate /\ listener' = listener
              /\ stage' = IF cfg.tos THEN "NewManager" ELSE "listen"
           \/ /\ stage = "NewManager" /\ gate' = TRUE /\ listener' = listener
              /\ stage' = "listen"
           \/ /\ stage = "listen" /\ gate' = gate /\ listener' = "starting"
              /\ stage' = "select"
        /\ UNCHANGED <<cfg, code, conn>>
    BY <1>3 DEF CheckProviderTrust, NewManager, Listen, Advance
  <2>2. cfg.tos = (env.tos = "true")
    BY <1>1 DEF GatewayInv, Settled
  <2>3. Typed'
    BY <1>1, <2>1 DEF GatewayInv, Typed, Stages
  <2>4. Settled'
    BY <1>1, <2>1, <2>2 DEF GatewayInv, Settled
  <2>5. Orderly'
    BY <1>1, <2>1 DEF GatewayInv, Orderly
  <2> QED
    BY <2>3, <2>4, <2>5 DEF GatewayInv
<1> QED
  BY <1>2, <1>3

\* And so does everything that happens while main waits, or shuts down.
LEMMA GatewayWaits ==
    ASSUME GatewayInv,
           \/ Select \/ Drain \/ Drained \/ DrainGivesUp
           \/ ListenerUp \/ ListenerFails \/ ListenerLate \/ Signal
    PROVE  GatewayInv'
<1>1. /\ env' = env /\ cfg' = cfg /\ gate' = gate
      /\ gate' \in BOOLEAN /\ signalled' \in BOOLEAN /\ stage # "exited"
      /\ signalled' = signalled \/ signalled' = TRUE
  BY DEF Select, Drain, Drained, DrainGivesUp, ListenerUp, ListenerFails, ListenerLate,
         Signal, GatewayInv, Typed
<1>2. ASSUME NEW status \in {1, 143}, Exit(status) PROVE GatewayInv'
  BY <1>1, <1>2, GatewayExit
<1>3. CASE Drained
  <2>1. Active = {} /\ Exit(0) /\ signalled' = TRUE
    BY <1>3 DEF Drained, GatewayInv, Orderly
  <2> QED
    BY <1>1, <2>1, GatewayExit
<1>4. CASE Select /\ ~Exit(1)
  <2>1. /\ stage = "select" /\ stage' = "Shutdown" /\ signalled = TRUE /\ signalled' = signalled
        /\ listener' \in {"none", listener} /\ UNCHANGED <<code, conn>>
    BY <1>4 DEF Select, GatewayInv, Typed
  <2>2. Typed'
    BY <1>1, <2>1 DEF GatewayInv, Typed, Stages
  <2>3. Settled'
    BY <1>1, <2>1 DEF GatewayInv, Settled
  <2>4. Orderly'
    BY <2>1 DEF GatewayInv, Orderly
  <2> QED
    BY <2>2, <2>3, <2>4 DEF GatewayInv
<1>5. ASSUME UNCHANGED <<stage, code, conn>>,
             listener' \in {"none", listener} \/ stage \in {"select", "Shutdown"}
      PROVE  GatewayInv'
  <2>1. Typed'
    BY <1>1, <1>5 DEF GatewayInv, Typed
  <2>2. Settled'
    BY <1>1, <1>5 DEF GatewayInv, Settled
  <2>3. Orderly'
    BY <1>1, <1>5 DEF GatewayInv, Orderly
  <2> QED
    BY <2>1, <2>2, <2>3 DEF GatewayInv
<1>6. CASE Drain \/ ListenerUp \/ ListenerFails \/ ListenerLate
  <2>1. /\ UNCHANGED <<stage, code, conn>>
        /\ listener' \in {"none", listener} \/ stage \in {"select", "Shutdown"}
    BY <1>6 DEF Drain, ListenerUp, ListenerFails, ListenerLate
  <2> QED
    BY <1>5, <2>1
<1>7. CASE Signal
  <2>1. CASE stage = "Load"
    <3>1. Exit(143)
      BY <1>7, <2>1 DEF Signal
    <3> QED
      BY <1>2, <3>1
  <2>2. CASE stage # "Load"
    <3>1. UNCHANGED <<stage, code, conn, listener>>
      BY <1>7, <2>2 DEF Signal
    <3> QED
      BY <1>5, <3>1
  <2> QED
    BY <2>1, <2>2
<1>8. CASE DrainGivesUp
  BY <1>2, <1>8 DEF DrainGivesUp
<1> QED
  BY <1>2, <1>3, <1>4, <1>6, <1>7, <1>8

\* Every step of the process and its requests keeps the invariant.
LEMMA GatewayStep == GatewayInv /\ [Next]_vars => GatewayInv'
<1> SUFFICES ASSUME GatewayInv, [Next]_vars PROVE GatewayInv'
  OBVIOUS
<1>1. CASE UNCHANGED vars
  BY <1>1 DEF vars, GatewayInv, Typed, Settled, Orderly
<1>2. CASE Next
  BY <1>2, GatewayStart, GatewayGate, GatewayWaits, GatewayRequests DEF Next, Main
<1> QED
  BY <1>1, <1>2

\* The invariant holds from the start to the exit.
THEOREM GatewayInvariant == Spec => []GatewayInv
BY GatewayInit, GatewayStep, PTL DEF Spec

\* An exit status of 0 was asked for by a signal and cuts nobody off.
THEOREM GatewayCleanExit == Spec => []CleanExit
<1>1. GatewayInv => CleanExit
  BY DEF GatewayInv, Orderly, CleanExit
<1> QED
  BY GatewayInvariant, <1>1, PTL

\* Whoever listens was configured rightly, with the consent gate as it was asked for.
THEOREM GatewayStartsAsConfigured == Spec => []StartsAsConfigured
<1>1. GatewayInv => StartsAsConfigured
  <2> SUFFICES ASSUME GatewayInv, listener \in {"starting", "listening"}
               PROVE  /\ cfg.absolute > 0 /\ cfg.idle \in 0 .. cfg.absolute
                      /\ gate = (env.tos = "true")
                      /\ env.key /\ env.provider
    BY DEF StartsAsConfigured
  <2>1. stage \in {"select", "Shutdown"}
    BY DEF GatewayInv, Orderly
  <2>2. /\ Acceptable(env) /\ cfg.absolute = Absolute(env) /\ cfg.idle = Idle(env)
        /\ gate = (env.tos = "true") /\ env.provider
    BY <2>1 DEF GatewayInv, Settled
  <2>3. env \in Environment
    BY GatewayConfig DEF GatewayInv, Typed
  <2>4. Absolute(env) \in Int /\ Idle(env) \in Int
    BY <2>3, GatewayConfig DEF Environment, Absolute, Idle
  <2>5. /\ Absolute(env) > 0 /\ Idle(env) >= 0 /\ Idle(env) <= Absolute(env) /\ env.key
    BY <2>2 DEF Acceptable
  <2> QED
    BY <2>2, <2>4, <2>5
<1> QED
  BY GatewayInvariant, <1>1, PTL

-----------------------------------------------------------------------------
(* Type correctness *)

\* The variables the invariant says nothing of.
Rest ==
    /\ cfg \in Config \cup {None} /\ errCh \in BOOLEAN
    /\ listener \in {"none", "starting", "listening", "failed"}
    /\ elapsed \in 0 .. DrainTimeout
    /\ code \in {-1, 0, 1, 143}

\* What Load makes of an environment it accepts is a Config.
LEMMA GatewayLoads ==
    ASSUME NEW e \in Environment, Acceptable(e)
    PROVE  [absolute |-> Absolute(e), idle |-> Idle(e), tos |-> e.tos = "true"] \in Config
<1>1. Absolute(e) \in Int /\ Idle(e) \in Int
  BY GatewayConfig DEF Environment, Absolute, Idle
<1>2. Absolute(e) \in Nat /\ Idle(e) \in Nat
  BY <1>1 DEF Acceptable
<1>3. (e.tos = "true") \in BOOLEAN
  OBVIOUS
<1> QED
  BY <1>2, <1>3 DEF Config

\* Every step leaves them in their types: the drain does not wait beyond its timeout,
\* and main exits with one of three statuses.
LEMMA GatewayRest == GatewayInv /\ Rest /\ [Next]_vars => Rest'
<1> SUFFICES ASSUME GatewayInv, Rest, [Next]_vars PROVE Rest'
  OBVIOUS
<1>1. env \in Environment
  BY GatewayConfig DEF GatewayInv, Typed
<1>2. ASSUME NEW status \in {0, 1, 143}, Exit(status), UNCHANGED <<cfg, errCh, elapsed>>
      PROVE  Rest'
  BY <1>2 DEF Exit, Rest
<1>3. ASSUME UNCHANGED <<code, errCh, elapsed>>, listener' \in {"none", "starting", listener},
             cfg' \in Config \cup {None}
      PROVE  Rest'
  BY <1>3 DEF Rest
<1>4. ASSUME UNCHANGED process PROVE Rest'
  BY <1>4 DEF process, Rest
<1>5. CASE Load
  <2>1. CASE Acceptable(env)
    BY <1>1, <1>3, <1>5, <2>1, GatewayLoads DEF Load, Advance
  <2>2. CASE ~Acceptable(env)
    BY <1>2, <1>5, <2>2 DEF Load
  <2> QED
    BY <2>1, <2>2
<1>6. CASE NewOIDCAuth \/ Abandon \/ NewProvider \/ NewManager
  <2>1. UNCHANGED <<cfg, errCh, elapsed>> /\ (Exit(1) \/ UNCHANGED <<code, listener>>)
    BY <1>6 DEF NewOIDCAuth, Abandon, NewProvider, NewManager, Advance
  <2> QED
    BY <1>2, <2>1 DEF Rest
<1>7. CASE CheckProviderTrust \/ Listen
  <2>1. UNCHANGED <<code, cfg, errCh, elapsed>> /\ listener' \in {"starting", listener}
    BY <1>7 DEF CheckProviderTrust, Listen, Advance
  <2> QED
    BY <2>1 DEF Rest
<1>8. CASE Select \/ Signal
  <2>1. /\ UNCHANGED <<cfg, errCh, elapsed>>
        /\ \/ Exit(1) \/ Exit(143)
           \/ code' = code /\ listener' \in {"none", listener}
    BY <1>8 DEF Select, Signal
  <2> QED
    BY <1>2, <2>1 DEF Rest
<1>9. CASE ListenerUp \/ ListenerFails \/ ListenerLate
  BY <1>9 DEF ListenerUp, ListenerFails, ListenerLate, Rest
<1>10. CASE Drain
  BY <1>10, GatewayConfig DEF Drain, Rest
<1>11. CASE Drained \/ DrainGivesUp
  <2>1. UNCHANGED <<cfg, errCh, elapsed>> /\ (Exit(0) \/ Exit(1))
    BY <1>11 DEF Drained, DrainGivesUp
  <2> QED
    BY <1>2, <2>1
<1>12. ASSUME NEW c \in Conn,
              \/ \E request \in Requests : Accept(c, request)
              \/ Serve(c) \/ Done(c)
              \/ \E reply \in Replies : Return(c, reply)
       PROVE  Rest'
  <2>1. UNCHANGED process
    BY <1>12 DEF Accept, Serve, Done, Return
  <2> QED
    BY <1>4, <2>1
<1>13. CASE UNCHANGED vars
  BY <1>4, <1>13 DEF vars, process
<1> QED
  BY <1>5, <1>6, <1>7, <1>8, <1>9, <1>10, <1>11, <1>12, <1>13 DEF Next, Main

\* Type correctness: whatever environments it may be started with and however many
\* connections there are, every variable of the gateway stays in its set.
THEOREM GatewayTyped == Spec => []TypeOK
<1>1. Init => Rest
  <2>1. Init => cfg = None /\ listener = "none" /\ errCh = FALSE /\ elapsed = 0 /\ code = -1
    BY DEF Init
  <2>2. 0 \in 0 .. DrainTimeout
    BY GatewayConfig
  <2> QED
    BY <2>1, <2>2 DEF Rest
<1>2. GatewayInv /\ Rest => TypeOK
  BY DEF GatewayInv, Typed, Rest, TypeOK
<1> QED
  BY GatewayInvariant, GatewayRest, <1>1, <1>2, PTL DEF Spec

-----------------------------------------------------------------------------
(* The gates *)

\* Of the patterns a request below /api/ meets in the outer table, the most specific
\* one is the subtree behind the gates or one of the two routes to consent.
LEMMA GatewayApi ==
    ASSUME NEW request, Len(request.path) >= 2, request.path[1] = "api",
           NEW gated \in BOOLEAN
    PROVE  Dispatch(Outer(gated), request) \in {"api", "ContentHandler", "AcceptHandler"}
<1> DEFINE covering == {p \in Outer(gated) : Covers(p, request.path)}
           matching == {p \in covering : Admits(p, request.method)}
           spa == On(AnyMethod, <<"...">>, "spa")
           api == On(AnyMethod, <<"api", "...">>, "api")
           content == On("GET", <<"api", "tos">>, "ContentHandler")
           accept == On("POST", <<"api", "tos", "accept">>, "AcceptHandler")
           best(p) == p \in matching /\ \A q \in matching \ {p} : MoreSpecific(p, q)
<1>1. api \in matching
  <2>1. api \in Outer(gated)
    BY DEF Outer
  <2>2. Covers(api, request.path)
    <3>1. /\ Len(api.path) = 2 /\ api.path[1] = "api" /\ api.path[2] = "..."
      BY DEF On
    <3> HIDE DEF api
    <3>2. \A i \in 1 .. 2 : i = 1 \/ i = 2
      OBVIOUS
    <3> QED
      BY <3>1, <3>2 DEF Covers
  <2>3. Admits(api, request.method)
    BY DEF Admits, On
  <2> QED
    BY <2>1, <2>2, <2>3
<1>2. ASSUME NEW p \in Outer(gated), Covers(p, request.path)
      PROVE  p \in {spa, api, content, accept}
  <2>1. p.path[1] \in {"...", "api", "*"}
    <3>1. Len(p.path) \in {1, 2, 3}
      BY <1>2 DEF Outer, ConsentRoutes, On
    <3>2. \A n \in {1, 2, 3} : 1 \in 1 .. n
      OBVIOUS
    <3>3. 1 \in 1 .. Len(p.path)
      BY <3>1, <3>2
    <3> QED
      BY <1>2, <3>3 DEF Covers
  <2>2. CASE p \in ConsentRoutes
    BY <2>2 DEF ConsentRoutes
  <2>3. CASE p \notin ConsentRoutes
    BY <1>2, <2>1, <2>3 DEF Outer, On
  <2> QED
    BY <2>2, <2>3
<1>3. /\ MoreSpecific(api, spa) /\ MoreSpecific(content, api) /\ MoreSpecific(content, spa)
      /\ MoreSpecific(accept, api) /\ MoreSpecific(accept, spa) /\ ~MoreSpecific(spa, api)
  BY DEF MoreSpecific, On
<1>4. content \in matching => accept \notin matching
  <2>1. /\ Len(content.path) = 2 /\ content.path[2] = "tos"
        /\ Len(accept.path) = 3 /\ accept.path[3] = "accept"
    BY DEF On
  <2> HIDE DEF content, accept
  <2>2. Covers(content, request.path) => Len(request.path) = 2
    BY <2>1 DEF Covers
  <2>3. Covers(accept, request.path) => Len(request.path) = 3
    BY <2>1 DEF Covers
  <2>4. /\ content \in matching => Covers(content, request.path)
        /\ accept \in matching => Covers(accept, request.path)
    OBVIOUS
  <2>5. \A n : n = 2 => n # 3
    OBVIOUS
  <2> HIDE DEF matching
  <2> QED
    BY <2>2, <2>3, <2>4, <2>5, Zenon
<1>5. spa # api /\ spa # content /\ spa # accept
  BY DEF On
<1>6. \E p : best(p)
  <2> HIDE DEF matching, spa, api, content, accept
  <2>1. matching \subseteq {spa, api, content, accept}
    BY <1>2 DEF matching
  <2>2. CASE content \in matching
    <3>1. best(content)
      BY <1>3, <1>4, <2>1, <2>2
    <3> QED
      BY <3>1
  <2>3. CASE accept \in matching
    <3>1. best(accept)
      BY <1>3, <1>4, <2>1, <2>3
    <3> QED
      BY <3>1
  <2>4. CASE content \notin matching /\ accept \notin matching
    <3>1. best(api)
      BY <1>1, <1>3, <2>1, <2>4
    <3> QED
      BY <3>1
  <2> QED
    BY <2>2, <2>3, <2>4
<1> DEFINE chosen == CHOOSE p \in matching : \A q \in matching \ {p} : MoreSpecific(p, q)
<1>7. chosen \in matching /\ \A q \in matching \ {chosen} : MoreSpecific(chosen, q)
  <2> HIDE DEF matching
  <2> QED
    BY <1>6
<1>8. chosen \in {api, content, accept}
  <2> HIDE DEF chosen
  <2>1. chosen # spa
    BY <1>1, <1>3, <1>5, <1>7
  <2>2. chosen \in {spa, api, content, accept}
    BY <1>2, <1>7
  <2> QED
    BY <2>1, <2>2
<1>9. chosen.handler \in {"api", "ContentHandler", "AcceptHandler"}
  <2> HIDE DEF chosen
  <2> QED
    BY <1>8 DEF On
<1>10. Dispatch(Outer(gated), request) = chosen.handler
  <2>1. matching # {}
    BY <1>1
  <2> HIDE DEF chosen, spa, api, content, accept
  <2> QED
    BY <2>1 DEF Dispatch, chosen
<1> QED
  BY <1>9, <1>10

\* A request the outer table sends into the gated subtree, or to consent, is below /api/.
LEMMA GatewayOther ==
    ASSUME NEW request, request.path[1] # "api", NEW gated \in BOOLEAN
    PROVE  Dispatch(Outer(gated), request) \notin {"api", "ContentHandler", "AcceptHandler"}
<1> DEFINE matching == {p \in Outer(gated) : Covers(p, request.path) /\ Admits(p, request.method)}
           elsewhere == {p \in Outer(gated) : p.handler \notin {"api", "ContentHandler", "AcceptHandler"}}
<1>1. ASSUME NEW p \in Outer(gated), p.handler \in {"api", "ContentHandler", "AcceptHandler"}
      PROVE  ~Covers(p, request.path)
  <2>1. Len(p.path) \in {1, 2, 3, 4, 6} /\ 1 \in 1 .. Len(p.path) /\ p.path[1] = "api"
    <3>1. CASE p \in ConsentRoutes
      BY <3>1 DEF ConsentRoutes, On
    <3>2. CASE p \notin ConsentRoutes
      BY <1>1, <3>2 DEF Outer, On
    <3> QED
      BY <3>1, <3>2
  <2> QED
    BY <2>1, CoversFirst
<1>2. Unambiguous(elsewhere, request)
  <2>1. matching = {p \in elsewhere : Covers(p, request.path) /\ Admits(p, request.method)}
    BY <1>1
  <2>2. Unambiguous(Outer(gated), request)
    BY OuterUnambiguous
  <2> HIDE DEF elsewhere
  <2> QED
    BY <2>1, <2>2 DEF Unambiguous
<1>3. Dispatch(elsewhere, request) = Dispatch(Outer(gated), request)
  <2>1. {p \in elsewhere : Covers(p, request.path)} = {p \in Outer(gated) : Covers(p, request.path)}
    BY <1>1
  <2> HIDE DEF elsewhere
  <2> QED
    BY <2>1 DEF Dispatch
<1>4. \A p \in elsewhere : p.handler \notin {"api", "ContentHandler", "AcceptHandler"}
  OBVIOUS
<1> HIDE DEF elsewhere
<1> QED
  BY <1>2, <1>3, <1>4, DispatchEnds

\* docs/architecture.md: "every route added under /api/ is deny-by-default".  Whatever
\* the method, exactly the requests below /api/ pass RequireAuth, so that none gets by it
\* and the shell, the login and the probes are there for who has no session; and with the
\* gate on, those pass RequireTOS too, unless they are about to consent.
THEOREM RoutesGated ==
    ASSUME NEW request, NEW gated \in BOOLEAN,
           request.path[1] = "api" => Len(request.path) >= 2
    PROVE  /\ Route(request, gated).auth <=> request.path[1] = "api"
           /\ Route(request, gated).tos => gated
           /\ request.path[1] = "api" /\ gated =>
                 \/ Route(request, gated).tos
                 \/ Route(request, gated).handler \in {"ContentHandler", "AcceptHandler"}
<1>1. CASE Dispatch(Outer(gated), request) = "api"
  BY <1>1, GatewayOther DEF Route
<1>2. CASE Dispatch(Outer(gated), request) \in {"ContentHandler", "AcceptHandler"}
  BY <1>2, GatewayOther DEF Route
<1>3. CASE Dispatch(Outer(gated), request) \notin {"api", "ContentHandler", "AcceptHandler"}
  BY <1>3, GatewayApi DEF Route
<1> QED
  BY <1>1, <1>2, <1>3

\* Whoever gets past RequireAuth unasked is not below /api/, and past RequireTOS only
\* on the way to consent.
LEMMA GatewayGates ==
    ASSUME NEW request \in Requests, request.path[1] = "api", NEW gated \in BOOLEAN
    PROVE  /\ Route(request, gated).auth = TRUE
           /\ \/ Route(request, gated).tos = gated
              \/ Route(request, gated).handler \in {"ContentHandler", "AcceptHandler"}
<1>1. Dispatch(Outer(gated), request) \in {"api", "ContentHandler", "AcceptHandler"}
  BY GatewayApi, GatewayConfig
<1>2. CASE Dispatch(Outer(gated), request) = "api"
  BY <1>2 DEF Route
<1>3. CASE Dispatch(Outer(gated), request) \in {"ContentHandler", "AcceptHandler"}
  BY <1>3 DEF Route
<1> QED
  BY <1>1, <1>2, <1>3

\* Only RequireAuth answers 401.
LEMMA GatewayNo401 ==
    /\ \A handler, request : LocalStatus(handler, request) # 401
    /\ \A handler, reply : HandlerStatus(handler, reply) # 401
<1>1. \A path : ShellStatus(path) # 401
  BY DEF ShellStatus
<1>2. ASSUME NEW handler, NEW request PROVE LocalStatus(handler, request) # 401
  <2>1. ShellStatus(request.path) # 401
    BY <1>1
  <2>2. CASE handler = "spa"
    BY <2>1, <2>2 DEF LocalStatus
  <2>3. CASE handler # "spa"
    <3>1. LocalStatus(handler, request) \in {302, 204, 404, 405, 200}
      BY <2>3 DEF LocalStatus
    <3> QED
      BY <3>1
  <2> QED
    BY <2>2, <2>3
<1>3. \A err : RecipientStatus(err) # 401
  BY DEF RecipientStatus
<1>4. \A err : ListStatus(err) # 401 /\ FolderStatus(err) # 401
  BY <1>3 DEF ListStatus, FolderStatus
<1>5. \A handler, reply : HandlerStatus(handler, reply) # 401
  BY <1>3, <1>4 DEF HandlerStatus
<1> QED
  BY <1>2, <1>5

-----------------------------------------------------------------------------
(* Deny by default *)

Early == {"Load", "NewOIDCAuth", "newProvider", "checkProviderTrust", "NewManager", "listen"}

\* What is known of a request by the handler that has it: below /api/ it has passed the
\* gates, and a 401 is RequireAuth's.
Passed(x) ==
    /\ x.phase \in {"idle", "accepted"} => x.handler = Nobody /\ x.status = 0
    /\ x.handler \notin {"RequireAuth", "RequireTOS", Nobody} /\ x.request.path[1] = "api"
          => /\ x.session = TRUE
             /\ gate = TRUE => x.consent = TRUE \/ x.handler \in {"ContentHandler", "AcceptHandler"}
    /\ x.status = 401 => x.session = FALSE

\* There are no requests before the gate is settled.
Quiet == stage \in Early => \A c \in Conn : conn[c].phase = "idle"

GatedInv == GatewayInv /\ Quiet /\ \A c \in Conn : Passed(conn[c])

\* A step of the process leaves the requests what they are, or cuts them off.
LEMMA GatedProcess ==
    ASSUME GatedInv, GatewayInv', gate' = gate \/ stage = "NewManager",
           stage' \in Early => stage \in Early /\ conn' = conn,
           \/ conn' = conn
           \/ conn' = [c \in Conn |-> IF c \in Active THEN [conn[c] EXCEPT !.phase = "cut"]
                                                      ELSE conn[c]]
    PROVE  GatedInv'
<1>1. conn \in [Conn -> Exchange] /\ conn' \in [Conn -> Exchange]
  BY DEF GatedInv, GatewayInv, Typed
<1>2. ASSUME NEW c \in Conn
      PROVE  /\ conn'[c].phase = conn[c].phase \/ conn'[c].phase = "cut"
             /\ conn'[c].handler = conn[c].handler /\ conn'[c].request = conn[c].request
             /\ conn'[c].session = conn[c].session /\ conn'[c].consent = conn[c].consent
             /\ conn'[c].status = conn[c].status
  <2>1. CASE conn'[c] = [conn[c] EXCEPT !.phase = "cut"]
    BY <1>1, <2>1 DEF Exchange
  <2>2. CASE conn'[c] = conn[c]
    BY <2>2
  <2> QED
    BY <2>1, <2>2
<1>3. ASSUME NEW c \in Conn PROVE Passed(conn[c])'
  <2>1. Passed(conn[c])
    BY DEF GatedInv
  <2>2. CASE gate' = gate
    BY <1>2, <2>1, <2>2 DEF Passed
  <2>3. CASE stage = "NewManager"
    <3>1. conn[c].phase = "idle"
      BY <2>3 DEF GatedInv, Quiet, Early
    <3> QED
      BY <1>2, <2>1, <3>1 DEF Passed
  <2> QED
    BY <2>2, <2>3
<1>4. Quiet'
  BY DEF GatedInv, Quiet
<1> QED
  BY <1>3, <1>4 DEF GatedInv

\* A step of one request keeps what is known of the others.
LEMMA GatedRequest ==
    ASSUME GatedInv, GatewayInv', NEW c \in Conn, UNCHANGED process,
           \A d \in Conn : d # c => conn'[d] = conn[d], Passed(conn[c])',
           stage \notin Early \/ conn'[c].phase = "idle"
    PROVE  GatedInv'
<1>1. stage' = stage /\ gate' = gate
  BY DEF process
<1>2. ASSUME NEW d \in Conn, d # c PROVE Passed(conn[d])'
  <2>1. Passed(conn[d]) /\ conn'[d] = conn[d]
    BY <1>2 DEF GatedInv
  <2> QED
    BY <1>1, <2>1 DEF Passed
<1>3. Quiet'
  BY <1>1 DEF GatedInv, Quiet
<1> QED
  BY <1>2, <1>3 DEF GatedInv

\* A handler gets a request below /api/ only through the gates.
LEMMA GatedServe ==
    ASSUME GatedInv, GatewayInv', NEW c \in Conn, Serve(c)
    PROVE  GatedInv'
<1> DEFINE request == conn[c].request
           route == Route(request, gate)
           handler == route.handler
<1>1. /\ conn[c].phase = "accepted" /\ UNCHANGED process /\ conn[c] \in Exchange
      /\ conn \in [Conn -> Exchange] /\ gate \in BOOLEAN /\ gate' = gate
      /\ request \in Requests /\ Passed(conn[c])
  BY DEF Serve, process, GatedInv, GatewayInv, Typed
<1>2. conn[c].session \in BOOLEAN /\ conn[c].consent \in BOOLEAN /\ conn[c].status = 0
  BY <1>1 DEF Exchange, Passed
<1>3. stage \notin Early
  BY <1>1 DEF GatedInv, Quiet
<1>4. ASSUME NEW h, NEW status, Answered(c, h, status),
             status = 401 => conn[c].session = FALSE,
             h \notin {"RequireAuth", "RequireTOS", Nobody} /\ request.path[1] = "api" =>
                /\ conn[c].session = TRUE
                /\ gate = TRUE => conn[c].consent = TRUE \/ h \in {"ContentHandler", "AcceptHandler"}
      PROVE  GatedInv'
  <2>1. /\ conn'[c].phase = "answered" /\ conn'[c].handler = h /\ conn'[c].status = status
        /\ conn'[c].request = request /\ conn'[c].session = conn[c].session
        /\ conn'[c].consent = conn[c].consent
        /\ \A d \in Conn : d # c => conn'[d] = conn[d]
    BY <1>1, <1>4 DEF Answered, Exchange
  <2>2. Passed(conn[c])'
    BY <1>1, <1>4, <2>1 DEF Passed
  <2> QED
    BY <1>1, <1>3, <2>1, <2>2, GatedRequest
<1>5. CASE Answered(c, "RequireAuth", 401) /\ conn[c].session = FALSE
  BY <1>4, <1>5
<1>6. CASE Answered(c, "RequireTOS", 403)
  <2>1. /\ conn'[c].phase = "answered" /\ conn'[c].handler = "RequireTOS"
        /\ conn'[c].status = 403 /\ \A d \in Conn : d # c => conn'[d] = conn[d]
    BY <1>1, <1>6 DEF Answered, Exchange
  <2>2. Passed(conn[c])'
    BY <2>1 DEF Passed
  <2> QED
    BY <1>1, <1>3, <2>1, <2>2, GatedRequest
<1>7. ASSUME request.path[1] = "api",
             ~(route.auth /\ ~conn[c].session),
             ~(route.tos /\ conn[c].session /\ ~conn[c].consent)
      PROVE  /\ conn[c].session = TRUE
             /\ gate = TRUE => conn[c].consent = TRUE
                                  \/ handler \in {"ContentHandler", "AcceptHandler"}
  <2>1. /\ route.auth = TRUE
        /\ route.tos = gate \/ handler \in {"ContentHandler", "AcceptHandler"}
    BY <1>1, <1>7, GatewayGates
  <2> HIDE DEF route
  <2>2. conn[c].session = TRUE
    BY <1>2, <1>7, <2>1
  <2>3. CASE route.tos = gate
    BY <1>2, <1>7, <2>2, <2>3
  <2> QED
    BY <2>1, <2>2, <2>3
<1>8. CASE /\ Answered(c, handler, LocalStatus(handler, request))
           /\ ~(route.auth /\ ~conn[c].session)
           /\ ~(route.tos /\ conn[c].session /\ ~conn[c].consent)
  <2>1. LocalStatus(handler, request) # 401
    BY GatewayNo401
  <2> HIDE DEF handler, route
  <2> QED
    BY <1>4, <1>7, <1>8, <2>1
<1>9. CASE /\ conn' = [conn EXCEPT ![c].phase = "calling", ![c].handler = handler]
           /\ ~(route.auth /\ ~conn[c].session)
           /\ ~(route.tos /\ conn[c].session /\ ~conn[c].consent)
  <2> HIDE DEF handler, route
  <2>1. /\ conn'[c].phase = "calling" /\ conn'[c].handler = handler /\ conn'[c].status = 0
        /\ conn'[c].request = request /\ conn'[c].session = conn[c].session
        /\ conn'[c].consent = conn[c].consent
        /\ \A d \in Conn : d # c => conn'[d] = conn[d]
    BY <1>1, <1>2, <1>9 DEF Exchange
  <2>2. request.path[1] = "api" =>
           /\ conn[c].session = TRUE
           /\ gate = TRUE => conn[c].consent = TRUE
                                \/ handler \in {"ContentHandler", "AcceptHandler"}
    BY <1>7, <1>9
  <2> HIDE DEF request
  <2>3. Passed(conn[c])'
    BY <1>1, <2>1, <2>2 DEF Passed
  <2> QED
    BY <1>1, <1>3, <2>1, <2>3, GatedRequest
<1>10. \/ Answered(c, "RequireAuth", 401) /\ conn[c].session = FALSE
       \/ Answered(c, "RequireTOS", 403)
       \/ /\ ~(route.auth /\ ~conn[c].session)
          /\ ~(route.tos /\ conn[c].session /\ ~conn[c].consent)
          /\ \/ Answered(c, handler, LocalStatus(handler, request))
             \/ conn' = [conn EXCEPT ![c].phase = "calling", ![c].handler = handler]
  BY <1>2 DEF Serve
<1> QED
  BY <1>5, <1>6, <1>8, <1>9, <1>10

\* Every step keeps what is known of the requests.
LEMMA GatedStep ==
    ASSUME GatedInv, GatewayInv', [Next]_vars
    PROVE  GatedInv'
<1>1. CASE UNCHANGED vars
  <2>1. gate' = gate /\ stage' = stage /\ conn' = conn
    BY <1>1 DEF vars
  <2> QED
    BY <2>1, GatedProcess
<1>2. CASE \/ Main \/ NewOIDCAuth \/ ListenerUp \/ ListenerFails \/ ListenerLate \/ Signal
  <2>1. gate' = gate \/ stage = "NewManager"
    BY <1>2 DEF Main, Load, NewOIDCAuth, Abandon, NewProvider, CheckProviderTrust, NewManager,
       Listen, Select, Drain, Drained, DrainGivesUp, ListenerUp, ListenerFails, ListenerLate,
       Signal
  <2>2. \/ \E status \in {0, 1, 143} : Exit(status)
        \/ conn' = conn /\ (stage' \in Early => stage \in Early)
    BY <1>2 DEF Main, Load, NewOIDCAuth, Abandon, NewProvider, CheckProviderTrust, NewManager,
       Listen, Select, Drain, Drained, DrainGivesUp, ListenerUp, ListenerFails, ListenerLate,
       Signal, Advance, Early
  <2>3. CASE \E status \in {0, 1, 143} : Exit(status)
    BY <2>1, <2>3, GatedProcess DEF Exit, Early
  <2> QED
    BY <2>1, <2>2, <2>3, GatedProcess
<1>3. ASSUME NEW c \in Conn, NEW request \in Requests, Accept(c, request) PROVE GatedInv'
  <2>1. PICK session \in BOOLEAN, consent \in BOOLEAN :
            conn' = [conn EXCEPT ![c] = [Free EXCEPT !.phase = "accepted",
                        !.request = request, !.session = session, !.consent = consent]]
    BY <1>3 DEF Accept
  <2> DEFINE x == [Free EXCEPT !.phase = "accepted", !.request = request,
                               !.session = session, !.consent = consent]
  <2>2. x \in Exchange /\ x.phase = "accepted" /\ x.handler = Nobody /\ x.status = 0
    BY GatewayFree DEF Exchange
  <2>3. conn' = [conn EXCEPT ![c] = x]
    BY <2>1
  <2> HIDE DEF x
  <2>4. conn'[c] = x /\ \A d \in Conn : d # c => conn'[d] = conn[d]
    BY <2>3 DEF GatedInv, GatewayInv, Typed
  <2>5. Passed(conn[c])'
    BY <2>2, <2>4 DEF Passed
  <2>6. stage \notin Early /\ UNCHANGED process
    BY <1>3 DEF Accept, Early
  <2> QED
    BY <2>4, <2>5, <2>6, GatedRequest
<1>4. ASSUME NEW c \in Conn, Done(c) PROVE GatedInv'
  <2>1. conn'[c] = Free /\ \A d \in Conn : d # c => conn'[d] = conn[d]
    BY <1>4 DEF Done, GatedInv, GatewayInv, Typed
  <2>2. Passed(conn[c])'
    BY <2>1, GatewayFree DEF Passed
  <2> QED
    BY <1>4, <2>1, <2>2, GatewayFree, GatedRequest DEF Done
<1>5. ASSUME NEW c \in Conn, NEW reply \in Replies, Return(c, reply) PROVE GatedInv'
  <2> DEFINE status == HandlerStatus(conn[c].handler, reply)
  <2>1. /\ conn[c].phase = "calling" /\ UNCHANGED process
        /\ Answered(c, conn[c].handler, status)
    BY <1>5 DEF Return
  <2>2. status # 401
    BY GatewayNo401
  <2> HIDE DEF status
  <2>3. conn[c] \in Exchange /\ conn \in [Conn -> Exchange] /\ Passed(conn[c]) /\ gate' = gate
    BY <2>1 DEF GatedInv, GatewayInv, Typed, process
  <2>4. /\ conn'[c].phase = "answered" /\ conn'[c].handler = conn[c].handler
        /\ conn'[c].status = status /\ conn'[c].request = conn[c].request
        /\ conn'[c].session = conn[c].session /\ conn'[c].consent = conn[c].consent
        /\ \A d \in Conn : d # c => conn'[d] = conn[d]
    BY <2>1, <2>3 DEF Answered, Exchange
  <2>5. Passed(conn[c])'
    BY <2>2, <2>3, <2>4 DEF Passed
  <2>6. stage \notin Early
    BY <2>1 DEF GatedInv, Quiet
  <2> QED
    BY <2>1, <2>4, <2>5, <2>6, GatedRequest
<1> QED
  BY <1>1, <1>2, <1>3, <1>4, <1>5, GatedServe DEF Next

\* The gates are passed by whoever is answered, throughout.
THEOREM GatedInvariant == Spec => []GatedInv
<1>1. Init => GatedInv
  <2> SUFFICES ASSUME Init PROVE GatedInv
    OBVIOUS
  <2>1. \A c \in Conn : conn[c] = Free
    BY DEF Init
  <2>2. \A c \in Conn : Passed(conn[c])
    BY <2>1, GatewayFree DEF Passed
  <2>3. Quiet
    BY <2>1, GatewayFree DEF Quiet
  <2> QED
    BY <2>2, <2>3, GatewayInit DEF GatedInv
<1>2. GatedInv /\ [Next]_vars => GatedInv'
  <2>1. GatedInv => GatewayInv
    BY DEF GatedInv
  <2> QED
    BY <2>1, GatewayStep, GatedStep
<1> QED
  BY <1>1, <1>2, PTL DEF Spec

\* Nothing below /api/ is answered by a handler, or gets as far as the provider, without
\* a session and, with the gate on, consent; and only the gate answers 401.
THEOREM GatewayDenyByDefault == Spec => []DenyByDefault
<1>1. GatedInv => DenyByDefault
  <2> SUFFICES ASSUME GatedInv, NEW c \in Conn
               PROVE  /\ /\ conn[c].phase \in {"calling", "answered", "cut"}
                         /\ conn[c].request.path[1] = "api"
                         /\ conn[c].handler \notin {"RequireAuth", "RequireTOS", ""}
                         => /\ conn[c].session
                            /\ gate => conn[c].consent
                                  \/ conn[c].handler \in {"ContentHandler", "AcceptHandler"}
                      /\ conn[c].status = 401 => ~conn[c].session
    BY Zenon DEF DenyByDefault
  <2>1. Passed(conn[c])
    BY DEF GatedInv
  <2>2. /\ conn[c].status = 401 => ~conn[c].session
        /\ conn[c].handler \notin {"RequireAuth", "RequireTOS", Nobody}
              /\ conn[c].request.path[1] = "api"
           => /\ conn[c].session
              /\ gate => conn[c].consent
                    \/ conn[c].handler \in {"ContentHandler", "AcceptHandler"}
    BY <2>1, Zenon DEF Passed
  <2> QED
    BY <2>2, Zenon DEF Nobody
<1> QED
  BY GatedInvariant, <1>1, PTL
=============================================================================
