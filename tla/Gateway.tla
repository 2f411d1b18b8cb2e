------------------------------ MODULE Gateway ------------------------------
(***************************************************************************)
(* The process of the gateway from start to exit (cmd/atrium/main.go,      *)
(* Load of internal/config/config.go, NewOIDCAuth, NewManager) with the    *)
(* requests it has in flight, each on its way through Routing, RequireAuth *)
(* and RequireTOS to a handler and, for most of them, to the provider.     *)
(*                                                                         *)
(* Main starts up step by step and then waits for whichever comes first, a *)
(* listener that failed or a signal; a signal before that ends the start   *)
(* through the context it cancels.                                         *)
(***************************************************************************)
EXTENDS Routing, ProviderStatus

CONSTANTS
    Conn,            \* connections
    Requests,        \* what is asked of the gateway: [method, path]
    Environments,    \* what it may be started with, see Environment
    DefaultLifetime, \* SESSION_ABSOLUTE_TTL when unset
    DrainTimeout,    \* of Shutdown
    Unset, None      \* of a variable of the environment; nothing

\* The environment, as far as Load and the start-up tell it apart: are the required
\* variables there, OIDC_REDIRECT_URI absolute, SESSION_KEY long enough, the
\* provider's type, address and key usable, and all other values well-formed?  A
\* duration that does not parse counts as negative.
Environment ==
    [required : BOOLEAN, redirect : BOOLEAN, key : BOOLEAN, provider : BOOLEAN,
     others : BOOLEAN, absolute : Int \cup {Unset}, idle : Int \cup {Unset},
     tos : {Unset, "false", "true", "junk"}, tosPath : {Unset, "missing", "readable"}]

ASSUME GatewayConfig ==
    /\ Environments \subseteq Environment
    /\ DefaultLifetime \in Nat \ {0} /\ DrainTimeout \in Nat
    /\ None \notin Requests /\ None \notin [absolute : Nat, idle : Nat, tos : BOOLEAN]
    \* ServeMux redirects the bare /api to /api/.
    /\ \A request \in Requests : request.path[1] = "api" => Len(request.path) >= 2

VARIABLES
    env,       \* the environment
    cfg,       \* what Load made of it: None or a Config
    stage,     \* where main is
    gate,      \* is the consent gate on (tosMgr is not nil)?
    signalled, \* is the context of NotifyContext done?
    listener,  \* the goroutine of ListenAndServe
    errCh,     \* does errCh hold an error?
    elapsed,   \* time Shutdown has waited
    code,      \* exit status
    conn       \* connection -> the request on it

vars == <<env, cfg, stage, gate, signalled, listener, errCh, elapsed, code, conn>>

Stages == {"Load", "NewOIDCAuth", "newProvider", "checkProviderTrust", "NewManager",
           "listen", "select", "Shutdown", "exited"}

Config == [absolute : Nat, idle : Nat, tos : BOOLEAN]

\* Who answers a request, the empty name for nobody yet, and with which status.
Handler == Endings \cup {"", "RequireAuth", "RequireTOS"}
Status  == {0, 200, 204, 302, 401, 403, 404, 405, 410, 500, 502, 503}

\* session and consent: does the request carry a valid cookie of that kind?
Exchange ==
    [phase : {"idle", "accepted", "calling", "answered", "cut"},
     request : Requests \cup {None}, session : BOOLEAN, consent : BOOLEAN,
     handler : Handler, status : Status]

Free == [phase |-> "idle", request |-> None, session |-> FALSE, consent |-> FALSE,
         handler |-> "", status |-> 0]

Active == {c \in Conn : conn[c].phase \in {"accepted", "calling"}}

-----------------------------------------------------------------------------
(* Start-up *)

\* The process ends, and with it whatever it was doing for anybody.
Exit(status) ==
    /\ stage' = "exited"
    /\ code' = status
    /\ listener' = "none"
    /\ conn' = [c \in Conn |-> IF c \in Active THEN [conn[c] EXCEPT !.phase = "cut"]
                                               ELSE conn[c]]

Advance(next) == stage' = next /\ UNCHANGED <<code, listener, conn>>

Absolute(e) == IF e.absolute = Unset THEN DefaultLifetime ELSE e.absolute
Idle(e) == IF e.idle = Unset THEN 0 ELSE e.idle

\* Mutant: a negative lifetime is let through.
AcceptableSigns(e) ==
    /\ e.required /\ e.redirect /\ e.key
    /\ Idle(e) <= Absolute(e)
    /\ e.tos # "junk" /\ (e.tos = "true" => e.tosPath # Unset)
    /\ e.others

\* Does Load accept the environment?  Its checks have no effect, whatever their order.
Acceptable(e) ==
    /\ e.required /\ e.redirect /\ e.key
    /\ Absolute(e) > 0 /\ Idle(e) >= 0 /\ Idle(e) <= Absolute(e)
    /\ e.tos # "junk" /\ (e.tos = "true" => e.tosPath # Unset)
    /\ e.others

Load ==
    /\ stage = "Load"
    /\ IF Acceptable(env)
       THEN /\ cfg' = [absolute |-> Absolute(env), idle |-> Idle(env),
                       tos |-> env.tos = "true"]
            /\ Advance("NewOIDCAuth")
       ELSE /\ Exit(1)
            /\ UNCHANGED cfg
    /\ UNCHANGED <<env, gate, signalled, errCh, elapsed>>

\* Discovery at the identity provider, which may refuse, or never answer.
NewOIDCAuth ==
    /\ stage = "NewOIDCAuth"
    /\ Advance("newProvider") \/ Exit(1)
    /\ UNCHANGED <<env, cfg, gate, signalled, errCh, elapsed>>

\* The signal's context ends a discovery that does not answer.
Abandon ==
    /\ stage = "NewOIDCAuth" /\ signalled
    /\ Exit(1)
    /\ UNCHANGED <<env, cfg, gate, signalled, errCh, elapsed>>

NewProvider ==
    /\ stage = "newProvider"
    /\ IF env.provider THEN Advance("checkProviderTrust") ELSE Exit(1)
    /\ UNCHANGED <<env, cfg, gate, signalled, errCh, elapsed>>

\* Whatever the provider says within five seconds, the start goes on.
CheckProviderTrust ==
    /\ stage = "checkProviderTrust"
    /\ Advance(IF cfg.tos THEN "NewManager" ELSE "listen")
    /\ UNCHANGED <<env, cfg, gate, signalled, errCh, elapsed>>

\* Mutant: without a document the gateway starts with the gate switched off.
NewManagerFailsOpen ==
    /\ stage = "NewManager"
    /\ Advance("listen")
    /\ gate' = (env.tosPath = "readable")
    /\ UNCHANGED <<env, cfg, signalled, errCh, elapsed>>

NewManager ==
    /\ stage = "NewManager"
    /\ IF env.tosPath = "readable"
       THEN Advance("listen") /\ gate' = TRUE
       ELSE Exit(1) /\ UNCHANGED gate
    /\ UNCHANGED <<env, cfg, signalled, errCh, elapsed>>

-----------------------------------------------------------------------------
(* Running *)

\* The listener's goroutine is started, and main goes on to its select.
Listen ==
    /\ stage = "listen"
    /\ stage' = "select"
    /\ listener' = "starting"
    /\ UNCHANGED <<env, cfg, gate, signalled, errCh, elapsed, code, conn>>

ListenerUp ==
    /\ listener = "starting" /\ stage = "select"
    /\ listener' = "listening"
    /\ UNCHANGED <<env, cfg, stage, gate, signalled, errCh, elapsed, code, conn>>

\* The address is taken, or accepting fails for good.
ListenerFails ==
    /\ listener \in {"starting", "listening"} /\ stage \in {"select", "Shutdown"}
    /\ listener' = "failed"
    /\ errCh' = TRUE
    /\ UNCHANGED <<env, cfg, stage, gate, signalled, elapsed, code, conn>>

\* During Load there is no handler for the signal yet; later it only ends the
\* context, and a second one does nothing.
Signal ==
    /\ stage # "exited" /\ ~signalled
    /\ signalled' = TRUE
    /\ IF stage = "Load" THEN Exit(143) ELSE UNCHANGED <<stage, code, listener, conn>>
    /\ UNCHANGED <<env, cfg, gate, errCh, elapsed>>

\* The select: either case when both are ready.
Select ==
    /\ stage = "select"
    /\ \/ errCh /\ Exit(1)
       \/ /\ signalled
          /\ stage' = "Shutdown"
          /\ listener' = IF listener = "listening" THEN "none" ELSE listener
          /\ UNCHANGED <<code, conn>>
    /\ UNCHANGED <<env, cfg, gate, signalled, errCh, elapsed>>

\* A server that starts to listen after Shutdown was called does not.
ListenerLate ==
    /\ listener = "starting" /\ stage = "Shutdown"
    /\ listener' = "none"
    /\ UNCHANGED <<env, cfg, stage, gate, signalled, errCh, elapsed, code, conn>>

Drain ==
    /\ stage = "Shutdown" /\ elapsed < DrainTimeout
    /\ elapsed' = elapsed + 1
    /\ UNCHANGED <<env, cfg, stage, gate, signalled, listener, errCh, code, conn>>

\* Nothing is under way any more.
Drained ==
    /\ stage = "Shutdown" /\ Active = {}
    /\ Exit(0)
    /\ UNCHANGED <<env, cfg, gate, signalled, errCh, elapsed>>

\* Mutant: the error of Shutdown is dropped.
DrainGivesUpQuietly ==
    /\ stage = "Shutdown" /\ elapsed >= DrainTimeout
    /\ Exit(0)
    /\ UNCHANGED <<env, cfg, gate, signalled, errCh, elapsed>>

\* Mutant: Shutdown waits as long as it takes.
DrainNeverGivesUp ==
    /\ stage = "Shutdown" /\ Active = {} /\ elapsed >= DrainTimeout
    /\ Exit(1)
    /\ UNCHANGED <<env, cfg, gate, signalled, errCh, elapsed>>

\* Shutdown gives up, and main with it.
DrainGivesUp ==
    /\ stage = "Shutdown" /\ elapsed >= DrainTimeout
    /\ Exit(1)
    /\ UNCHANGED <<env, cfg, gate, signalled, errCh, elapsed>>

-----------------------------------------------------------------------------
(* Requests *)

process == <<env, cfg, stage, gate, signalled, listener, errCh, elapsed, code>>

Accept(c, request) ==
    /\ stage = "select" /\ listener = "listening"
    /\ conn[c].phase = "idle"
    /\ \E session, consent \in BOOLEAN :
          conn' = [conn EXCEPT ![c] = [Free EXCEPT !.phase = "accepted",
                      !.request = request, !.session = session, !.consent = consent]]
    /\ UNCHANGED process

Answered(c, handler, status) ==
    conn' = [conn EXCEPT ![c].phase = "answered", ![c].handler = handler,
                         ![c].status = status]

\* The handlers that ask another service before they answer.
Calling == {"handleReadyz", "CallbackHandler", "handleListShares", "handleListFolder",
            "HandleDownload", "HandleFolderFileDownload", "HandleUpload"}

\* What the other handlers answer.
LocalStatus(handler, request) ==
    CASE handler = "spa" -> ShellStatus(request.path)
      [] handler = "LoginHandler" -> 302
      [] handler = "LogoutHandler" -> 302
      [] handler = "AcceptHandler" -> 204
      [] handler = "not found" -> 404
      [] handler = "method not allowed" -> 405
      [] OTHER -> 200

\* RequireAuth, RequireTOS, and the handler up to its first call.
Serve(c) ==
    LET request == conn[c].request
        route == Route(request, gate)
    IN  /\ conn[c].phase = "accepted" /\ stage # "exited"
        /\ CASE route.auth /\ ~conn[c].session -> Answered(c, "RequireAuth", 401)
             [] route.tos /\ conn[c].session /\ ~conn[c].consent ->
                   Answered(c, "RequireTOS", 403)
             [] OTHER ->
                   IF route.handler \in Calling
                   THEN conn' = [conn EXCEPT ![c].phase = "calling",
                                             ![c].handler = route.handler]
                   ELSE Answered(c, route.handler, LocalStatus(route.handler, request))
        /\ UNCHANGED process

\* handleListShares tells apart only that the provider answered something else.
ListStatus(err) == IF err = "ErrUnexpectedStatus" THEN 502 ELSE 503

\* writeShareError.
FolderStatus(err) == IF err = "ErrUnexpectedStatus" THEN 502 ELSE RecipientStatus(err)

\* Mutant: what is no known refusal is passed on as it came.
ForwardedStatus(handler, reply) ==
    IF reply = 200 THEN 200
    ELSE LET err == MapErrorStatus(reply) IN
         IF err = "ErrUnexpectedStatus" THEN reply ELSE RecipientStatus(err)

\* What the recipient is told when the service a handler asked has answered: 200
\* for any success, 0 for no answer.
HandlerStatus(handler, reply) ==
    LET err == MapErrorStatus(reply) IN
    CASE handler = "CallbackHandler" -> 302
      [] handler = "handleReadyz" -> IF reply = 200 THEN 200 ELSE 503
      [] handler \notin {"CallbackHandler", "handleReadyz"} /\ reply = 200 -> 200
      [] handler = "handleListShares" /\ reply # 200 -> ListStatus(err)
      [] handler = "handleListFolder" /\ reply # 200 -> FolderStatus(err)
      [] OTHER -> RecipientStatus(err)

\* The service answers, or fails to, and the response is written to its end.
Return(c, reply) ==
    /\ conn[c].phase = "calling" /\ stage # "exited"
    /\ Answered(c, conn[c].handler, HandlerStatus(conn[c].handler, reply))
    /\ UNCHANGED process

\* The connection is free for another request.
Done(c) ==
    /\ conn[c].phase = "answered"
    /\ conn' = [conn EXCEPT ![c] = Free]
    /\ UNCHANGED process

-----------------------------------------------------------------------------

Init ==
    /\ env \in Environments /\ cfg = None
    /\ stage = "Load" /\ gate = FALSE /\ signalled = FALSE
    /\ listener = "none" /\ errCh = FALSE
    /\ elapsed = 0 /\ code = -1
    /\ conn = [c \in Conn |-> Free]

Main == \/ Load \/ NewProvider \/ CheckProviderTrust \/ NewManager
        \/ Listen \/ Select \/ Abandon \/ Drain \/ Drained \/ DrainGivesUp

\* Any answer but a success: the refusals, and a provider that wants a token.
Replies == Refusals \cup {200, 401}

Next ==
    \/ Main \/ NewOIDCAuth
    \/ ListenerUp \/ ListenerFails \/ ListenerLate \/ Signal
    \/ \E c \in Conn :
          \/ \E request \in Requests : Accept(c, request)
          \/ Serve(c) \/ Done(c)
          \/ \E reply \in Replies : Return(c, reply)

Spec == Init /\ [][Next]_vars

\* Main goes on whenever it can; nothing is asked of the two providers, the
\* recipients or the network.
FairSpec == Spec /\ WF_vars(Main)

-----------------------------------------------------------------------------
(* Properties *)

\* The type of the state.
TypeOK ==
    /\ env \in Environments /\ cfg \in Config \cup {None}
    /\ stage \in Stages /\ {gate, signalled, errCh} \subseteq BOOLEAN
    /\ listener \in {"none", "starting", "listening", "failed"}
    /\ elapsed \in 0 .. DrainTimeout
    /\ code \in {-1, 0, 1, 143}
    /\ conn \in [Conn -> Exchange]

\* docs/architecture.md: "every route added under /api/ is deny-by-default".  Nothing
\* below /api/ is answered by a handler, or gets as far as asking the provider, for a
\* request without a session, nor, with the gate on, without consent; except that
\* consent itself takes only a session.  And the refusals are the gate's alone: with a
\* valid session there is no 401, which would send the frontend to the login, whatever
\* the provider answers.
DenyByDefault ==
    \A c \in Conn : LET x == conn[c] IN
        /\ /\ x.phase \in {"calling", "answered", "cut"} /\ x.request.path[1] = "api"
           /\ x.handler \notin {"RequireAuth", "RequireTOS", ""}
           => /\ x.session
              /\ gate => x.consent \/ x.handler \in {"ContentHandler", "AcceptHandler"}
        /\ x.status = 401 => ~x.session

\* A deployment that is configured wrongly does not start (main.go: "startup fails
\* fast"): whoever listens has lifetimes that fit each other, and the gate on exactly
\* when it was asked for.
StartsAsConfigured ==
    listener \in {"starting", "listening"} =>
        /\ cfg.absolute > 0 /\ cfg.idle \in 0 .. cfg.absolute
        /\ gate = (env.tos = "true")
        /\ env.key /\ env.provider

\* An exit status of 0 means that a signal was asked for it and that no request was
\* cut off.
CleanExit ==
    code = 0 => signalled /\ \A c \in Conn : conn[c].phase # "cut"

\* A signal ends the process, whatever the recipients and the providers do, and so
\* does a listener that failed.
Terminates == (signalled \/ listener = "failed") ~> (stage = "exited")
=============================================================================
