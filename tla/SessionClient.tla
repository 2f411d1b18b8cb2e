--------------------------- MODULE SessionClient ---------------------------
(***************************************************************************)
(* The countdown of the recipient frontend (web/src/lib/session.ts,        *)
(* useSessionExpiry.ts, SessionTimeout.tsx) on top of Session: several     *)
(* tabs of the one browser, which share the jar and, in localStorage, the  *)
(* time at which they believe the session will end.                        *)
(*                                                                         *)
(* The belief is put together from the header of every response the        *)
(* frontend reads, from a guess for every download, whose response it      *)
(* never reads, and is dropped when a page is loaded after it has passed.  *)
(* A tab whose clock reaches it leaves for the logged-out page.            *)
(*                                                                         *)
(* A request takes no longer than Latency, except for an upload: it is let *)
(* in when it starts, which is when the cookie moves and the deadline is   *)
(* computed, and answered whenever the provider has the file.              *)
(***************************************************************************)
EXTENDS Session

CONSTANTS
    Tab,       \* tabs of the browser
    MaxCalls,  \* bound: requests of the frontend
    Latency    \* no request takes longer than this, except for an upload

ASSUME ClientConfig ==
    Latency \in Nat /\ MaxCalls \in Nat /\ None \notin Tab

VARIABLES
    deadline, \* localStorage: when the session ends; 0: nothing known
    page,     \* tab -> what it shows
    call,     \* connection -> which page waits for it and what for
    calls,    \* requests so far
    basis,    \* history: what the deadline was computed from, and of which login
    heard     \* history: how the frontend learned of the session in the jar

clientVars == <<deadline, page, call, calls, basis, heard>>
allVars == <<vars, clientVars>>

\* app: the frontend; away: anything else, the logged-out page included.
Pages == {"app", "away"}

\* fetch and upload: the page reads the response; download: the browser saves it;
\* navigation: it replaces the page.
Uses == {"none", "fetch", "upload", "download", "navigation"}
Read == {"fetch", "upload"}

Call == [tab : Tab \cup {None}, use : Uses, at : Nat]
NoCall == [tab |-> None, use |-> "none", at |-> 0]

-----------------------------------------------------------------------------
(* session.ts *)

\* Mutant: the newest reading is taken, also when it is the older one.
ExtendAnyway(at) == at

\* The deadline only ever moves forward.
ExtendTo(at) == IF deadline >= at THEN deadline ELSE at

\* What a page is told by a response it reads; -1 is a missing header.
NoteExpiresIn(expiresIn) ==
    IF expiresIn < 0 THEN deadline ELSE ExtendTo(now + Second * expiresIn)

\* Mutant: the idle window is added to the deadline instead of to the present.
NoteUnreadPushes == IF IdleTTL > 0 THEN ExtendTo(deadline + IdleTTL) ELSE deadline

\* What a page notes about a response it will not read.
NoteUnreadRequest == IF IdleTTL > 0 THEN ExtendTo(now + IdleTTL) ELSE deadline

ForgetExpiredDeadline == IF deadline <= now THEN 0 ELSE deadline

-----------------------------------------------------------------------------
(* The tabs *)

\* The calls once nobody on t waits for theirs any more.
Orphaned(t) == [c \in Conn |-> IF call[c].tab = t THEN [call[c] EXCEPT !.tab = None]
                                                 ELSE call[c]]

Ask(waiting, c, t, use) ==
    /\ calls < MaxCalls
    /\ calls' = calls + 1
    /\ call' = [waiting EXCEPT ![c] = [tab |-> t, use |-> use, at |-> now]]

\* What the deadline is based on when it is computed from the cookie s (0: no login),
\* told by a response that took so long.
Basis(use, s, took) ==
    [use |-> use, login |-> IF s = None THEN 0 ELSE s.login, took |-> took]

\* The frontend is loaded: it forgets a deadline that has passed and asks for the
\* recipient and their shares.
Load(t, c) ==
    /\ page[t] # "app"
    /\ \A d \in Conn : call[d].tab # t
    /\ Send(c, "api")
    /\ Ask(call, c, t, "fetch")
    /\ page' = [page EXCEPT ![t] = "app"]
    /\ deadline' = ForgetExpiredDeadline
    /\ UNCHANGED <<basis, heard>>

\* Any request of getJSON or acceptTos; also the button of the warning.
Fetch(t, c) ==
    /\ page[t] = "app"
    /\ Send(c, "api")
    /\ Ask(call, c, t, "fetch")
    /\ UNCHANGED <<deadline, page, basis, heard>>

\* uploadFile: the file is on its way until the answer comes.
Upload(t, c) ==
    /\ page[t] = "app"
    /\ Send(c, "api")
    /\ Ask(call, c, t, "upload")
    /\ UNCHANGED <<deadline, page, basis, heard>>

\* startDownload: the link is clicked after the deadline has been moved.
StartDownload(t, c) ==
    /\ page[t] = "app"
    /\ Send(c, "api")
    /\ Ask(call, c, t, "download")
    /\ deadline' = NoteUnreadRequest
    /\ basis' = IF deadline' # deadline THEN Basis("download", JarSession, 0) ELSE basis
    /\ UNCHANGED <<page, heard>>

\* Signing in, from a page that is not the frontend.
SignIn(t, c) ==
    /\ page[t] = "away"
    /\ Send(c, "callback")
    /\ Ask(Orphaned(t), c, t, "navigation")
    /\ UNCHANGED <<deadline, page, basis, heard>>

\* The form of the menu is submitted: the page stays until the answer replaces it.
SignOut(t, c) ==
    /\ page[t] = "app"
    /\ Send(c, "logout")
    /\ Ask(call, c, t, "navigation")
    /\ UNCHANGED <<deadline, page, basis, heard>>

\* Has the countdown of t run out?
Expired(t) == IdleTTL > 0 /\ page[t] = "app" /\ deadline # 0 /\ deadline <= now

\* The next tick of t finds that it has: the page leaves for the logged-out one.
Countdown(t) ==
    /\ Expired(t)
    /\ page' = [page EXCEPT ![t] = "away"]
    /\ call' = Orphaned(t)
    /\ UNCHANGED <<vars, deadline, calls, basis, heard>>

Close(t) ==
    /\ page[t] = "app"
    /\ page' = [page EXCEPT ![t] = "away"]
    /\ call' = Orphaned(t)
    /\ UNCHANGED <<vars, deadline, calls, basis, heard>>

-----------------------------------------------------------------------------
(* Requests on their way *)

Serve(c) ==
    /\ Admit(c) \/ Deny(c) \/ ServeCallback(c) \/ ServeLogout(c)
    /\ UNCHANGED clientVars

\* The jar is updated whoever waits; a page that waits reads the header first, and
\* then the status: a 401 sends it to the login, and a download that is refused is
\* no attachment, so the answer is shown in place of the page, as that of a logout is.
Receive(c) ==
    LET x == conn[c]
        t == call[c].tab
        reads == t # None /\ call[c].use \in Read
        leaves == t # None /\ IF call[c].use = "navigation" THEN x.kind = "logout"
                                                            ELSE x.verdict # "ok"
        told == call[c].use = "download" \/ (reads /\ x.expiresIn >= 0)
    IN  /\ Deliver(c)
        /\ deadline' = IF reads THEN NoteExpiresIn(x.expiresIn) ELSE deadline
        /\ basis' = IF deadline' # deadline
                    THEN Basis(call[c].use, x.cookie, now - call[c].at) ELSE basis
        /\ page' = IF leaves THEN [page EXCEPT ![t] = "away"] ELSE page
        /\ call' = [(IF leaves THEN Orphaned(t) ELSE call) EXCEPT ![c] = NoCall]
        /\ heard' = CASE x.set # None -> IF told THEN call[c].use ELSE "none"
                      [] x.set = None /\ told /\ reads /\ jar # None
                            /\ x.cookie = jar.session -> call[c].use
                      [] OTHER -> heard
        /\ UNCHANGED calls

\* What the deadline rests on once the request on c is lost: a guess that was made for
\* a download which never arrived stays, since no page is told.
BasisWithout(c) ==
    IF call[c].use = "download" /\ basis.use = "download"
    THEN [basis EXCEPT !.use = "lost"] ELSE basis

\* A request fails on its way, with or without having reached the gateway, or nobody
\* waits for it any more.
LoseCall(c) ==
    /\ Lose(c)
    /\ call' = [call EXCEPT ![c] = NoCall]
    /\ basis' = BasisWithout(c)
    /\ UNCHANGED <<deadline, page, calls, heard>>

\* Time does not pass a request by that has been under way for Latency.
Pass ==
    /\ Tick
    /\ \A c \in Conn :
          \/ call[c].use = "none" \/ now < call[c].at + Latency
          \/ call[c].use = "upload" /\ conn[c].phase = "served"
    /\ UNCHANGED clientVars

-----------------------------------------------------------------------------

ClientInit ==
    /\ Init
    /\ deadline = 0
    /\ page = [t \in Tab |-> "away"]
    /\ call = [c \in Conn |-> NoCall]
    /\ calls = 0
    /\ basis = Basis("none", None, 0)
    /\ heard = "none"

ClientNext ==
    \/ Pass
    \/ \E t \in Tab : Countdown(t) \/ Close(t)
    \/ \E c \in Conn : Serve(c) \/ Receive(c) \/ LoseCall(c)
    \/ \E t \in Tab, c \in Conn :
          \/ Load(t, c) \/ Fetch(t, c) \/ StartDownload(t, c) \/ Upload(t, c)
          \/ SignIn(t, c) \/ SignOut(t, c)

ClientSpec == ClientInit /\ [][ClientNext]_allVars

-----------------------------------------------------------------------------
(* Properties *)

\* The type of the frontend's state; the deadline is never further away than the
\* longest a session lasts.
ClientTypeOK ==
    /\ deadline \in 0 .. now + AbsoluteTTL + Second \div 2
    /\ page \in [Tab -> Pages]
    /\ call \in [Conn -> Call] /\ calls \in 0 .. MaxCalls
    /\ basis \in [use : Uses \cup {"lost"}, login : Login \cup {0}, took : Nat]
    /\ heard \in {"none", "fetch", "upload", "download"}

\* No tab announces "a logout that did not happen" (session.ts): it goes to the
\* logged-out page only when the gateway no longer accepts the session, or will not
\* half a second, or for a download the time it was under way, from then; unless
\* the browser got the session by an answer no page has read, such as a sign-in.
NoFalseLogout ==
    (\E t \in Tab : Expired(t)) =>
        \/ heard = "none"
        \/ ValidateSessionCookie(JarSession) # "ok"
        \/ SessionDeadline(JarSession) - now <=
              IF heard = "download" THEN Latency ELSE Second \div 2

\* How long ago the cookie in the jar had last been touched when it arrived.
Underway == jar.gotAt - LastActivity(jar.session)

\* The warning comes before the session ends: a deadline a response advertised is
\* behind the real one by no more than the time this very request took (an upload is
\* told what was left when it started), and one guessed for a download by no more
\* than the refresh interval, against the idle deadline at least and once the download
\* was answered; plus the time the cookie in the jar was under way, since an answer
\* that comes late puts back the cookie of its start.  The guess for a download that was
\* lost has nothing to do with the session any more, which may end unwarned; such
\* guesses do not add up, and put the warning off by one idle window at most.
WarnsInTime ==
    deadline # 0 /\ JarSession # None /\ JarSession.login = basis.login =>
        \/ /\ basis.use \in Read
           /\ deadline <= SessionDeadline(JarSession) + basis.took + Underway + Second \div 2
        \/ /\ basis.use = "download"
           /\ \/ \E c \in Conn : call[c].use = "download"
              \/ deadline <= LastActivity(JarSession) + IdleTTL + RefreshInterval + Underway
        \/ basis.use = "lost" /\ deadline <= now + IdleTTL
=============================================================================
