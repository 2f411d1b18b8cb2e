------------------------------ MODULE Consent ------------------------------
(***************************************************************************)
(* The Terms-of-Service gate (internal/tos) and the overlay of the         *)
(* recipient frontend that gets a recipient through it (useShares.ts,      *)
(* TosOverlay.tsx): one browser with several tabs, one slot for the        *)
(* acceptance cookie, and a gateway that is redeployed with other terms.   *)
(*                                                                         *)
(* As with the session, a request carries the cookies of the moment it is  *)
(* SENT, meets the document of the moment it is SERVED, and changes the    *)
(* jar and the page when its response is DELIVERED.                        *)
(***************************************************************************)
EXTENDS Integers

CONSTANTS
    Tab,         \* tabs of the browser
    Email,       \* addresses as the identity provider spells them
    Recipient,   \* who they belong to
    Canonical,   \* Email -> Recipient: audit.Canonical of the address, hashed
    Terms,       \* documents the gate may run with; None: the gate is off
    MaxKeys,     \* bound: session keys the deployment goes through
    MaxChanges,  \* bound: redeployments, changes of user, lost cookies and answers
    None

ASSUME ConsentConfig ==
    /\ Canonical \in [Email -> Recipient]
    /\ None \notin Email \cup Recipient
    /\ Terms # {} /\ MaxKeys \in Nat \ {0} /\ MaxChanges \in Nat

VARIABLES
    terms,    \* the document the gateway runs with; stands for its hash
    key,      \* the key the gateway signs with
    who,      \* the address of the browser's session, None: not signed in
    cookie,   \* the browser's tos_accepted cookie
    tab,      \* tab -> its page and its request
    trail,    \* history: accept-tos records, as <<recipient, document>>
    shown,    \* history: documents displayed, as <<recipient, document>>
    changes   \* disturbances so far

vars == <<terms, key, who, cookie, tab, trail, shown, changes>>

\* tosCookieData with the key of its signature.
Acceptance == [recipient : Recipient, terms : Terms, key : 1 .. MaxKeys]

\* away: not this app; loading: waiting for the shares; app: the shares, or the
\* message that they could not be loaded; gate: the overlay, before it has its
\* text; reading: the overlay with the text of `text`; blank: the overlay that
\* could not load its text, whose button stays disabled.
Views == {"away", "loading", "app", "failed", "gate", "reading", "blank"}
Requests == {"none", "shares", "terms", "accept"}

\* A tab.  Of its request: the address and cookie it carries; of its response:
\* the status (0: none yet), the document it was served under and its Set-Cookie.
TabState == [view : Views, text : Terms \cup {None}, request : Requests,
             email : Email \cup {None}, carried : Acceptance \cup {None},
             status : {0, 200, 204, 401, 403, 404, 500},
             under : Terms \cup {None}, set : Acceptance \cup {None}]

\* The page showing v, with the text d, and no request under way.
Page(v, d) == [view |-> v, text |-> d, request |-> "none", email |-> None,
               carried |-> None, status |-> 0, under |-> None, set |-> None]

\* The same page once it has sent a request.
Ask(page, request) == [page EXCEPT !.request = request, !.email = who,
                                   !.carried = cookie]

\* The same page once its request is answered.
Answered(page, status, set) ==
    [page EXCEPT !.status = status, !.under = terms, !.set = set]

-----------------------------------------------------------------------------
(* internal/tos *)

\* signedcookie.Open: is the signature of the key the gateway runs with?
Opens(accepted) == accepted.key = key

\* Mutant: any document will do.
CheckAnyTerms(accepted, email) ==
    accepted # None /\ Opens(accepted) /\ accepted.recipient = Canonical[email]

\* Mutant: the address is compared as it is spelled.
CheckSpelling(accepted, email) ==
    /\ accepted # None
    /\ Opens(accepted)
    /\ accepted.recipient = email
    /\ accepted.terms = terms

CheckAcceptance(accepted, email) ==
    /\ accepted # None
    /\ Opens(accepted)
    /\ accepted.recipient = Canonical[email]
    /\ accepted.terms = terms

\* Mutant: the cookie holds the address itself.
PlainAcceptance(email) == [recipient |-> email, terms |-> terms, key |-> key]

NewAcceptance(email) == [recipient |-> Canonical[email], terms |-> terms, key |-> key]

Pending(t, request) == tab[t].request = request /\ tab[t].status = 0

\* RequireAuth, in front of all three.
ServeUnauthenticated(t) ==
    /\ tab[t].request # "none" /\ tab[t].status = 0
    /\ tab[t].email = None
    /\ tab' = [tab EXCEPT ![t] = Answered(tab[t], 401, None)]
    /\ UNCHANGED <<terms, key, who, cookie, trail, shown, changes>>

\* RequireTOS in front of the listing; a disabled gate lets everything through.
ServeShares(t) ==
    LET passes == terms = None \/ CheckAcceptance(tab[t].carried, tab[t].email) IN
    /\ Pending(t, "shares") /\ tab[t].email # None
    /\ tab' = [tab EXCEPT ![t] = Answered(tab[t], IF passes THEN 200 ELSE 403, None)]
    /\ UNCHANGED <<terms, key, who, cookie, trail, shown, changes>>

\* ContentHandler; not routed when the gate is off.
ServeTerms(t) ==
    /\ Pending(t, "terms") /\ tab[t].email # None
    /\ tab' = [tab EXCEPT ![t] = Answered(tab[t], IF terms = None THEN 404 ELSE 200, None)]
    /\ UNCHANGED <<terms, key, who, cookie, trail, shown, changes>>

\* AcceptHandler: the record first, then the cookie, both of the document the
\* gateway runs with NOW; the request names none.
ServeAccept(t) ==
    /\ Pending(t, "accept") /\ tab[t].email # None
    /\ IF terms = None
       THEN /\ tab' = [tab EXCEPT ![t] = Answered(tab[t], 404, None)]
            /\ UNCHANGED trail
       ELSE /\ trail' = trail \cup {<<Canonical[tab[t].email], terms>>}
            /\ tab' = [tab EXCEPT ![t] =
                          Answered(tab[t], 204, NewAcceptance(tab[t].email))]
    /\ UNCHANGED <<terms, key, who, cookie, shown, changes>>

Serve(t) == ServeUnauthenticated(t) \/ ServeShares(t) \/ ServeTerms(t) \/ ServeAccept(t)

-----------------------------------------------------------------------------
(* The frontend *)

\* What may happen to the system only MaxChanges times.
Disturb == changes < MaxChanges /\ changes' = changes + 1

\* The page is loaded, or loaded anew: whatever was under way is abandoned.
Open(t) ==
    /\ IF tab[t].view \in {"away", "blank"} THEN UNCHANGED changes ELSE Disturb
    /\ tab' = [tab EXCEPT ![t] = Ask(Page("loading", None), "shares")]
    /\ UNCHANGED <<terms, key, who, cookie, trail, shown>>

\* useShares.reload: after a download, or after the consent was recorded.  It
\* takes the overlay away, and with it the text.
Reload(t) ==
    /\ tab[t].view \in {"app", "failed"} /\ tab[t].request = "none"
    /\ tab' = [tab EXCEPT ![t] = Ask(Page("loading", None), "shares")]
    /\ UNCHANGED <<terms, key, who, cookie, trail, shown, changes>>

\* The button of the overlay, enabled once the text is there.
ClickAccept(t) ==
    /\ tab[t].view = "reading" /\ tab[t].request = "none"
    /\ tab' = [tab EXCEPT ![t] = Ask(tab[t], "accept")]
    /\ UNCHANGED <<terms, key, who, cookie, trail, shown, changes>>

\* What the response makes of the page, and which request it sends next, with
\* the cookies in the jar.  A denied listing mounts the overlay, which asks for
\* its text; a recorded consent asks for the shares again; a failed one leaves the
\* overlay as it is, for another try.
After(page, jar) ==
    CASE page.status = 401 -> Page("away", None)
      [] page.request = "shares" /\ page.status = 200 -> Page("app", None)
      [] page.request = "shares" /\ page.status = 403 ->
            [Ask(Page("gate", None), "terms") EXCEPT !.carried = jar]
      [] page.request = "shares" /\ page.status \in {404, 500} -> Page("failed", None)
      [] page.request = "terms" /\ page.status = 200 -> Page("reading", page.under)
      [] page.request = "terms" /\ page.status \in {404, 500} -> Page("blank", None)
      [] page.request = "accept" /\ page.status = 204 ->
            [Ask(Page("loading", None), "shares") EXCEPT !.carried = jar]
      [] OTHER -> Page("reading", page.text)

\* The response reaches the page.
Receive(t) ==
    LET jar == IF tab[t].set = None THEN cookie ELSE tab[t].set
        after == After(tab[t], jar)
    IN  /\ tab[t].status # 0
        /\ tab' = [tab EXCEPT ![t] = after]
        /\ cookie' = jar
        /\ shown' = IF after.view = "reading" /\ who # None
                    THEN shown \cup {<<Canonical[who], after.text>>} ELSE shown
        /\ UNCHANGED <<terms, key, who, trail, changes>>

-----------------------------------------------------------------------------
(* Disturbances *)

\* A restart with another document, or with another key as well.
Redeploy ==
    /\ Disturb
    /\ \E d \in Terms, k \in key .. MaxKeys :
          /\ <<d, k>> # <<terms, key>>
          /\ terms' = d /\ key' = k
    /\ UNCHANGED <<who, cookie, tab, trail, shown>>

\* In some tab the recipient signs out, or signs in, perhaps as somebody else.
ChangeUser ==
    /\ Disturb
    /\ \E e \in (Email \cup {None}) \ {who} : who' = e
    /\ UNCHANGED <<terms, key, cookie, tab, trail, shown>>

\* The cookie expires or is deleted by its owner.
LoseCookie ==
    /\ Disturb
    /\ cookie # None /\ cookie' = None
    /\ UNCHANGED <<terms, key, who, tab, trail, shown>>

\* A response does not get through: what the gateway did is done, but its
\* Set-Cookie is lost.
LoseAnswer(t) ==
    /\ Disturb
    /\ tab[t].request # "none"
    /\ tab' = [tab EXCEPT ![t] = Answered(tab[t], 500, None)]
    /\ UNCHANGED <<terms, key, who, cookie, trail, shown>>

-----------------------------------------------------------------------------

Init ==
    /\ terms \in Terms /\ key = 1
    /\ who \in Email
    /\ cookie = None
    /\ tab = [t \in Tab |-> Page("away", None)]
    /\ trail = {} /\ shown = {}
    /\ changes = 0

Next ==
    \/ Redeploy \/ ChangeUser \/ LoseCookie
    \/ \E t \in Tab :
          \/ Serve(t) \/ Receive(t)
          \/ Open(t) \/ Reload(t) \/ ClickAccept(t)
          \/ LoseAnswer(t)

Spec == Init /\ [][Next]_vars

\* The gateway answers, the answer arrives, and a recipient who has the text in
\* front of them presses the one button there is.
Fairness == \A t \in Tab : /\ WF_vars(Serve(t))
                           /\ WF_vars(Receive(t))
                           /\ WF_vars(ClickAccept(t))

FairSpec == Spec /\ Fairness

-----------------------------------------------------------------------------
(* Properties *)

\* The type of the state.
TypeOK ==
    /\ terms \in Terms
    /\ key \in 1 .. MaxKeys
    /\ who \in Email \cup {None}
    /\ cookie \in Acceptance \cup {None}
    /\ tab \in [Tab -> TabState]
    /\ trail \subseteq Recipient \X Terms
    /\ shown \subseteq Recipient \X Terms
    /\ changes \in 0 .. MaxChanges

\* Nothing gets past RequireTOS without a consent on record: the audit trail holds
\* an acceptance of that very recipient and of the document the gateway ran with
\* when it let the request through, whoever else used the browser in between.
AdmittedOnlyConsented ==
    \A t \in Tab : LET page == tab[t] IN
        page.request = "shares" /\ page.status = 200 /\ page.under # None =>
            <<Canonical[page.email], page.under>> \in trail

\* A recipient who presses the button of the overlay gets out of it, and not just
\* into the next overlay, forever; unless the gate is switched off meanwhile.
AcceptingLetsIn ==
    \A t \in Tab : tab[t].view = "reading" ~>
        terms = None \/ tab[t].view \in {"app", "failed", "blank", "away"}

\* docs/configuration.md: the cookie is bound to "the ToS hash, so editing the
\* document forces re-consent".  A recipient is taken to have accepted only a
\* document that was displayed to them.
ConsentIsInformed == trail \subseteq shown
=============================================================================
