--------------------------- MODULE ConsentProofs ---------------------------
(***************************************************************************)
(* TLAPS proofs about Consent, for every number of tabs and addresses and  *)
(* any documents, keys and disturbances.                                   *)
(***************************************************************************)
EXTENDS Consent, TLAPS

\* Is the acceptance, if there is one, on record?
OnTrail(accepted) ==
    accepted # None => <<accepted.recipient, accepted.terms>> \in trail

\* If the page was let through to the shares, is the consent on record?
Consented(page) ==
    page.request = "shares" /\ page.status = 200 /\ page.under # None =>
        <<Canonical[page.email], page.under>> \in trail

\* A request gets the answers of its own handler, under some document, and a
\* page that accepts or can accept shows a document.
Sound(page) ==
    /\ page.status # 0 => page.under \in Terms
    /\ page.request = "none" => page.status = 0
    /\ page.request = "shares" => page.status \in {0, 200, 401, 403, 500}
    /\ page.request = "terms" => page.status \in {0, 200, 401, 404, 500}
    /\ page.request = "accept" \/ page.view = "reading" => page.text \in Terms

\* Every acceptance, in the browser, on its way to the gateway or back, is of a
\* consent on record, and nobody was let through without.
ConsentInv ==
    /\ TypeOK
    /\ OnTrail(cookie)
    /\ \A t \in Tab : /\ OnTrail(tab[t].carried) /\ OnTrail(tab[t].set)
                      /\ Consented(tab[t]) /\ Sound(tab[t])

-----------------------------------------------------------------------------
(* Pages *)

\* The statuses of a response, and none.
Statuses == {0, 200, 204, 401, 403, 404, 500}

\* What the cookie holds, or a response sets it to; None: nothing.
Cookies == Acceptance \cup {None}

\* Answered, of the document the request was served under.
AnsweredUnder(page, status, d, set) ==
    [page EXCEPT !.status = status, !.under = d, !.set = set]

\* Ask, of the address and the cookie the request carries.
AskedWith(page, request, email, carried) ==
    [page EXCEPT !.request = request, !.email = email, !.carried = carried]

\* A page without a request is well typed.
LEMMA PageType ==
    ASSUME NEW v \in Views, NEW d \in Terms \cup {None}
    PROVE  \E p \in TabState :
              /\ p = Page(v, d)
              /\ p.status = 0 /\ p.set = None /\ p.carried = None
              /\ p.request = "none" /\ p.view = v /\ p.text = d
<1>1. /\ Page(v, d) \in TabState
      /\ Page(v, d).status = 0 /\ Page(v, d).set = None /\ Page(v, d).carried = None
      /\ Page(v, d).request = "none" /\ Page(v, d).view = v /\ Page(v, d).text = d
  BY DEF Page, TabState, Requests
<1> QED
  BY <1>1

\* What becomes of a page that asks.
LEMMA AskedType ==
    ASSUME NEW page \in TabState, NEW request \in Requests,
           NEW email \in Email \cup {None}, NEW carried \in Cookies
    PROVE  \E p \in TabState :
              /\ p = AskedWith(page, request, email, carried)
              /\ p.status = page.status /\ p.set = page.set
              /\ p.carried = carried /\ p.request = request
              /\ p.view = page.view /\ p.text = page.text /\ p.under = page.under
<1> DEFINE p1 == [page EXCEPT !.request = request]
           p2 == [p1 EXCEPT !.email = email]
           p3 == [p2 EXCEPT !.carried = carried]
<1>1. AskedWith(page, request, email, carried) = p3
  BY DEF AskedWith
<1>2. /\ p1 \in TabState /\ p1.request = request /\ p1.status = page.status
      /\ p1.set = page.set /\ p1.view = page.view /\ p1.text = page.text
      /\ p1.under = page.under
  BY DEF TabState
<1> HIDE DEF p1
<1>3. /\ p2 \in TabState /\ p2.request = request /\ p2.status = page.status
      /\ p2.set = page.set /\ p2.view = page.view /\ p2.text = page.text
      /\ p2.under = page.under
  BY <1>2 DEF TabState
<1> HIDE DEF p2
<1>4. /\ p3 \in TabState /\ p3.request = request /\ p3.status = page.status
      /\ p3.set = page.set /\ p3.view = page.view /\ p3.text = page.text
      /\ p3.under = page.under /\ p3.carried = carried
  BY <1>3 DEF TabState, Cookies
<1> HIDE DEF p3
<1> QED
  BY <1>1, <1>4

\* The page that has just been loaded and asks for `request`.
LEMMA FreshType ==
    ASSUME NEW v \in Views, NEW request \in Requests \ {"none"},
           NEW email \in Email \cup {None}, NEW carried \in Cookies
    PROVE  \E p \in TabState :
              /\ p = AskedWith(Page(v, None), request, email, carried)
              /\ p.status = 0 /\ p.set = None /\ p.carried = carried
              /\ p.request = request /\ p.view = v
<1>1. PICK page \in TabState :
         /\ page = Page(v, None)
         /\ page.status = 0 /\ page.set = None /\ page.view = v
  BY PageType
<1> QED
  BY <1>1, AskedType

\* What becomes of a page that is answered, under the document d.
LEMMA AnsweredType ==
    ASSUME NEW page \in TabState, NEW status \in Statuses, NEW d \in Terms,
           NEW set \in Cookies
    PROVE  \E p \in TabState :
              /\ p = AnsweredUnder(page, status, d, set)
              /\ p.status = status /\ p.set = set /\ p.under = d
              /\ p.request = page.request /\ p.email = page.email
              /\ p.carried = page.carried /\ p.view = page.view /\ p.text = page.text
<1> DEFINE p1 == [page EXCEPT !.status = status]
           p2 == [p1 EXCEPT !.under = d]
           p3 == [p2 EXCEPT !.set = set]
<1>1. AnsweredUnder(page, status, d, set) = p3
  BY DEF AnsweredUnder
<1>2. /\ p1 \in TabState /\ p1.status = status
      /\ p1.request = page.request /\ p1.email = page.email
      /\ p1.carried = page.carried /\ p1.view = page.view /\ p1.text = page.text
  BY DEF TabState, Statuses
<1> HIDE DEF p1
<1>3. /\ p2 \in TabState /\ p2.status = status /\ p2.under = d
      /\ p2.request = page.request /\ p2.email = page.email
      /\ p2.carried = page.carried /\ p2.view = page.view /\ p2.text = page.text
  BY <1>2 DEF TabState
<1> HIDE DEF p2
<1>4. /\ p3 \in TabState /\ p3.status = status /\ p3.under = d /\ p3.set = set
      /\ p3.request = page.request /\ p3.email = page.email
      /\ p3.carried = page.carried /\ p3.view = page.view /\ p3.text = page.text
  BY <1>3 DEF TabState, Cookies
<1> HIDE DEF p3
<1> QED
  BY <1>1, <1>4

\* A step that replaces one page keeps the invariant when the new page does, and
\* when the records only grow.
LEMMA ReplacePage ==
    ASSUME ConsentInv, NEW t \in Tab, NEW p \in TabState,
           tab' = [tab EXCEPT ![t] = p],
           trail \subseteq trail', trail' \subseteq Recipient \X Terms,
           OnTrail(p.carried)', OnTrail(p.set)', Consented(p)', Sound(p),
           UNCHANGED <<terms, key, who>>,
           cookie' \in Cookies, OnTrail(cookie)',
           shown' \subseteq Recipient \X Terms, changes' \in 0 .. MaxChanges
    PROVE  ConsentInv'
<1>1. TypeOK'
  BY DEF ConsentInv, TypeOK, Cookies
<1>2. ASSUME NEW u \in Tab
      PROVE  (/\ OnTrail(tab[u].carried) /\ OnTrail(tab[u].set)
              /\ Consented(tab[u]) /\ Sound(tab[u]))'
  <2>1. CASE u = t
    <3>1. tab'[u] = p
      BY <2>1 DEF ConsentInv, TypeOK
    <3> QED
      BY <3>1 DEF OnTrail, Consented, Sound
  <2>2. CASE u # t
    <3>1. tab'[u] = tab[u]
      BY <2>2 DEF ConsentInv, TypeOK
    <3>2. /\ OnTrail(tab[u].carried) /\ OnTrail(tab[u].set)
          /\ Consented(tab[u]) /\ Sound(tab[u])
      BY DEF ConsentInv
    <3> QED
      BY <3>1, <3>2 DEF OnTrail, Consented, Sound
  <2> QED
    BY <2>1, <2>2
<1> QED
  BY <1>1, <1>2 DEF ConsentInv

\* A page that is answered, by its own handler.
LEMMA AnswerPage ==
    ASSUME ConsentInv, NEW t \in Tab, NEW page \in TabState, page = tab[t],
           NEW p \in TabState, tab' = [tab EXCEPT ![t] = p],
           p.carried = page.carried, Sound(p),
           trail \subseteq trail', trail' \subseteq Recipient \X Terms,
           p.set = None \/ <<p.set.recipient, p.set.terms>> \in trail',
           Consented(p)',
           UNCHANGED <<terms, key, who, cookie, shown>>, changes' \in 0 .. MaxChanges
    PROVE  ConsentInv'
<1>1. OnTrail(p.carried)' /\ OnTrail(p.set)' /\ OnTrail(cookie)'
  <2>1. OnTrail(tab[t].carried) /\ OnTrail(cookie)
    BY DEF ConsentInv
  <2> QED
    BY <2>1 DEF OnTrail
<1>2. cookie' \in Cookies /\ shown' \subseteq Recipient \X Terms
  BY DEF ConsentInv, TypeOK, Cookies
<1> QED
  BY <1>1, <1>2, ReplacePage

\* The same, without a Set-Cookie, when nothing else happens.
LEMMA AnswerWithout ==
    ASSUME ConsentInv, NEW t \in Tab, NEW page \in TabState, page = tab[t],
           NEW p \in TabState, tab' = [tab EXCEPT ![t] = p],
           p.carried = page.carried, Sound(p), p.set = None,
           Consented(p),
           UNCHANGED <<terms, key, who, cookie, trail, shown>>,
           changes' \in 0 .. MaxChanges
    PROVE  ConsentInv'
<1>1. trail \subseteq trail' /\ trail' \subseteq Recipient \X Terms
  BY DEF ConsentInv, TypeOK
<1>2. Consented(p)'
  BY DEF Consented
<1>3. UNCHANGED <<terms, key, who, cookie, shown>>
  OBVIOUS
<1> QED
  BY <1>1, <1>2, <1>3, AnswerPage

\* A page that asks with the cookie the browser has, or does not ask at all.
LEMMA AskingPage ==
    ASSUME ConsentInv, NEW t \in Tab, NEW p \in TabState,
           tab' = [tab EXCEPT ![t] = p],
           p.status = 0, p.set = None, p.carried = None \/ p.carried = cookie', Sound(p),
           UNCHANGED <<terms, key, who, trail>>,
           cookie' \in Cookies, OnTrail(cookie'),
           shown' \subseteq Recipient \X Terms, changes' \in 0 .. MaxChanges
    PROVE  ConsentInv'
<1>1. trail \subseteq trail' /\ trail' \subseteq Recipient \X Terms
  BY DEF ConsentInv, TypeOK
<1>2. OnTrail(cookie)' /\ OnTrail(p.carried)' /\ OnTrail(p.set)'
  BY DEF OnTrail
<1>3. Consented(p)'
  BY DEF Consented
<1> QED
  BY <1>1, <1>2, <1>3, ReplacePage

-----------------------------------------------------------------------------
(* The gateway *)

\* RequireAuth, RequireTOS and the two handlers keep the invariant.
LEMMA ServeStep ==
    ASSUME ConsentInv, NEW t \in Tab, Serve(t)
    PROVE  ConsentInv'
<1>1. TypeOK /\ OnTrail(tab[t].carried) /\ Sound(tab[t])
  BY DEF ConsentInv
<1>2. /\ trail \subseteq Recipient \X Terms
      /\ changes \in 0 .. MaxChanges
      /\ tab[t] \in TabState /\ terms \in Terms
  BY <1>1 DEF TypeOK
<1>3. PICK page \in TabState, d \in Terms : page = tab[t] /\ d = terms
  BY <1>2
<1>4. None \in Cookies
  BY DEF Cookies
<1>5. CASE ServeUnauthenticated(t)
  <2>1. PICK status \in Statuses : status = 401
    BY DEF Statuses
  <2>2. PICK p \in TabState :
           /\ p = AnsweredUnder(page, status, d, None)
           /\ p.status = status /\ p.set = None /\ p.under = d
           /\ p.request = page.request /\ p.email = page.email
           /\ p.carried = page.carried /\ p.view = page.view /\ p.text = page.text
    BY <1>4, AnsweredType
  <2>3. /\ page.request # "none"
        /\ tab' = [tab EXCEPT ![t] = p]
        /\ UNCHANGED <<terms, key, who, cookie, trail, shown, changes>>
    BY <1>3, <1>5, <2>1, <2>2 DEF ServeUnauthenticated, Answered, AnsweredUnder
  <2>4. /\ UNCHANGED <<terms, key, who, cookie, trail, shown>>
        /\ changes' \in 0 .. MaxChanges
    BY <1>2, <2>3
  <2>5. Sound(p) /\ Consented(p)
    BY <1>1, <1>3, <2>1, <2>2, <2>3 DEF Sound, Consented
  <2> QED
    BY <1>3, <2>2, <2>3, <2>4, <2>5, AnswerWithout
<1>6. CASE ServeShares(t)
  <2>1. PICK status \in Statuses :
           status = IF terms = None \/ CheckAcceptance(tab[t].carried, tab[t].email)
                    THEN 200 ELSE 403
    BY DEF Statuses
  <2>2. PICK p \in TabState :
           /\ p = AnsweredUnder(page, status, d, None)
           /\ p.status = status /\ p.set = None /\ p.under = d
           /\ p.request = page.request /\ p.email = page.email
           /\ p.carried = page.carried /\ p.view = page.view /\ p.text = page.text
    BY <1>4, AnsweredType
  <2>3. /\ page.request = "shares"
        /\ tab' = [tab EXCEPT ![t] = p]
        /\ UNCHANGED <<terms, key, who, cookie, trail, shown, changes>>
    BY <1>3, <1>6, <2>1, <2>2 DEF ServeShares, Pending, Answered, AnsweredUnder
  <2>4. /\ UNCHANGED <<terms, key, who, cookie, trail, shown>>
        /\ changes' \in 0 .. MaxChanges
    BY <1>2, <2>3
  <2>5. status = 200 /\ d # None => <<Canonical[page.email], d>> \in trail
    BY <1>1, <1>3, <2>1 DEF CheckAcceptance, OnTrail
  <2>6. Sound(p) /\ Consented(p)
    BY <1>1, <1>3, <2>1, <2>2, <2>3, <2>5 DEF Sound, Consented
  <2> QED
    BY <1>3, <2>2, <2>3, <2>4, <2>6, AnswerWithout
<1>7. CASE ServeTerms(t)
  <2>1. PICK status \in Statuses : status = IF terms = None THEN 404 ELSE 200
    BY DEF Statuses
  <2>2. PICK p \in TabState :
           /\ p = AnsweredUnder(page, status, d, None)
           /\ p.status = status /\ p.set = None /\ p.under = d
           /\ p.request = page.request /\ p.email = page.email
           /\ p.carried = page.carried /\ p.view = page.view /\ p.text = page.text
    BY <1>4, AnsweredType
  <2>3. /\ page.request = "terms"
        /\ tab' = [tab EXCEPT ![t] = p]
        /\ UNCHANGED <<terms, key, who, cookie, trail, shown, changes>>
    BY <1>3, <1>7, <2>1, <2>2 DEF ServeTerms, Pending, Answered, AnsweredUnder
  <2>4. /\ UNCHANGED <<terms, key, who, cookie, trail, shown>>
        /\ changes' \in 0 .. MaxChanges
    BY <1>2, <2>3
  <2>5. Sound(p) /\ Consented(p)
    BY <1>1, <1>3, <2>1, <2>2, <2>3 DEF Sound, Consented
  <2> QED
    BY <1>3, <2>2, <2>3, <2>4, <2>5, AnswerWithout
<1>8. CASE ServeAccept(t)
  <2>1. /\ page.request = "accept" /\ page.email # None
        /\ UNCHANGED <<terms, key, who, cookie, shown, changes>>
    BY <1>3, <1>8 DEF ServeAccept, Pending
  <2>2. CASE terms = None
    <3>1. PICK status \in Statuses : status = 404
      BY DEF Statuses
    <3>2. PICK p \in TabState :
             /\ p = AnsweredUnder(page, status, d, None)
             /\ p.status = status /\ p.set = None /\ p.under = d
             /\ p.request = page.request /\ p.email = page.email
             /\ p.carried = page.carried /\ p.view = page.view /\ p.text = page.text
      BY <1>4, AnsweredType
    <3>3. /\ tab' = [tab EXCEPT ![t] = p]
          /\ UNCHANGED <<terms, key, who, cookie, trail, shown, changes>>
      BY <1>3, <1>8, <2>2, <3>1, <3>2 DEF ServeAccept, Answered, AnsweredUnder
    <3>4. /\ UNCHANGED <<terms, key, who, cookie, trail, shown>>
          /\ changes' \in 0 .. MaxChanges
      BY <1>2, <3>3
    <3>5. Sound(p) /\ Consented(p)
      BY <1>1, <1>3, <2>1, <3>1, <3>2 DEF Sound, Consented
    <3> QED
      BY <1>3, <3>2, <3>3, <3>4, <3>5, AnswerWithout
  <2>3. CASE terms # None
    <3>1. PICK r \in Recipient : r = Canonical[page.email]
      BY <2>1, ConsentConfig DEF TabState
    <3>2. PICK k \in 1 .. MaxKeys : k = key
      BY <1>1 DEF TypeOK
    <3>3. PICK a \in Cookies : a = [recipient |-> r, terms |-> d, key |-> k]
      BY DEF Acceptance, Cookies
    <3>4. a.recipient = r /\ a.terms = d
      BY <3>3
    <3>5. NewAcceptance(tab[t].email) = a
      BY <1>3, <3>1, <3>2, <3>3 DEF NewAcceptance
    <3>6. PICK status \in Statuses : status = 204
      BY DEF Statuses
    <3>7. PICK p \in TabState :
             /\ p = AnsweredUnder(page, status, d, a)
             /\ p.status = status /\ p.set = a /\ p.under = d
             /\ p.request = page.request /\ p.email = page.email
             /\ p.carried = page.carried /\ p.view = page.view /\ p.text = page.text
      BY AnsweredType
    <3>8. /\ trail' = trail \cup {<<r, d>>}
          /\ tab' = [tab EXCEPT ![t] = p]
      BY <1>3, <1>8, <2>3, <3>1, <3>5, <3>6, <3>7
         DEF ServeAccept, Answered, AnsweredUnder
    <3>9. /\ trail \subseteq trail' /\ trail' \subseteq Recipient \X Terms
          /\ <<p.set.recipient, p.set.terms>> \in trail'
      BY <1>2, <3>4, <3>7, <3>8
    <3>10. Sound(p) /\ Consented(p)'
      BY <1>1, <1>3, <2>1, <3>6, <3>7 DEF Sound, Consented
    <3>11. UNCHANGED <<terms, key, who, cookie, shown>> /\ changes' \in 0 .. MaxChanges
      BY <1>2, <2>1
    <3> QED
      BY <1>3, <3>7, <3>8, <3>9, <3>10, <3>11, AnswerPage
  <2> QED
    BY <2>2, <2>3
<1> QED
  BY <1>5, <1>6, <1>7, <1>8 DEF Serve

-----------------------------------------------------------------------------
(* The frontend *)

\* A page that is loaded anew keeps the invariant.
LEMMA LoadStep ==
    ASSUME ConsentInv, NEW t \in Tab,
           tab' = [tab EXCEPT ![t] = Ask(Page("loading", None), "shares")],
           UNCHANGED <<terms, key, who, cookie, trail, shown>>,
           changes' \in 0 .. MaxChanges
    PROVE  ConsentInv'
<1>1. /\ TypeOK /\ OnTrail(cookie)
      /\ cookie' \in Cookies /\ shown' \subseteq Recipient \X Terms
  BY DEF ConsentInv, TypeOK, Cookies
<1>2. PICK e \in Email \cup {None}, c \in Cookies : e = who /\ c = cookie
  BY DEF ConsentInv, TypeOK, Cookies
<1>3. "loading" \in Views /\ "shares" \in Requests \ {"none"}
  BY DEF Views, Requests
<1>4. PICK p \in TabState :
         /\ p = AskedWith(Page("loading", None), "shares", e, c)
         /\ p.status = 0 /\ p.set = None /\ p.carried = c
         /\ p.request = "shares" /\ p.view = "loading"
  BY <1>3, FreshType
<1>5. tab' = [tab EXCEPT ![t] = p]
  BY <1>2, <1>4 DEF Ask, AskedWith
<1>6. Sound(p) /\ p.carried = cookie' /\ OnTrail(cookie') /\ UNCHANGED <<terms, key, who, trail>>
  BY <1>1, <1>2, <1>4 DEF Sound, OnTrail
<1> QED
  BY <1>1, <1>4, <1>5, <1>6, AskingPage

\* Pressing the button keeps the invariant.
LEMMA ClickAcceptStep ==
    ASSUME ConsentInv, NEW t \in Tab, ClickAccept(t)
    PROVE  ConsentInv'
<1>1. /\ TypeOK /\ OnTrail(cookie) /\ tab[t] \in TabState
      /\ Sound(tab[t]) /\ OnTrail(tab[t].set)
  BY DEF ConsentInv, TypeOK
<1>2. PICK e \in Email \cup {None}, c \in Cookies, page \in TabState :
         e = who /\ c = cookie /\ page = tab[t]
  BY <1>1 DEF TypeOK, Cookies
<1>3. "accept" \in Requests
  BY DEF Requests
<1>4. PICK p \in TabState :
         /\ p = AskedWith(page, "accept", e, c)
         /\ p.status = page.status /\ p.set = page.set
         /\ p.carried = c /\ p.request = "accept"
         /\ p.view = page.view /\ p.text = page.text /\ p.under = page.under
  BY <1>3, AskedType
<1>5. /\ page.view = "reading"
      /\ tab' = [tab EXCEPT ![t] = p]
      /\ UNCHANGED <<terms, key, who, cookie, trail, shown, changes>>
  BY <1>2, <1>4 DEF ClickAccept, Ask, AskedWith
<1>6. Sound(p) /\ Consented(p)'
  BY <1>1, <1>2, <1>4, <1>5 DEF Sound, Consented
<1>7. OnTrail(p.carried)' /\ OnTrail(p.set)' /\ OnTrail(cookie)'
  BY <1>1, <1>2, <1>4, <1>5 DEF OnTrail
<1>8. /\ UNCHANGED <<terms, key, who>>
      /\ trail \subseteq trail' /\ trail' \subseteq Recipient \X Terms
      /\ cookie' \in Cookies /\ shown' \subseteq Recipient \X Terms
      /\ changes' \in 0 .. MaxChanges
  BY <1>1, <1>5 DEF TypeOK, Cookies
<1> QED
  BY <1>5, <1>6, <1>7, <1>8, ReplacePage

\* A page that has shown what a response is about, and asks for nothing.
LEMMA ShowPage ==
    ASSUME ConsentInv, NEW t \in Tab, NEW v \in Views, NEW d \in Terms \cup {None},
           tab' = [tab EXCEPT ![t] = Page(v, d)],
           v = "reading" => d \in Terms,
           UNCHANGED <<terms, key, who, trail, changes>>,
           cookie' \in Cookies, OnTrail(cookie'),
           shown' \subseteq Recipient \X Terms
    PROVE  ConsentInv'
<1>1. PICK p \in TabState :
         /\ p = Page(v, d)
         /\ p.status = 0 /\ p.set = None /\ p.carried = None
         /\ p.request = "none" /\ p.view = v /\ p.text = d
  BY PageType
<1>2. tab' = [tab EXCEPT ![t] = p]
  BY <1>1
<1>3. Sound(p)
  BY <1>1 DEF Sound
<1>4. changes' \in 0 .. MaxChanges /\ UNCHANGED <<terms, key, who, trail>>
  BY DEF ConsentInv, TypeOK
<1> QED
  BY <1>1, <1>2, <1>3, <1>4, AskingPage

\* A page that goes on to ask with the cookie the response left in the browser.
LEMMA AskOn ==
    ASSUME ConsentInv, NEW t \in Tab, NEW v \in Views, NEW request \in Requests,
           request \in {"shares", "terms"}, v # "reading",
           NEW jar \in Cookies, cookie' = jar, OnTrail(jar),
           tab' = [tab EXCEPT ![t] =
                      [Ask(Page(v, None), request) EXCEPT !.carried = jar]],
           UNCHANGED <<terms, key, who, trail, changes>>,
           shown' \subseteq Recipient \X Terms
    PROVE  ConsentInv'
<1>1. PICK e \in Email \cup {None} : e = who
  BY DEF ConsentInv, TypeOK
<1>2. request \in Requests \ {"none"}
  OBVIOUS
<1>3. PICK p \in TabState :
         /\ p = AskedWith(Page(v, None), request, e, jar)
         /\ p.status = 0 /\ p.set = None /\ p.carried = jar
         /\ p.request = request /\ p.view = v
  BY <1>2, FreshType
<1>4. [Ask(Page(v, None), request) EXCEPT !.carried = jar] = p
  BY <1>1, <1>3 DEF Ask, AskedWith, Page
<1>5. tab' = [tab EXCEPT ![t] = p]
  BY <1>4
<1>6. Sound(p)
  BY <1>3 DEF Sound
<1>7. /\ changes' \in 0 .. MaxChanges /\ UNCHANGED <<terms, key, who, trail>>
      /\ p.carried = cookie' /\ cookie' \in Cookies /\ OnTrail(cookie')
  BY <1>3 DEF ConsentInv, TypeOK
<1> QED
  BY <1>3, <1>5, <1>6, <1>7, AskingPage

\* What becomes of a page when its response arrives: it asks for nothing, it goes on to
\* ask for the shares or the text, or it shows the text that came or that was there.
LEMMA AfterCases ==
    ASSUME NEW page \in TabState, NEW jar, Sound(page), page.status # 0,
           NEW after, after = After(page, jar)
    PROVE  \/ \E v \in Views \ {"reading"} : after = Page(v, None)
           \/ \E v \in Views \ {"reading"}, request \in {"shares", "terms"} :
                 after = [Ask(Page(v, None), request) EXCEPT !.carried = jar]
           \/ /\ page.request = "terms" /\ page.status = 200 /\ page.under \in Terms
              /\ after = Page("reading", page.under)
           \/ /\ page.request = "accept" /\ page.text \in Terms
              /\ after = Page("reading", page.text)
<1>1. {"away", "app", "failed", "blank", "gate", "loading"} \subseteq Views \ {"reading"}
  BY DEF Views
<1>2. CASE page.status = 401
  <2>1. after = Page("away", None)
    BY <1>2 DEF After
  <2> QED
    BY <1>1, <2>1
<1>3. CASE page.request = "shares" /\ page.status # 401
  <2>1. page.status \in {200, 403, 500}
    BY <1>3 DEF Sound
  <2>2. \/ after = Page("app", None) \/ after = Page("failed", None)
        \/ after = [Ask(Page("gate", None), "terms") EXCEPT !.carried = jar]
    BY <1>3, <2>1 DEF After
  <2> QED
    BY <1>1, <2>2
<1>4. CASE page.request = "terms" /\ page.status # 401
  <2>1. page.status \in {200, 404, 500} /\ page.under \in Terms
    BY <1>4 DEF Sound
  <2>2. \/ page.status = 200 /\ after = Page("reading", page.under)
        \/ after = Page("blank", None)
    BY <1>4, <2>1 DEF After
  <2> QED
    BY <1>1, <1>4, <2>1, <2>2
<1>5. CASE page.request = "accept" /\ page.status # 401
  <2>1. page.text \in Terms
    BY <1>5 DEF Sound
  <2>2. \/ after = [Ask(Page("loading", None), "shares") EXCEPT !.carried = jar]
        \/ after = Page("reading", page.text)
    BY <1>5 DEF After
  <2> QED
    BY <1>1, <1>5, <2>1, <2>2
<1>6. page.request \in {"shares", "terms", "accept"}
  BY DEF Sound, TabState, Requests
<1> QED
  BY <1>2, <1>3, <1>4, <1>5, <1>6

\* The delivery of a response keeps the invariant.
LEMMA ReceiveStep ==
    ASSUME ConsentInv, NEW t \in Tab, Receive(t)
    PROVE  ConsentInv'
<1>1. /\ TypeOK /\ tab[t] \in TabState /\ Sound(tab[t])
      /\ OnTrail(cookie) /\ OnTrail(tab[t].set)
  BY DEF ConsentInv, TypeOK
<1>2. PICK page \in TabState, jar \in Cookies :
         page = tab[t] /\ jar = IF page.set = None THEN cookie ELSE page.set
  BY <1>1 DEF TypeOK, TabState, Cookies
<1>3. /\ UNCHANGED <<terms, key, who, trail, changes>>
      /\ page.status # 0 /\ Sound(page)
      /\ cookie' = jar /\ OnTrail(jar) /\ OnTrail(cookie')
      /\ cookie' \in Cookies
  BY <1>1, <1>2 DEF Receive, OnTrail
<1>4. shown \subseteq Recipient \X Terms /\ None \in Terms \cup {None}
  BY <1>1 DEF TypeOK
<1>5. PICK after : after = After(page, jar)
  OBVIOUS
<1>6. /\ tab' = [tab EXCEPT ![t] = after]
      /\ shown' = IF after.view = "reading" /\ who # None
                  THEN shown \cup {<<Canonical[who], after.text>>} ELSE shown
  BY <1>2, <1>5 DEF Receive
<1>7. ASSUME NEW v \in Views \ {"reading"}, after = Page(v, None)
      PROVE  ConsentInv'
  <2>1. after.view = v
    BY <1>7 DEF Page
  <2>2. tab' = [tab EXCEPT ![t] = Page(v, None)] /\ shown' \subseteq Recipient \X Terms
    BY <1>4, <1>6, <1>7, <2>1
  <2>3. v \in Views /\ (v = "reading" => None \in Terms)
    OBVIOUS
  <2> QED
    BY <1>3, <1>4, <2>2, <2>3, ShowPage
<1>8. ASSUME NEW d \in Terms, after = Page("reading", d)
      PROVE  ConsentInv'
  <2>1. after.text = d
    BY <1>8 DEF Page
  <2>2. tab' = [tab EXCEPT ![t] = Page("reading", d)]
    BY <1>6, <1>8
  <2>3. shown' \subseteq Recipient \X Terms
    BY <1>1, <1>4, <1>6, <2>1, ConsentConfig DEF TypeOK
  <2>4. "reading" \in Views /\ d \in Terms \cup {None}
    BY DEF Views
  <2> QED
    BY <1>3, <2>2, <2>3, <2>4, ShowPage
<1>9. ASSUME NEW v \in Views \ {"reading"}, NEW request \in {"shares", "terms"},
             after = [Ask(Page(v, None), request) EXCEPT !.carried = jar]
      PROVE  ConsentInv'
  <2>1. after.view = v
    BY <1>9 DEF Ask, Page
  <2>2. /\ tab' = [tab EXCEPT ![t] =
                      [Ask(Page(v, None), request) EXCEPT !.carried = jar]]
        /\ shown' \subseteq Recipient \X Terms
    BY <1>4, <1>6, <1>9, <2>1
  <2>3. v \in Views /\ v # "reading" /\ request \in Requests
    BY DEF Requests
  <2> QED
    BY <1>3, <2>2, <2>3, AskOn
<1>10. CASE \E v \in Views \ {"reading"} : after = Page(v, None)
  BY <1>7, <1>10
<1>11. CASE \E v \in Views \ {"reading"}, request \in {"shares", "terms"} :
               after = [Ask(Page(v, None), request) EXCEPT !.carried = jar]
  BY <1>9, <1>11
<1>12. CASE \E d \in Terms : after = Page("reading", d)
  BY <1>8, <1>12
<1> QED
  BY <1>3, <1>5, <1>10, <1>11, <1>12, AfterCases

-----------------------------------------------------------------------------
(* Disturbances *)

\* A lost answer keeps the invariant: it carries no Set-Cookie.
LEMMA LoseAnswerStep ==
    ASSUME ConsentInv, NEW t \in Tab, LoseAnswer(t)
    PROVE  ConsentInv'
<1>1. TypeOK /\ tab[t] \in TabState /\ terms \in Terms /\ Sound(tab[t])
  BY DEF ConsentInv, TypeOK
<1>2. PICK page \in TabState, d \in Terms : page = tab[t] /\ d = terms
  BY <1>1
<1>3. PICK status \in Statuses : status = 500
  BY DEF Statuses
<1>4. PICK p \in TabState :
         /\ p = AnsweredUnder(page, status, d, None)
         /\ p.status = status /\ p.set = None /\ p.under = d
         /\ p.request = page.request /\ p.email = page.email
         /\ p.carried = page.carried /\ p.view = page.view /\ p.text = page.text
  BY AnsweredType DEF Cookies
<1>5. /\ page.request # "none"
      /\ tab' = [tab EXCEPT ![t] = p]
      /\ UNCHANGED <<terms, key, who, cookie, trail, shown>>
  BY <1>2, <1>3, <1>4 DEF LoseAnswer, Answered, AnsweredUnder
<1>6. changes' \in 0 .. MaxChanges
  BY <1>1, ConsentConfig DEF TypeOK, LoseAnswer, Disturb
<1>7. Sound(p) /\ Consented(p)
  BY <1>1, <1>2, <1>3, <1>4, <1>5 DEF Sound, Consented
<1> QED
  BY <1>2, <1>4, <1>5, <1>6, <1>7, AnswerWithout

\* What happens without any page leaves the pages and the records alone.
LEMMA DisturbanceStep ==
    ASSUME ConsentInv, Redeploy \/ ChangeUser \/ LoseCookie
    PROVE  ConsentInv'
<1>1. TypeOK /\ OnTrail(cookie)
  BY DEF ConsentInv
<1>2. changes' \in 0 .. MaxChanges /\ UNCHANGED <<tab, trail, shown>>
  BY <1>1, ConsentConfig DEF TypeOK, Redeploy, ChangeUser, LoseCookie, Disturb
<1>3. terms' \in Terms /\ key' \in 1 .. MaxKeys
  <2>1. CASE Redeploy
    <3>1. PICK d \in Terms, k \in key .. MaxKeys : terms' = d /\ key' = k
      BY <2>1 DEF Redeploy
    <3> QED
      BY <1>1, <3>1, ConsentConfig DEF TypeOK
  <2>2. CASE ChangeUser \/ LoseCookie
    BY <1>1, <2>2 DEF TypeOK, ChangeUser, LoseCookie
  <2> QED
    BY <2>1, <2>2
<1>4. who' \in Email \cup {None}
  BY <1>1 DEF TypeOK, Redeploy, ChangeUser, LoseCookie
<1>5. cookie' \in {cookie, None}
  BY DEF Redeploy, ChangeUser, LoseCookie
<1>6. cookie' \in Acceptance \cup {None} /\ OnTrail(cookie)'
  BY <1>1, <1>2, <1>5 DEF TypeOK, OnTrail
<1>7. TypeOK'
  BY <1>1, <1>2, <1>3, <1>4, <1>6 DEF TypeOK
<1>8. ASSUME NEW u \in Tab
      PROVE  (/\ OnTrail(tab[u].carried) /\ OnTrail(tab[u].set)
              /\ Consented(tab[u]) /\ Sound(tab[u]))'
  BY <1>2 DEF ConsentInv, OnTrail, Consented, Sound
<1> QED
  BY <1>6, <1>7, <1>8 DEF ConsentInv

-----------------------------------------------------------------------------
(* The specification *)

\* The browser that is not on this app yet satisfies the invariant.
LEMMA ConsentInit == Init => ConsentInv
<1> SUFFICES ASSUME Init PROVE ConsentInv
  OBVIOUS
<1>1. PICK p \in TabState :
         /\ p = Page("away", None)
         /\ p.status = 0 /\ p.set = None /\ p.carried = None
         /\ p.request = "none" /\ p.view = "away" /\ p.text = None
  BY PageType DEF Views
<1>2. /\ tab = [t \in Tab |-> p] /\ cookie = None
      /\ terms \in Terms /\ key = 1 /\ who \in Email
      /\ trail = {} /\ shown = {} /\ changes = 0
  BY <1>1 DEF Init
<1>3. TypeOK
  BY <1>2, ConsentConfig DEF TypeOK
<1>4. Consented(p) /\ Sound(p) /\ OnTrail(None)
  BY <1>1 DEF Consented, Sound, OnTrail
<1> QED
  BY <1>1, <1>2, <1>3, <1>4 DEF ConsentInv, OnTrail

\* Every step keeps the invariant.
LEMMA ConsentStep == ConsentInv /\ [Next]_vars => ConsentInv'
<1> SUFFICES ASSUME ConsentInv, [Next]_vars PROVE ConsentInv'
  OBVIOUS
<1>1. CASE UNCHANGED vars
  BY <1>1 DEF vars, ConsentInv, TypeOK, OnTrail, Consented, Sound
<1>2. CASE Redeploy \/ ChangeUser \/ LoseCookie
  BY <1>2, DisturbanceStep
<1>3. ASSUME NEW t \in Tab, Open(t) \/ Reload(t)
      PROVE  ConsentInv'
  <2>1. /\ tab' = [tab EXCEPT ![t] = Ask(Page("loading", None), "shares")]
        /\ UNCHANGED <<terms, key, who, cookie, trail, shown>>
    BY <1>3 DEF Open, Reload
  <2>2. changes' \in 0 .. MaxChanges
    BY <1>3, ConsentConfig DEF ConsentInv, TypeOK, Open, Reload, Disturb
  <2> QED
    BY <2>1, <2>2, LoadStep
<1>4. ASSUME NEW t \in Tab,
             Serve(t) \/ Receive(t) \/ ClickAccept(t) \/ LoseAnswer(t)
      PROVE  ConsentInv'
  BY <1>4, ServeStep, ReceiveStep, ClickAcceptStep, LoseAnswerStep
<1> QED
  BY <1>1, <1>2, <1>3, <1>4 DEF Next

\* Every consent in a cookie or on its way is on record, in every execution.
THEOREM ConsentInvariant == Spec => []ConsentInv
BY ConsentInit, ConsentStep, PTL DEF Spec

\* TypeOK: the cookie, the pages and the trail keep their types.
THEOREM ConsentTyped == Spec => []TypeOK
<1>1. ConsentInv => TypeOK
  BY DEF ConsentInv
<1> QED
  BY <1>1, ConsentInvariant, PTL

\* AdmittedOnlyConsented: RequireTOS lets nobody through whose consent to the
\* document it runs with is not on the audit trail, whatever was redeployed, lost
\* or done in other tabs and by other users of the browser.
THEOREM ConsentAdmitted == Spec => []AdmittedOnlyConsented
<1>1. ConsentInv => AdmittedOnlyConsented
  BY DEF ConsentInv, AdmittedOnlyConsented, Consented
<1> QED
  BY <1>1, ConsentInvariant, PTL

-----------------------------------------------------------------------------
(* Informed consent, while neither the document nor the user changes *)

\* The page shows the document of the gateway to the user of the browser, and accepts
\* nothing else.
InformedPage(page) ==
    /\ page.view = "reading" => page.text = terms /\ <<Canonical[who], terms>> \in shown
    /\ page.request = "accept" => page.view = "reading" /\ page.email = who
    /\ page.request = "terms" /\ page.status = 200 => page.under = terms

Informed ==
    /\ ConsentIsInformed /\ who # None
    /\ \A t \in Tab : InformedPage(tab[t])

\* No redeployment with another document, and nobody signs in or out.
Steady == UNCHANGED <<terms, who>>

\* A step that replaces one page keeps what the others show.
LEMMA InformedReplace ==
    ASSUME TypeOK, Informed, Steady, NEW t \in Tab, NEW p, tab' = [tab EXCEPT ![t] = p],
           shown \subseteq shown', trail' \subseteq shown', InformedPage(p)'
    PROVE  Informed'
<1>1. ASSUME NEW u \in Tab PROVE InformedPage(tab[u])'
  <2>1. CASE u = t
    <3>1. tab'[u] = p
      BY <2>1 DEF TypeOK
    <3> QED
      BY <3>1 DEF InformedPage
  <2>2. CASE u # t
    <3>1. tab'[u] = tab[u] /\ InformedPage(tab[u])
      BY <2>2 DEF TypeOK, Informed
    <3> QED
      BY <3>1 DEF InformedPage, Steady
  <2> QED
    BY <2>1, <2>2
<1> QED
  BY <1>1 DEF Informed, ConsentIsInformed, Steady

\* An answered page shows what it showed, and the text that comes is the gateway's.
LEMMA InformedAnswer ==
    ASSUME TypeOK, Informed, Steady, NEW t \in Tab, NEW status, NEW set,
           tab' = [tab EXCEPT ![t] = Answered(tab[t], status, set)],
           shown' = shown, trail' \subseteq shown
    PROVE  Informed'
<1>1. tab[t] \in TabState /\ InformedPage(tab[t])
  BY DEF TypeOK, Informed
<1>2. PICK p : p = Answered(tab[t], status, set)
  OBVIOUS
<1>3. /\ p.view = tab[t].view /\ p.text = tab[t].text /\ p.request = tab[t].request
      /\ p.email = tab[t].email /\ p.under = terms
  BY <1>1, <1>2 DEF Answered, TabState
<1>4. InformedPage(p)'
  BY <1>1, <1>3 DEF InformedPage, Steady
<1> QED
  BY <1>2, <1>4, InformedReplace

\* The gateway records a consent only to what is shown.
LEMMA InformedServe ==
    ASSUME TypeOK, Informed, Steady, NEW t \in Tab, Serve(t) \/ LoseAnswer(t)
    PROVE  Informed'
<1>1. /\ shown' = shown
      /\ \E status, set : tab' = [tab EXCEPT ![t] = Answered(tab[t], status, set)]
  BY DEF Serve, ServeUnauthenticated, ServeShares, ServeTerms, ServeAccept, LoseAnswer
<1>2. \/ trail' = trail
      \/ /\ tab[t].request = "accept"
         /\ trail' = trail \cup {<<Canonical[tab[t].email], terms>>}
  BY DEF Serve, ServeUnauthenticated, ServeShares, ServeTerms, ServeAccept, LoseAnswer,
         Pending
<1>3. trail' \subseteq shown
  BY <1>2 DEF Informed, ConsentIsInformed, InformedPage
<1> QED
  BY <1>1, <1>3, InformedAnswer

\* A page that goes on to ask for something other than an acceptance.
LEMMA InformedAsk ==
    ASSUME TypeOK, Informed, Steady, NEW t \in Tab, NEW v, v # "reading",
           NEW request \in {"shares", "terms"}, NEW p,
           p.view = v, p.request = request, p.status = 0,
           tab' = [tab EXCEPT ![t] = p], shown \subseteq shown', trail' = trail
    PROVE  Informed'
<1>1. trail' \subseteq shown'
  BY DEF Informed, ConsentIsInformed
<1>2. InformedPage(p)'
  BY DEF InformedPage
<1> QED
  BY <1>1, <1>2, InformedReplace

\* What a page shows when its response arrives is the document of the gateway, and goes
\* on record as shown.
LEMMA InformedReceive ==
    ASSUME ConsentInv, Informed, Steady, NEW t \in Tab, Receive(t)
    PROVE  Informed'
<1>1. /\ TypeOK /\ tab[t] \in TabState /\ Sound(tab[t]) /\ InformedPage(tab[t])
      /\ who # None
  BY DEF ConsentInv, TypeOK, Informed
<1>2. PICK jar, after :
         /\ after = After(tab[t], jar)
         /\ tab[t].status # 0 /\ tab' = [tab EXCEPT ![t] = after] /\ trail' = trail
         /\ shown' = IF after.view = "reading" /\ who # None
                     THEN shown \cup {<<Canonical[who], after.text>>} ELSE shown
  BY DEF Receive
<1>3. shown \subseteq shown' /\ trail' \subseteq shown'
  BY <1>2 DEF Informed, ConsentIsInformed
<1>4. ASSUME NEW v \in Views \ {"reading"}, after = Page(v, None) PROVE Informed'
  <2>1. after.view = v /\ after.request = "none"
    BY <1>4 DEF Page
  <2>2. InformedPage(after)'
    BY <2>1 DEF InformedPage
  <2> QED
    BY <1>1, <1>2, <1>3, <2>2, InformedReplace
<1>5. ASSUME NEW v \in Views \ {"reading"}, NEW request \in {"shares", "terms"},
             after = [Ask(Page(v, None), request) EXCEPT !.carried = jar]
      PROVE  Informed'
  <2>1. after.view = v /\ after.request = request /\ after.status = 0
    BY <1>5 DEF Ask, Page
  <2> QED
    BY <1>1, <1>2, <1>3, <2>1, InformedAsk
<1>6. ASSUME after = Page("reading", terms) PROVE Informed'
  <2>1. after.view = "reading" /\ after.text = terms /\ after.request = "none"
    BY <1>6 DEF Page
  <2>2. InformedPage(after)'
    BY <1>1, <1>2, <2>1 DEF InformedPage, Steady
  <2> QED
    BY <1>1, <1>2, <1>3, <2>2, InformedReplace
<1>7. \/ \E v \in Views \ {"reading"} : after = Page(v, None)
      \/ \E v \in Views \ {"reading"}, request \in {"shares", "terms"} :
            after = [Ask(Page(v, None), request) EXCEPT !.carried = jar]
      \/ /\ tab[t].request = "terms" /\ tab[t].status = 200
         /\ after = Page("reading", tab[t].under)
      \/ tab[t].request = "accept" /\ after = Page("reading", tab[t].text)
  BY <1>1, <1>2, AfterCases
<1> QED
  BY <1>1, <1>4, <1>5, <1>6, <1>7 DEF InformedPage

\* The button sends an acceptance of what the page shows, for who is signed in.
LEMMA InformedClick ==
    ASSUME TypeOK, Informed, Steady, NEW t \in Tab, ClickAccept(t)
    PROVE  Informed'
<1>1. tab[t] \in TabState /\ InformedPage(tab[t]) /\ tab[t].view = "reading"
  BY DEF TypeOK, Informed, ClickAccept
<1>2. PICK p : p = Ask(tab[t], "accept")
  OBVIOUS
<1>3. /\ p.view = tab[t].view /\ p.text = tab[t].text /\ p.request = "accept"
      /\ p.email = who
  BY <1>1, <1>2 DEF Ask, TabState
<1>4. InformedPage(p)'
  BY <1>1, <1>3 DEF InformedPage, Steady, ClickAccept
<1>5. tab' = [tab EXCEPT ![t] = p] /\ shown' = shown /\ trail' = trail
  BY <1>2 DEF ClickAccept
<1>6. trail' \subseteq shown'
  BY <1>5 DEF Informed, ConsentIsInformed
<1> QED
  BY <1>4, <1>5, <1>6, InformedReplace

\* Every step that changes neither the document nor the user keeps consent informed.
LEMMA InformedStep == ConsentInv /\ Informed /\ [Next]_vars /\ [Steady]_vars => Informed'
<1> SUFFICES ASSUME ConsentInv, Informed, [Next]_vars, [Steady]_vars PROVE Informed'
  OBVIOUS
<1>1. CASE UNCHANGED vars
  BY <1>1 DEF vars, Informed, ConsentIsInformed, InformedPage
<1>2. CASE Steady /\ Next
  <2>1. TypeOK
    BY DEF ConsentInv
  <2>2. CASE Redeploy \/ ChangeUser \/ LoseCookie
    <3>1. UNCHANGED <<tab, trail, shown, terms, who>>
      BY <1>2, <2>2 DEF Redeploy, ChangeUser, LoseCookie, Steady
    <3> QED
      BY <3>1 DEF Informed, ConsentIsInformed, InformedPage
  <2>3. ASSUME NEW t \in Tab, Open(t) \/ Reload(t) PROVE Informed'
    <3>1. PICK p : p = Ask(Page("loading", None), "shares")
      OBVIOUS
    <3>2. p.view = "loading" /\ p.request = "shares" /\ p.status = 0
      BY <3>1 DEF Ask, Page
    <3>3. tab' = [tab EXCEPT ![t] = p] /\ shown' = shown /\ trail' = trail
      BY <2>3, <3>1 DEF Open, Reload
    <3> QED
      BY <1>2, <2>1, <3>2, <3>3, InformedAsk
  <2> QED
    BY <1>2, <2>1, <2>2, <2>3, InformedServe, InformedReceive, InformedClick DEF Next
<1> QED
  BY <1>1, <1>2

\* The overlay does its part: as long as the gateway runs with one document and one user
\* has the browser, a recipient is taken to have accepted only what was displayed to
\* them, whatever answers, cookies and keys are lost meanwhile and in however many tabs.
\* (AcceptHandler takes an acceptance to be of the document it runs with, so a change of
\* either in between is what it takes for ConsentIsInformed to fail.)
THEOREM ConsentInformedWhileSteady == Spec /\ [][Steady]_vars => []ConsentIsInformed
<1>1. Init => Informed
  <2> SUFFICES ASSUME Init PROVE Informed
    OBVIOUS
  <2>1. trail \subseteq shown /\ who # None
    BY ConsentConfig DEF Init
  <2>2. PICK p : p = Page("away", None)
    OBVIOUS
  <2>3. p.view = "away" /\ p.request = "none" /\ \A t \in Tab : tab[t] = p
    BY <2>2 DEF Init, Page
  <2> QED
    BY <2>1, <2>3 DEF Informed, ConsentIsInformed, InformedPage
<1>2. Informed => ConsentIsInformed
  BY DEF Informed
<1> QED
  BY ConsentInvariant, InformedStep, <1>1, <1>2, PTL DEF Spec

=============================================================================
