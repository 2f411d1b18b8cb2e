# A TLA+ development of Atrium Core

Atrium Core is a gateway in front of a storage provider (Nextcloud with a plugin): external
recipients sign in through OpenID Connect and reach the shares made for them through a small
web frontend. The gateway keeps **no server-side session state**. What it knows of a recipient
is in signed cookies, so the state of the system lives in the browser, in flight, in the
provider and in the wall clock. That is where most of what can go wrong does.

This directory holds the modules that model the gateway and the parts of the frontend that
interact with it, the abstract specifications they implement, the TLC instances that check them,
and TLAPS proofs about nearly all of them.

- [The system](#the-system)
- [Modules and code](#modules-and-code)
- [Runs](#runs): what is checked, the bounds, the fairness
- [Proofs](#proofs)
- [Where the code and its documentation part](#where-the-code-and-its-documentation-part)
- [What is not modelled](#what-is-not-modelled)
- [Plan](#plan)

Run a check with `tlc -config MCSessionOverlap.cfg MCSession`, the proofs of a
module with `tlapm SessionProofs.tla`.

## The system

| component | state | operations | talks to |
|---|---|---|---|
| session cookie and middleware (`internal/auth/session.go`, `middleware.go`, `internal/signedcookie`) | none in the process but the key; the signed cookie in the browser | `setSessionCookie`, `validateSessionCookie`, `touchSession`, `RequireAuth`, `LogoutHandler` | every request below `/api/`, the frontend through `Atrium-Session-Expires-In` |
| OIDC login flow (`internal/auth/oidc.go`) | flow cookies `state`, `nonce`, `pkce`, `oauth_next`; the provider's single sign-on | `LoginHandler`, `CallbackHandler`, `LogoutHandler` | identity provider, browser redirects |
| Terms-of-Service gate (`internal/tos`) | the document loaded at start; the signed `tos_accepted` cookie | `RequireTOS`, `ContentHandler`, `AcceptHandler` | behind `RequireAuth`, in front of the API; the overlay of the frontend |
| streaming proxy (`internal/proxy`) | one handler per transfer, the counting reader shared with the HTTP transport | `HandleUpload`, `HandleDownload`, `HandleFolderFileDownload` | provider client, recipient, audit log |
| provider client (`internal/provider`) | two HTTP clients with different timeouts | `ListShares`, `ListFolder`, `Download`, `DownloadFolderFile`, `Upload`, `HealthCheck` | the provider |
| routing (`internal/api`) | static tables | `Handler` | all of the above |
| configuration and lifecycle (`internal/config`, `cmd/atrium`) | environment; listener, signal and drain | `Load`, `run` | all of the above |
| audit log (`internal/audit`) | none | `Log` | – |
| end-to-end harness (`cmd/atrium-e2e`) | the dataset of its storage provider; the codes of its identity provider | the provider contract, `seed` | stands in for both providers, driven by the browser tests |
| frontend (`web/src`) | deadline in `localStorage`, overlay, shares, folder browser, uploads | hooks and components | the API of the gateway |

What makes each of them hard, and what makes it correct:

- **Session.** The cookie is re-issued by whichever request happens to be due, and several
  requests overlap. Responses arrive in any order or not at all. Time is rounded to seconds
  twice. Correct: no sequence of re-issues extends the absolute lifetime or invents activity;
  what is admitted is within both lifetimes; what is turned away was rightly so; a logout stays.
- **Login.** Tabs share the flow cookies. Logins are abandoned, cancelled, refused. The
  provider's single sign-on outlives the session of the gateway and would sign an idled-out
  recipient in again unasked, and a logout reaches the provider only after the gateway. Correct: single sign-on reinstates nobody beyond the bound, a logout
  ends it, and no login suffers from what an earlier one left behind.
- **Consent.** The document changes when the gateway is redeployed, the cookie belongs to a
  browser and the consent to a person. Correct: nobody passes without their own consent to the
  document in force, and nobody is stuck in the overlay.
- **Transfers.** Four parties move independently; any of them may stop at any moment.
  Correct: what is stored is whole, what the recipient is told is true, what is on record
  happened, and every transfer ends.
- **Frontend.** Answers race with navigation; the deadline is one number that several tabs
  write; a download's answer is read by nobody, and it may not even arrive. Correct: the page shows what its URL names,
  uploads go where they were dropped, the countdown neither lies nor comes late.
- **Harness.** The tests reset the dataset while requests of an earlier test may still run, and
  every handler takes the lock twice. Correct: limits hold, and neither the data nor the answers of
  one test contain anything of another's.
- **Process.** Correct: a wrong configuration does not start, a signal ends it within the
  drain, its exit status is honest, and nothing below `/api/` is reachable in front of the gates.

`PROJECT.json` lists every component with its status and every hazard with its line and the
properties meant to catch it.

## Modules and code

| module | models | composed of |
|---|---|---|
| `Session` | cookie, middleware, logout, the browser's jar and its connections | implements `Lease` |
| `Lease` | what a login entitles to: a table of logins, no cookies | – |
| `SessionClient` | the countdown of the frontend in several tabs | `Session` |
| `LoginFlow` | login, callback, logout, identity provider | – |
| `Consent` | the gate, its endpoints, the overlay | – |
| `ProviderStatus` | statuses of the provider, and what recipient and audit log make of them | – |
| `Upload` | one upload | `ProviderStatus`, implements `Transfer` |
| `Transfer` | what an upload promises, without bodies and timeouts | – |
| `Download` | one download | `ProviderStatus` |
| `SharePage` | the page of a share | – |
| `Routing` | the routing tables and net/http's precedence | – |
| `Gateway` | the process from environment to exit, with requests in flight | `Routing`, `ProviderStatus` |
| `StubProvider` | the storage provider of the end-to-end harness | – |
| `MC…` | instances for TLC | the module of that name |
| `…Proofs` | theorems about the module of that name (`SessionProofs` is about `SessionClient` as well) | that module |

Definitions carry the names of the code where they can. Operators marked *Mutant* in a
comment are deliberate errors, used by no specification: each of them, put in the place of
the definition below it, makes a property fail, which shows that the property depends on that
piece of code.

### Session

`jar` is the browser's cookie, with when it was received and for how long, `conn` the exchanges in
flight. A request takes the cookie when it is sent (`Send`), the gateway answers it
in one step (`Admit` or `Deny`, which are `RequireAuth`, `ServeLogout`, `ServeCallback`: a handler
reads nothing after it has validated the cookie but the clock), and the browser applies the
`Set-Cookie` when the response arrives (`Deliver`), or never does (`Lose`). So the interleavings are
those of requests and responses, the only ones there are: the handlers share no memory. A session
is its `issuedAt`, `expiresAt`, `lastSeen` and the key it was signed with; a login number stands for
the ID token and the address. `ZeroTime` is the `lastSeen` of a cookie issued before that field
existed (`session.go`), and one such cookie is in the initial jar. Ticks may be finer than a
second (`Second`), since `Max-Age` and the advertised time are rounded. `RotateKey` is a
redeployment with another `SESSION_KEY`.

`loginAt`, `loginKey`, `lastUse`, `loggedOut` and `crossed` are history: they decide nothing, they
let properties speak of the past. `loggedOut` are the logins whose logout the browser has seen the
end of while nothing else of them was under way. `crossed` are the logins with requests that
overlapped or lost an answer that set a cookie.

`Lease` is the gateway with a memory: a table that says of each login when it was made, under which
key, and when it was last used. The mapping is `Table`, which puts those three histories together; a
callback is `Grant`, an admitted request is `Use`, and everything browsers and connections do is a
stutter. `Use` demands both lifetimes and the key *of the table*, so the refinement says that the
gateway admits by what copies of a cookie say only what the table would admit as well.

### SessionClient

Extends `Session` with the pages of a browser. Every step of the frontend is a step of
`Session` (or leaves its variables alone): a page fetches, uploads, starts a download, signs in or
signs out (`Send`), and reads the header when the answer arrives (`Receive`). A download is a link
the browser follows, so nobody reads its header and `NoteUnreadRequest` guesses, before the link is
followed. Any request may be lost, a download as well (`LoseCall`); what was guessed for it then stands
on nothing (`BasisWithout`). A request takes no longer than `Latency`, but an upload, once it has been let in, is answered whenever the provider has the
file: its cookie and its header are those of the moment it started. `deadline` is the value in
`localStorage` that all tabs share.

### LoginFlow

`flow` stands for the three cookies that are set and cleared together, `next` for `oauth_next`. A
tab starts a login (which overwrites the cookies), goes to the provider, and comes back with the
cookies it finds by then. `Refusal` is the sequence of checks of `CallbackHandler` in their order.
The provider is one of three kinds chosen at the start: one that honours `max_age`, one that only
attests `auth_time`, one that does neither. Claims are fit to sign in or name the check they fail.
The answer to a callback may be lost after the code was redeemed (`AnswerLost`): the browser then
repeats the callback with a code that is spent. The user may go back to the page of the provider,
whose address still holds the parameters of the login, and finish there once more (`Back`). A logout
takes two steps, between which other tabs go on: the gateway deletes its cookie and redirects
(`Logout`), to the provider only when the session is still valid; the provider ends its session
(`EndSso`). The redirect may be lost or declined at the provider (`Leave`).

### Consent

The gate, both endpoints and, on the other side, the loop load – overlay – text –
accept – reload of the frontend. A document stands for its hash, `Canonical` for
`audit.Canonical` (several spellings of one address). Redeployments change document or key;
`ChangeUser`, `LoseCookie` and `LoseAnswer` are the other disturbances, counted together.

### Upload and Download

One transfer each, since transfers share nothing but the provider. In `Upload` the recipient
(`SendBody`, `Disconnect`), the transport of the HTTP client (`Transport`: it reads through
`countingReader` and `MaxBytesReader`), the provider (`Store`, `Refuse`) and the handler (`Handle`)
take their steps independently; time only passes. Bodies are counted in units copying does not
split. A declared length is refused up front, a chunked body is cut when it passes the limit.
`Transfer` says what all this is to keep to: a file is kept whole or not at all (`Keep`), confirmed
only when kept (`Confirm`), refused only when not kept, then or later (`Refuse`), and 500 and 503
are the answers that leave the matter open (`LeaveOpen`). In `Download` the handler copies into a
response of which `Window` fits under way; when it returns `net/http` ends the response, and
`verdict` is what a client makes of what it received.

### SharePage

`route` is the URL, `view` the state of the mounted `ShareView`, `fetches` the runs of its effect
that wait for an answer (a second one, for the folder around a file, included), `uploads` the
loops of `handleFiles`. `Effect` cancels what ran before and starts anew, as React does when
one of its dependencies changed.

### Routing and Gateway

A path is a sequence of segments, and `Dispatch` chooses the most specific pattern as
`net/http.ServeMux` documents it. `Gateway` is `main` as a sequential process (`Main`) next to the
goroutine of the listener, the signal and the connections. The environment is abstracted to what
`Load` and the start tell apart. A request carries a valid session and a valid consent or not; how
they come about is the subject of `Session` and `Consent`. Below `/api/` a request has a second
segment: net/http redirects the bare `/api`.

### StubProvider

Every handler of `stubprovider.go` takes the lock to look its share up (`authorize`), lets go of it,
and takes it again to read or change what it found (`handleContent`, `handleFolder`,
`handleFolderFile`, `Store`); `seed` may put a new dataset in place in between. The handler then
goes on with the share it holds, which is a pointer into the old dataset, so the datasets are
numbered and old ones kept. A folder is a sequence of entries; an upload is named by its position
(`up-<n+1>`), as in the code. `home` of an entry is history, for `Apart`. Every operation may be asked
of every share (`Asked`); on a share that is one file one path and one id stand for all.

## Runs

Every run finishes in seconds to a little over two minutes. Properties marked (L) are liveness, (R) a refinement.

| run | instance | checks |
|---|---|---|
| `SessionOverlap` | 2 connections that may lose responses, 2 logins, 2 keys, 4 ticks of half a second, lifetimes 3 and 2, refresh 1 | `TypeOK`, `Provenance`, `LogoutSticks`, `ImplementsLease` (R) |
| `SessionClientAll` | 2 tabs, 2 connections, lossy, 4 requests, 5 ticks of half a second, lifetimes 5 and 3, refresh 2, latency up to 1 | `ClientTypeOK`, `WarnsInTime`, `NoFalseLogout`, `IdleNotEarly`, `NoEarlyDrop` |
| `LoginFlowTabs` | 2 tabs, 2 logins, 2 paths, clock up to 4, all three kinds of provider, with `end_session_endpoint` | `TypeOK`, `NoSilentReinstatement`, `ReinstatementBounded`, `LogoutEndsSSO`, `NoSpuriousRefusal`, `ReturnsWhereAsked`, `SingleUse` |
| `ConsentAll` | 2 tabs, 2 people of whom one has 2 spellings, 2 documents or no gate, 2 disturbances | `TypeOK`, `AdmittedOnlyConsented`, `AcceptingLetsIn` (L) |
| `UploadAll` | bodies of 0 to 3 units, limit 2, timeout 2 | `TypeOK`, `OnRecord`, `ImplementsTransfer` (R), `Answered` (L) |
| `DownloadAll` | files of 0 to 3 units, window 2, timeout 3 | `TypeOK`, `OnRecord`, `DeclaredMeansWhole`, `Ended` (L) |
| `SharePageAll` | a share that can be browsed and one that cannot, root, sub-folder, file; 3 runs of the effect, 1 selection of up to 2 files, 1 reload | `TypeOK`, `ShowsUrl`, `UploadsStay`, `Loads` (L) |
| `GatewayAll` | 36 environments, 1 connection, 11 requests, every kind of answer | `TypeOK`, `DenyByDefault`, `StartsAsConfigured`, `CleanExit`, `Terminates` (L) |
| `StubProviderAll` | 2 requests with good and undecodable tokens, 2 datasets; a limited file and a folder with a sub-folder, everything asked of both; folders of up to 3 entries | `TypeOK`, `LimitHeld`, `Apart` |
| `ConsentInformed`, `DownloadChunked`, `SharePageUpload` | as above or smaller | one property each that the code violates, see below |

Every passing property is one that some plausible error breaks: `PROJECT.json` "mutants" names
the error, and with it TLC reports that property.

### What they show

- `ImplementsLease`, `Provenance`: whatever order overlapping responses arrive in, the absolute
  expiry never moves, a re-issued cookie never claims activity the gateway did not see, and so a
  gateway that remembers nothing admits nobody whom one with a table of logins would turn away. An
  older copy may overwrite a newer one; that costs the recipient some idle window, and gains nobody any.
- `IdleNotEarly`: the refresh throttle costs a login less than one interval, unless its requests
  overlapped or lost a re-issued cookie. Then an older copy may be what the jar is left with, and
  there is no bound below the idle window itself.
- `LogoutSticks`: a logout is final once the browser has the answer to it and nothing else of that login
  is under way. The condition is needed, see below.
- `NoEarlyDrop`: rounding `Max-Age` costs less than half a second; truncating it would cost more.
- `WarnsInTime`, `NoFalseLogout`: the countdown is late by at most the time the response took that
  told it (for a download, which nobody reads, the refresh interval) and the time the jar's cookie
  was under way, and early by no more than half a second (for a download, the time it took). A download
  that was lost puts the warning off for nothing, by one idle window at most, and however many were
  lost: the session may end unwarned then, see below.
- `NoSilentReinstatement`, `ReinstatementBounded`: at a provider that honours `max_age`, a login
  started after the session went idle needs a new authentication; at one that does not, the
  `auth_time` check of the callback leaves the leeway open and no more.
- `LogoutEndsSSO`: with an `end_session_endpoint`, a logout *from a valid session* that has come to
  the logged-out page leaves no single sign-on from before it, nor a code of it in another tab whose
  login started after. A redirect that is lost or declined ends nothing, and a login started while
  it is under way may still be silent. A logout from an expired session
  does not reach the provider, see below.
- `SingleUse`: one login never makes two sessions, though an answer was lost after the code was
  redeemed or the user went back and authenticated again under the same parameters.
- `NoSpuriousRefusal`, `ReturnsWhereAsked`: two tabs disturb each other's logins (`crossed` says
  when); nothing else does.
- `AdmittedOnlyConsented`, `AcceptingLetsIn`: as named, across changes of user, key and document.
- `ImplementsTransfer`: a body cut short by the limit is *aborted* at the provider, not ended, so it
  is never stored; exactly the limit passes; 201 means stored whole and on record; after a refusal
  the file is not kept, so trying again makes no second copy, and after a 500 or 503 it may.
- `OnRecord`: a completion record gives the right size, and there is none without a start.
- `DeclaredMeansWhole`: with a declared length a broken transfer is visible to the recipient.
- `ShowsUrl`, `UploadsStay`, `Loads`: late answers never win over newer ones, the page settles
  on its URL, and a selection's files follow the folder they were dropped on.
- `DenyByDefault`: precedence of patterns gives no way around the gates; the consent endpoints
  are the exception that is meant; and a 401, which sends a signed-in recipient to
  the login, never originates at the provider. `CleanExit`, `Terminates`: a cut-off transfer
  shows in the exit status, and a signal ends the process even while discovery hangs.
- `LimitHeld`, `Apart`: a download limit holds under concurrent requests and resets because it is
  looked at and counted under one lock; a straggler authorised before a reset works on the dataset
  it was authorised in, so it does not disturb the next test.

### Why the bounds are enough

- *Two connections and two tabs* are what the hazards need: each is a race of one late actor
  with one other. `SharePageAll` has one selection, so the dropzone that is busy with its first
  selection turns a second one away by `Busy` without TLC taking a step for it. `GatewayAll` has one
  connection: requests share nothing but the process.
- *Clocks* run past the longest lifetime by at least one tick (in `SessionClientAll` and
  `LoginFlowTabs` they reach the absolute expiry and pass the idle one), so before, at and after
  each limit are all reached. Ticks are half seconds in both runs of the session, so
  half of all times to come are rounded (up, as the code rounds halves; the proofs have ticks of any
  length). The refresh interval is two ticks in `SessionClientAll`, so a refresh can be one tick from
  being due, and `IdleNotEarly` is tight there. Four requests suffice in `SessionClientAll`: one to
  load each tab, and two that race.
- *Transfers* are sized one unit below, at and above the limit; the window is smaller than the
  largest file.
- *Shares* of the harness's provider: a file with a limit and a folder have all the code the other
  fixtures use but `filterByMode` with entries to hide, which the proofs cover.
- *Disturbances*, logins, effects, resets: the shortest traces to the mutants' violations need one
  or two of each.
- `MaxTime`, `MaxLogins`, `MaxKeys`, `MaxFlows`, `MaxChanges`, `MaxRuns`, `MaxUploads`,
  `MaxReloads`, `MaxSize`, `MaxCalls`, `MaxDatasets`, `MaxCount`, `MaxEntries` are bounds of the
  models and of nothing in the code; all others name a setting, except `Latency` (how long a request
  of the frontend may take; `SessionClient` bounds it, the code does not) and `Window`.
- Symmetry is used in the runs without liveness, over connections, tabs and requests, which no
  module compares or orders.

`CHECK_DEADLOCK FALSE` is set where the subject ends: a transfer is over, the process has
exited, the page has used up its effects.

### Fairness

- `Consent`: the gateway serves, the answer arrives, and a recipient who has the text before
  them presses the only button. Without that last assumption nobody would ever get out of an overlay.
- `Upload`: the handler's own steps and time. Nothing is asked of recipient or provider, who
  may stall for ever: the timeout of the stream client has to do it, and does.
- `Download`: the same, and that a recipient who is *still connected* reads on. The code
  has no write timeout (`main.go:85`), so without it nothing would end a download whose
  recipient holds the connection and reads nothing. `Refused` and the provider's steps are not fair.
- `SharePage`: the gateway answers.
- `Gateway`: `main` takes its own steps. Nothing is asked of discovery, of the handlers, or of the
  provider.

The other specifications are checked for safety only.

## Proofs

TLAPS proves every safety property and both refinements of the passing runs, for every value of the
constants that the assumptions admit, and a few results that no run states: that `SessionClient`
implements `Session`, that a login that is over stays over, that an upload's verdict is final, that
the routing tables are unambiguous and gate exactly `/api/`, and under which condition consent is
informed after all. Each of these was checked on an instance before it was proved.

### Session

`SessionProofs` proves about `Session`, for **every** lifetime, refresh interval, tick, clock
bound, number of logins and keys and set of connections:

| theorem | statement |
|---|---|
| `SessionTyped` | `Spec => []TypeOK` |
| `SessionProvenance` | `Spec => []Provenance` |
| `SessionNoEarlyDrop` | `Spec => []NoEarlyDrop` |
| `SessionImplementsLease` | `Spec => ImplementsLease` |
| `SessionIdleNotEarly` | `Spec => []IdleNotEarly` |
| `SessionLogoutSticks` | `Spec => []LogoutSticks` |
| `SessionOverStays` | `Spec => [][OverStays]_vars` |

Assumptions: `SessionConfig`, which is what `config.Load` guarantees (both lifetimes in range,
the idle one no longer than the absolute one) and the scale of the model; `Sentinels`, that the
two markers are no sessions.

The argument. None of the properties is inductive alone: that a request is admitted only in time
rests on the cookie it carries being genuine, that needs to hold of copies in flight, and a copy
that is delivered becomes the jar's. `SessionInv` is therefore the conjunction of

- `TypeOK` and `Provenance`;
- `Clocked`: no login was used in the future, so that a request served now only moves `lastUse` up
  and every genuine copy stays genuine;
- `MaxAgeCovers`: a `Max-Age` on its way to the browser reaches the deadline of its cookie
  to less than half a second. It is needed because `NoEarlyDrop` speaks of the jar, and a cookie
  enters the jar some time after its `Max-Age` was computed;
- `NoEarlyDrop`.

`SessionInvariant` has one lemma per action (`SessionAdmit`, `SessionClear`, `SessionCallback`,
`SessionNoResponse`, `SessionDeliver`, `SessionTick`, `SessionRotate`), and `ReplaceExchange` states
once what replacing a single exchange must respect. The arithmetic of rounding is isolated in
`RoundBound`, the one place that divides.

The refinement is a step simulation (`LeaseInit`, `LeaseStep`): only `Admit` and `ServeCallback`
change the table, and `AcceptedIsGood` turns what validation saw in a genuine cookie into what
`Lease` asks of its login.

`OverStays` says of every login of the table that is not `Good` any more that no step makes it good
again or counts a use of it. It is a consequence of the refinement's core, that admissions are of
good logins only, of the clock and the key going forward, and of one more invariant, that no login
was made with a key still to come (`Keyed`).

`IdleNotEarly` is about logins that nothing `crossed` and `LogoutSticks` about logouts with nothing
else of the login under way, with any number of connections. `OverlapInv` says of such a login that no two exchanges are about it (`Alone`), that the jar keeps
the cookie a request carries as long as that is under way (`Carried`), that the newest copy,
wherever it is, lags behind the last use by less than one interval (`FreshSent`, `FreshSet`,
`FreshJar`); and of a login logged out that nothing of it is left (`Ended`).

### SessionClient

The second part of `SessionProofs` proves `ClientTyped`, `ClientNoFalseLogout`, `ClientWarnsInTime` and
`ClientNoEarlyDrop` (`ClientSpec => []...` of the property each is named for), for any number of
tabs, connections and requests, from the assumptions above and `ClientConfig` (latency and bound are
numbers). Since every step of the frontend is one of `Session`, `SessionInv` holds and its lemmas
are used again. `ClientInv` adds, per connection (`Fits`), that a response tells the deadline of its
own login's cookie, right to half a second when it was computed (`Tells`, `Advertised`), and that
one without a cookie means none was due (`NotDue`); and of the tabs, that they know of the session
in the jar when they were told of it (`Informed`) and how far ahead of it they can be (`Heard`,
`Guessed`). The invariant speaks of `Horizon`, the deadline or the present once that has passed,
which forgetting a deadline does not move. A guess whose download is lost is
bounded by the clock alone, in `Guessed`. `StoreEffect` and `ReceiveEffect` state once what a
delivered answer does.

`ClientImplementsSession` (`ClientSpec => Spec`) makes the relation of the two modules a theorem: the
frontend is one of the browsers of `Session`, which may send anything at any time.
`ClientKeepsPolicy` draws the conclusion: with the frontend on top, the gateway still implements
`Lease`, and `OverStays`, `LogoutSticks`, `NoEarlyDrop` and `IdleNotEarly` hold.

### LoginFlow

`LoginFlowProofs` proves all seven properties of the run, for any number of tabs, paths and logins
and all lifetimes, from `LoginConfig`: `FlowTyped`, `FlowNoSilentReinstatement`,
`FlowReinstatementBounded`, `FlowLogoutEndsSSO`, `FlowNoSpuriousRefusal`, `FlowSingleUse`,
`FlowReturnsWhereAsked`. `FlowLogoutEndsSSO` assumes `EndSession`; without that endpoint the
property is false. It takes from `Current` that single sign-on is younger than the last logout the
provider has answered, and from `Vouched` that so is a code given out since.

`FlowInv` says that no two tabs are on the same login (`Distinct`), that the cookies in the browser
are those of a login not answered yet and that single sign-on is younger than the last logout
(`Current`), and of every tab (`Sound`) what its cookies are as long as nobody touched them
(`Kept`), what a callback carries (`Carried`), how old the authentication behind it may be
(`Vouched`), and what is asked of a login that led to a session (`Landed`). `FlowOthers` deals once
with the tabs a step is not about.

### Consent

`ConsentProofs` proves, for any number of tabs, people, spellings, documents, keys and disturbances,
and from `ConsentConfig` alone (an address has one recipient, `None` is nobody, bounds are numbers):

| theorem | statement |
|---|---|
| `ConsentTyped` | `Spec => []TypeOK` |
| `ConsentAdmitted` | `Spec => []AdmittedOnlyConsented` |
| `ConsentInformedWhileSteady` | `Spec /\ [][Steady]_vars => []ConsentIsInformed` |

The property speaks of pages that were let through. That they were rightly so depends on the
cookie the request carried, which was the jar's when it was sent, which came from some response,
perhaps to another tab and under another document. `ConsentInv` therefore says of *every* copy of
the cookie (in the jar, in requests, in responses) that its consent is on the trail
(`OnTrail`). It holds because `AcceptHandler` records before it answers and the trail only grows;
the signature is what makes it enough. `Sound` restricts pages to the answers their
handlers give, which `TypeOK` needs: the overlay can only show a document there is. `ReplacePage`
states once what replacing one page must respect; each action has a lemma that cites it, and
`AfterCases` sums up what an answer makes of a page.

`ConsentIsInformed` does not hold (see below). The third theorem says what protects it: in an
execution in which neither the document nor the user of the browser changes (`Steady`), whatever
keys, cookies and answers are lost, it does. `Informed` is inductive under `Steady`: an overlay with a
text shows the gateway's document and that was recorded as shown to the user, and an acceptance
under way comes from such an overlay. So the two kinds of counterexample, an edited document and
another user between display and click, are all there are.

### Upload and Download

`UploadProofs` and `DownloadProofs` prove, for every limit, size, timeout and window, from
`UploadConfig` and `DownloadConfig` (these are numbers, and time-outs are positive):

| theorem | statement |
|---|---|
| `UploadTyped`, `DownloadTyped` | `Spec => []TypeOK` |
| `UploadOnRecord`, `DownloadOnRecord` | `Spec => []OnRecord` |
| `UploadImplementsTransfer` | `Spec => ImplementsTransfer` |
| `UploadVerdictFinal` | `Spec => [][VerdictFinal]_vars` |
| `DownloadDeclaredMeansWhole` | `Spec => []DeclaredMeansWhole` |

`UploadInv` ties the parties together: what the counting reader counted is what the provider got, no
more than was sent or is allowed; each way the copying ends says how far it got (`eof`: all of it;
`too_large`: the body is); the provider stores only after `eof`; the answer and the records follow
from how the handler ended. The simulation of `Transfer` (`OutcomeInit`, `OutcomeStep`) rests on it:
`StoredIsWhole` gives that what the provider stored is all of the file. `VerdictFinal`, that nothing
is told, kept or recorded after a confirmation or a refusal, is read off the simulation: no action of
`Transfer` is possible then. `DownloadInv` does the same
the other way round: nothing is written before the start is on record, a body at its end was offered
whole, and completion is recorded, or believed by the recipient, only when the handler is done.
`UploadFails` and `DownloadFails` deal once with all the ways to fail.

### SharePage

`SharePageProofs` proves `PageTyped`, `PageShowsUrl` and `PageUploadsStay` for any number of shares,
folders, files, runs of the effect, selections and reloads, from `PageConfig`. `PageInv` has two
parts. `Following`: runs that may still change the page ask for what the URL names (`Aimed`), and
folder, entries and popup of a page go together (`Together`), which is why `ShowsUrl` survives an
answer. `Sending`: selections are numbered, one made on a settled page is aimed at the folder of its
URL, and every stored file went where its selection was aimed (`Placed`). `PageEffect` states once
what a run of the effect does.

### Gateway

`GatewayProofs` proves, for every set of environments, any number of connections and any
requests, from `GatewayConfig`:

| theorem | statement |
|---|---|
| `GatewayTyped` | `Spec => []TypeOK` |
| `GatewayCleanExit` | `Spec => []CleanExit` |
| `GatewayStartsAsConfigured` | `Spec => []StartsAsConfigured` |
| `GatewayDenyByDefault` | `Spec => []DenyByDefault` |
| `RoutesUnambiguous` | for every method and path, one of the matching patterns is the most specific |
| `RoutesGated` | exactly the requests below `/api/` go through `RequireAuth`, and `RequireTOS` |

`GatewayInv` says what is settled at each stage of `main` (`Settled`) and that the listener runs
only while `main` waits and nobody is cut off before the end (`Orderly`). `DenyByDefault` needs more
(`GatedInv`): a request that is below `/api/` and with a handler behind the gates has passed them
(`Passed`), and there are no requests before the gate is settled (`Quiet`). Its lemmas about the
tables say that every path below `/api/` is dispatched to the gates, whatever pattern is more
specific inside (`GatewayApi`, `GatewayGates`), and that no handler and no status of the provider
becomes a 401 (`GatewayNo401`). The assumption of `GatewayConfig` about the bare `/api` is
net/http's: it redirects that path before it dispatches it.

The two theorems about routes quantify over all requests there can be, not over `Requests`.
`Dispatch` chooses a most specific pattern, and a choice means nothing where there is none, so
`RoutesUnambiguous` comes first: two patterns of the outer table other than the one for everything
overlap only below `/api/` (`OuterOverlap`), where the subtree gives way to the two routes to consent,
which exclude each other; behind the gates no two patterns overlap. It is also what the type of an
exchange rests on: the handler a request ends at is one of the tables (`DispatchEnds`,
`GatewayRoute`). `RoutesGated` says both directions of deny-by-default: nothing below `/api/` gets
around the gates, and nothing else runs into them, the login above all.

### StubProvider

`StubProviderProofs` proves, for any number of requests, tokens, shares, names and datasets, from
`StubConfig` (bounds are numbers, folders may hold what the fixture puts in them, `None` is no folder):

| theorem | statement |
|---|---|
| `StubTyped` | `Spec => []TypeOK` |
| `StubLimitHeld` | `Spec => []LimitHeld` |
| `StubApart` | `Spec => []Apart` |

`StubInv` adds `Own` to the three: whoever is let in asks for a share of their own. `Apart` rests on
what `resolve` and `findByID` return. Both walk a tree whose entries all belong to one share of one
dataset (`OwnTree`) and find an entry of it, the root or nothing (`Reached`: `ChildIn`, `ResolveIn`,
`FindIn`). `resolve` is a recursive function of the number of steps. That the function it names exists
(`WalkExists`) is proved without induction: if some prefix of a path had no walk, there would be a
shortest one (`Least`, by the well-foundedness of the naturals), and the walk of the prefix before it
could be extended by a step.

### Model-checked only

All liveness (`AcceptingLetsIn`, `Answered`, `Ended`, `Loads`, `Terminates`), which, like `ENABLED`, is
beyond the prover; and the three properties that fail, whose counterexamples are TLC's.

## Where the code and its documentation part

Three runs exhibit a violation of a statement of the repository (`PROJECT.json` "findings"):

- **`ConsentIsInformed`** (`internal/tos/handler.go:62`). The acceptance names no version: when the
  document is replaced between display and click, the consent is recorded for a document that was
  never displayed, against "editing the document forces re-consent" (`docs/configuration.md:69`).
- **`WholeMeansWhole`** (`internal/proxy/proxy.go:104`). When the provider's body breaks off and its
  length was not declared, the handler returns normally and the server ends the chunked body
  properly: the recipient keeps a truncated file as a complete one.
- **`UploadsWhereBrowsed`** (`web/src/components/ShareView.tsx:176`). The dropzone gets the folder
  of the last listing; dropped on while the listing of the URL is loading (or has failed), files go
  to another folder than the URL's.

Others were met while modelling; the models follow the code:

- *A late refresh undoes a logout* (`middleware.go:98`). A request refreshed before a logout and
  delivered after it puts the session back, against "On logout the gateway clears its session cookie"
  (`docs/architecture.md:57`). `LogoutSticks` is therefore about logouts with nothing else of the login
  under way; without that condition TLC finds it violated in the instance of `SessionOverlap`.
- *A late 401 clears a fresh cookie* (`middleware.go:48`). The denial of a request sent before a
  login deletes the cookie of that login when it arrives after it: the deletion names no session,
  though `middleware.go:41` speaks of "the stale cookie". No property is stated: with this case
  excluded, that a deletion meets its own session follows from how browsers send cookies.
- *A lost download hides the warning* (`web/src/lib/api.ts:139`). The deadline is moved before the
  download is requested, and stays when the request never arrives: the session then goes idle while
  the countdown is far from its warning, against "Warns before the gateway ends an idle session"
  (`SessionTimeout.tsx:15`). `WarnsInTime` allows for it, and bounds it.
- *A late upload puts back the cookie of its start* (`middleware.go:62`). The cookie of an upload
  was re-issued when it began and is stored when it ends. After one that lasted longer than the idle
  window the browser is left with a cookie that has idled out, though the recipient may have been
  active in another tab all along; the countdown, which only moves forward, does not show it.
  `WarnsInTime` allows for it (`Underway`).
- *The idle window slides in steps* (`middleware.go:62`, `docs/configuration.md:50`). With
  `SESSION_IDLE_TTL` no longer than the refresh interval of 60 s it does not slide at all.
- *`Max-Age` 0 is omitted* (`session.go:99`): a cookie re-issued in its last half-second
  becomes one without expiry, which the gateway still refuses in time.
- *Logging out of an expired session leaves single sign-on* (`middleware.go:103`): the handler then
  has no ID token for the hint, and leads to the logged-out page at once. `docs/architecture.md:58`
  says that logout ends it, `middleware.go:93` that otherwise the next request would silently sign in.
- *The leeway* (`oidc.go:116`) lets single sign-on reinstate for `authTimeLeeway` longer than
  `docs/architecture.md:54` suggests, at providers that ignore `max_age`.
- *A stale `oauth_next`* (`oidc.go:207`): a login without a path follows the cookie an abandoned one
  left.
- *Chunked oversize uploads stream up to the limit before their 413* (`proxy.go:142`); the limit of
  `config.go:90` is not checked up front as it is for declared lengths.
- *`/auth/logged-out` is served with 404* (`webui.go:88`), though the frontend has that page.
- *The gate switched off under an open overlay*: accepting answers 404 until the page is reloaded.
- *Listings answer 502 for an unexpected provider status, transfers 500* (`api.go:137`, `proxy.go:159`).
- *In the harness's provider* (`stubprovider.go`): an upload is numbered by its position in its
  folder, so uploads to two folders of a share can get the same id and `findByID` returns the first;
  `handleFolderFile` ignores the mode of the share, and a path to a file shows its entry whatever
  the mode, though the gateway relies on the provider to enforce it (`proxy.go:63`). The model
  follows all three.
- *Discovery has no timeout* (`main.go:45`): the start hangs until a signal. A second signal during
  the drain is ignored.

## What is not modelled

- *Formats*: PEM and JWT minting, JSON, CSV and colour parsing, templates, audit formatting and
  pseudonymisation, security headers, branding, translations: no state, and nothing interleaves.
- *Signatures* are the key they were made with; a cookie with a wrong key does not verify.
- *`safeNextPath`, acr matching*: a path is a safe one, a claim is good or names its failure.
- *Frontend*: the `?file=` popup as a history entry and history jumps between two shares,
  out-of-order answers of two reloads of the shares (they change only counters on display).
  Presentation.
- *The provider's file system*: what a second upload of a name does is the provider's business. A
  provider that answers 2xx before it has read the body is outside `Upload`.
- *Doubles of the tests*: the form and the signing of the identity provider of `cmd/atrium-e2e`, and
  `internal/authtest`, whose codes and claims `LoginFlow` has in a more general form. Of the storage
  provider, the JSON it answers with.

## Plan

Done: all modules of the table above, and the proofs of all their safety properties and
refinements. What is left, the most important first:

1. *A recipient who reads nothing* (`main.go:85`): `Ended` assumes they read on; a model of the
   connection's keep-alive would show under which settings of a proxy in front the handler is let
   go.
2. *A provider that answers 2xx early* (`proxy.go:155`), where the handler reads the counter while the
   transport still copies.
3. *Frontend*: the popup's history entry in `SharePage`, and the order of two reloads of the shares.
4. *Values of the environment* whose edge cases matter (`MAX_UPLOAD_SIZE`, durations), and
   pseudonymisation against `Canonical`.
5. *Proofs*: what `Download` promises as an abstract specification of its own, as `Transfer` is for
   `Upload`, and its simulation.
