------------------------------ MODULE Routing ------------------------------
(***************************************************************************)
(* The routing table of the gateway (Handler of internal/api/api.go): the  *)
(* outer table, with /api/ mounted once behind RequireAuth and RequireTOS, *)
(* and the table behind it.  Which of several patterns a request meets is  *)
(* decided by net/http's ServeMux.                                         *)
(*                                                                         *)
(* A path is the sequence of its segments, cleaned; a path that ends in a  *)
(* slash ends in the empty segment.  In a pattern "*" stands for any one   *)
(* segment and a last "..." for the rest of the path.                      *)
(***************************************************************************)
EXTENDS Naturals, Sequences

On(method, path, handler) == [method |-> method, path |-> path, handler |-> handler]

AnyMethod == "any method"

\* The consent endpoints exist only with the gate; without it they are no routes.
ConsentRoutes == {
    On("GET",  <<"api", "tos">>,           "ContentHandler"),
    On("POST", <<"api", "tos", "accept">>, "AcceptHandler") }

\* Mutant: downloads are registered beside the gated subtree.
OuterUngated(gate) == {
    On(AnyMethod,    <<"...">>,                  "spa"),
    On("GET",  <<"api", "shares", "*", "content">>, "HandleDownload"),
    On(AnyMethod,    <<"api", "...">>,           "api") }
    \cup IF gate THEN ConsentRoutes ELSE {}

Outer(gate) == {
    On(AnyMethod,    <<"...">>,                  "spa"),
    On(AnyMethod,    <<"branding", "...">>,      "branding"),
    On("GET",  <<"healthz">>,              "handleHealthz"),
    On("GET",  <<"readyz">>,               "handleReadyz"),
    On("GET",  <<"auth", "login">>,        "LoginHandler"),
    On("GET",  <<"auth", "callback">>,     "CallbackHandler"),
    On("POST", <<"auth", "logout">>,       "LogoutHandler"),
    On(AnyMethod,    <<"api", "...">>,           "api") }
    \cup IF gate THEN ConsentRoutes ELSE {}

Api == {
    On("GET",  <<"api", "me">>,                                 "handleMe"),
    On("GET",  <<"api", "shares">>,                             "handleListShares"),
    On("GET",  <<"api", "shares", "*", "content">>,             "HandleDownload"),
    On("GET",  <<"api", "shares", "*", "folder">>,              "handleListFolder"),
    On("GET",  <<"api", "shares", "*", "folder", "*", "content">>,
                                                      "HandleFolderFileDownload"),
    On("POST", <<"api", "shares", "*", "upload">>,              "HandleUpload") }

-----------------------------------------------------------------------------
(* net/http.ServeMux (external) *)

Admits(pattern, method) ==
    \/ pattern.method \in {AnyMethod, method}
    \/ pattern.method = "GET" /\ method = "HEAD"

Covers(pattern, path) ==
    LET n == Len(pattern.path) IN
    /\ IF pattern.path[n] = "..." THEN Len(path) >= n ELSE Len(path) = n
    /\ \A i \in 1 .. n : LET segment == pattern.path[i] IN
          \/ segment \in {"...", path[i]}
          \/ segment = "*" /\ path[i] # ""

\* Does p match only some of the paths q matches?
MoreSpecific(p, q) ==
    /\ p.path # q.path /\ Len(p.path) >= Len(q.path)
    /\ \A i \in 1 .. Len(q.path) :
          \/ q.path[i] \in {"...", p.path[i]}
          \/ q.path[i] = "*" /\ p.path[i] # "..."

\* The handler of a request in a table, or why there is none.
Dispatch(table, request) ==
    LET covering == {p \in table : Covers(p, request.path)}
        matching == {p \in covering : Admits(p, request.method)}
    IN  CASE matching # {} -> (CHOOSE p \in matching :
                                  \A q \in matching \ {p} : MoreSpecific(p, q)).handler
          [] matching = {} /\ covering # {} -> "method not allowed"
          [] OTHER -> "not found"

-----------------------------------------------------------------------------

\* Where a request ends up, and which of RequireAuth and RequireTOS it passes on
\* its way there.
Route(request, gate) ==
    LET handler == Dispatch(Outer(gate), request) IN
    IF handler = "api"
    THEN [auth |-> TRUE, tos |-> gate, handler |-> Dispatch(Api, request)]
    ELSE [auth |-> handler \in {"ContentHandler", "AcceptHandler"}, tos |-> FALSE,
          handler |-> handler]

\* Where a request can end: at a handler of one of the tables, or at none.
Endings == ({p.handler : p \in Outer(TRUE) \cup Api} \ {"api"})
               \cup {"not found", "method not allowed"}

\* shellStatus: the status of a page of the frontend.
ShellStatus(path) ==
    CASE path = <<"">> \/ (path[1] = "share" /\ Len(path) > 1 /\ path[2] # "") -> 200
      [] path = <<"auth", "error">> -> 403
      [] OTHER -> 404
=============================================================================
