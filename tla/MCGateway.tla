----------------------------- MODULE MCGateway -----------------------------
(* Small instances of Gateway for TLC.                                     *)
EXTENDS Gateway

CONSTANTS c1

To(method, path) == [method |-> method, path |-> path]

\* One request for each way through the tables: a share's routes with the right and
\* the wrong method, the consent endpoints, the public ones, a page, nothing at all.
MCRequests == {
    To("GET", <<"api", "shares">>), To("HEAD", <<"api", "shares", "s", "content">>),
    To("GET", <<"api", "shares", "s", "folder">>), To("GET", <<"api", "shares", "s", "upload">>),
    To("POST", <<"api", "shares", "s", "upload">>), To("GET", <<"api", "">>),
    To("GET", <<"api", "tos">>), To("POST", <<"api", "tos">>),
    To("POST", <<"api", "tos", "accept">>), To("GET", <<"readyz">>),
    To("GET", <<"auth", "error">>) }

Good == [required |-> TRUE, redirect |-> TRUE, key |-> TRUE, provider |-> TRUE,
         others |-> TRUE, absolute |-> Unset, idle |-> Unset, tos |-> Unset,
         tosPath |-> Unset]

\* The good environment with and without the gate, and with one or two things wrong.
MCEnvironments ==
    { Good, [Good EXCEPT !.required = FALSE], [Good EXCEPT !.redirect = FALSE],
      [Good EXCEPT !.key = FALSE], [Good EXCEPT !.provider = FALSE],
      [Good EXCEPT !.others = FALSE] }
    \cup { [Good EXCEPT !.tos = tos, !.tosPath = path] :
              tos \in {Unset, "false", "true", "junk"},
              path \in {Unset, "missing", "readable"} }
    \cup { [Good EXCEPT !.absolute = a, !.idle = i] :
              a \in {Unset, -1, 0, 2}, i \in {Unset, -1, 0, 2, 3} }
=============================================================================
