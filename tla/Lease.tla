------------------------------- MODULE Lease -------------------------------
(***************************************************************************)
(* What a login entitles to, said without cookies, browsers and requests:  *)
(* a gateway that kept a table of logins would enter each of them here     *)
(* (internal/auth/session.go names the two lifetimes, middleware.go who is *)
(* admitted).  The real gateway keeps no table; Session implements this    *)
(* one with what it writes into cookies.                                   *)
(***************************************************************************)
EXTENDS Integers

CONSTANTS
    AbsoluteTTL, \* SESSION_ABSOLUTE_TTL
    IdleTTL,     \* SESSION_IDLE_TTL; 0 turns the timeout off
    Login        \* logins there may be

VARIABLES
    now,   \* the clock
    key,   \* the session key in force
    lease  \* login -> when it was made, under which key, and when last used

\* A login is good under the key it was made with, within both lifetimes.
Good(l) ==
    /\ l.key = key
    /\ now <= l.since + AbsoluteTTL
    /\ IdleTTL > 0 => now <= l.used + IdleTTL

Grant(l) ==
    /\ l \notin DOMAIN lease
    /\ lease' = [k \in DOMAIN lease \cup {l} |->
                    IF k = l THEN [since |-> now, key |-> key, used |-> now]
                             ELSE lease[k]]
    /\ UNCHANGED <<now, key>>

\* A request of the login is admitted, which counts as activity.
Use(l) ==
    /\ l \in DOMAIN lease
    /\ Good(lease[l])
    /\ lease' = [lease EXCEPT ![l].used = now]
    /\ UNCHANGED <<now, key>>

Tick ==
    /\ now' = now + 1
    /\ UNCHANGED <<key, lease>>

\* All logins end at once.
RotateKey ==
    /\ key' = key + 1
    /\ UNCHANGED <<now, lease>>

\* Logins may be older than the process.
Init ==
    /\ now = 0 /\ key = 1
    /\ \E old \in SUBSET Login :
          lease = [l \in old |-> [since |-> 0, key |-> 1, used |-> 0]]

Next ==
    \/ Tick
    \/ RotateKey
    \/ \E l \in Login : Grant(l) \/ Use(l)

Spec == Init /\ [][Next]_<<now, key, lease>>
=============================================================================
