----------------------------- MODULE LoginGate ------------------------------
(***************************************************************************)
(* What the login limiter promises, without counters, clocks or settings:  *)
(* a request is admitted only while neither its IP nor its username is     *)
(* locked, and a lock is imposed only by the verdict on an admitted        *)
(* request, on that request's own two keys.  Locks may go at any time.     *)
(* Bruteforce implements this specification.                               *)
(***************************************************************************)
CONSTANTS IPs, Users, Requests

VARIABLES lockedIPs, lockedUsers,  \* the keys that are locked
          admitted                 \* [request -> [ip, user]], in progress

gateVars == <<lockedIPs, lockedUsers, admitted>>

GateInit == /\ lockedIPs = {} /\ lockedUsers = {}
            /\ admitted = [r \in {} |-> r]

\* Locks that ran out are noticed by the request that asks.
LetIn(r, ip, user) ==
    /\ r \notin DOMAIN admitted
    /\ lockedIPs' \subseteq lockedIPs \ {ip}
    /\ lockedUsers' \subseteq lockedUsers \ {user}
    /\ admitted' = [q \in DOMAIN admitted \cup {r} |->
                       IF q = r THEN [ip |-> ip, user |-> user] ELSE admitted[q]]

\* A verdict may lock or unlock the keys of its own request, no others.
Conclude(r) ==
    /\ r \in DOMAIN admitted
    /\ lockedIPs' \ {admitted[r].ip} = lockedIPs \ {admitted[r].ip}
    /\ lockedUsers' \ {admitted[r].user} = lockedUsers \ {admitted[r].user}
    /\ admitted' = [q \in DOMAIN admitted \ {r} |-> admitted[q]]

\* Time, the administrator, new settings.
Release ==
    /\ lockedIPs' \subseteq lockedIPs
    /\ lockedUsers' \subseteq lockedUsers
    /\ UNCHANGED admitted

GateNext == \/ \E r \in Requests, ip \in IPs, user \in Users : LetIn(r, ip, user)
            \/ \E r \in Requests : Conclude(r)
            \/ Release

GateSpec == GateInit /\ [][GateNext]_gateVars
=============================================================================
