----------------------------- MODULE AuditTrail -----------------------------
(***************************************************************************)
(* What the audit store promises of its trail, whatever fails: an event is *)
(* written at most once, in the order it was reported, and the events still*)
(* waiting are always newer than those written.  It does not promise that  *)
(* an event survives.                                                      *)
(***************************************************************************)
EXTENDS GoMaps, Integers, Sequences

CONSTANT Events

VARIABLES
    reported,  \* events reported so far
    pending,   \* those waiting to be written, oldest first
    trail,     \* row number -> event
    last       \* last row number used

TrailInit == reported = {} /\ pending = <<>> /\ trail = Empty /\ last = 0

\* An event is reported, once; it may not be taken.
Report(e) ==
    /\ e \notin reported
    /\ reported' = reported \cup {e}
    /\ pending' \in {pending, Append(pending, e)}
    /\ UNCHANGED <<trail, last>>

\* The n oldest waiting events are written, but for those that fail.
Write(n, written) ==
    /\ pending' = SubSeq(pending, n + 1, Len(pending))
    /\ trail' = [r \in DOMAIN trail \cup {last + i : i \in written} |->
                   IF r <= last THEN trail[r] ELSE pending[r - last]]
    /\ last' = last + n
    /\ UNCHANGED reported

\* What waits is lost with the process.
Forget == pending' = <<>> /\ UNCHANGED <<reported, trail, last>>

\* Rows expire.
Expire(rows) ==
    /\ trail' = [r \in DOMAIN trail \ rows |-> trail[r]]
    /\ UNCHANGED <<reported, pending, last>>

TrailNext ==
    \/ \E e \in Events : Report(e)
    \/ \E n \in 1 .. Len(pending) : \E written \in SUBSET (1 .. n) :
         Write(n, written)
    \/ Forget
    \/ \E rows \in SUBSET DOMAIN trail : Expire(rows)

trailVars == <<reported, pending, trail, last>>

TrailSpec == TrailInit /\ [][TrailNext]_trailVars
=============================================================================
