----------------------------- MODULE AuditQuery -----------------------------
(***************************************************************************)
(* Reading the audit log: Query, Count and filterClause in store.go,       *)
(* EventsHandler in audit.go, RecentHandler in download.go, and the pages  *)
(* the log view in app.js loads as its reader scrolls, while the flusher   *)
(* adds rows.  How rows come to be written is in AuditStore.               *)
(*                                                                         *)
(* Times are compared as the text they are stored as: local time, to the   *)
(* nanosecond, without the zeros at its end, and how far that is from UTC. *)
(* The zone is that of the process and of the moment: it changes with the  *)
(* season, and when the process is started with another TZ over the same   *)
(* table.  A row's place in the table is its name.                         *)
(***************************************************************************)
EXTENDS Integers, Sequences, SequencesExt, FiniteSets

CONSTANTS
    Users, Actions,
    Within,          \* which users' names occur in which: the LIKE of SQL
    Downloads,       \* the actions whose names begin with download_
    Instants,        \* seconds, and the digits of the fraction; no event is at 0
    Offsets,         \* of local time from UTC, in seconds, east positive
    All,             \* no filter
    Filters,         \* what may be in the form
    PageSize,        \* of the log view; 200 in the code
    MaxRows, MaxLoads    \* bounds

ASSUME AuditQueryAssumption ==
    /\ Within \subseteq Users \X Users /\ \A u \in Users : <<u, u>> \in Within
    /\ Downloads \subseteq Actions /\ All \notin Users \cup Actions
    /\ Instants \subseteq [sec : Nat \ {0}, frac : Seq(0 .. 9)]
    /\ \A t \in Instants : t.frac # <<>> => Last(t.frac) # 0
    /\ Offsets \subseteq Int /\ \A t \in Instants, o \in Offsets : t.sec + o > 0
    /\ Filters \subseteq [user : Users \cup {All}, action : Actions \cup {All}]
    /\ PageSize \in Nat \ {0} /\ MaxRows \in Nat /\ MaxLoads \in Nat

VARIABLES
    table,      \* audit_events
    shown,      \* the rows on display
    total,      \* auditTotal; -1 for null
    loading,    \* auditLoading
    calls,      \* requests for a page under way
    loads,      \* how many times the view was loaded
    series,     \* history: the filter of the first page on display,
    since,      \*   how many rows there were when it was read,
    clean,      \*   that no load and no other filter came in between,
    counted     \*   and that the total on display is a count, not an error's 0

view == <<shown, total, series, since, clean, counted>>
vars == <<table, view, loading, calls, loads>>

NoFilter == [user |-> All, action |-> All]

Init ==
    /\ table = <<>>
    /\ shown = <<>> /\ total = -1 /\ loading = FALSE /\ calls = {} /\ loads = 0
    /\ series = NoFilter /\ since = 0 /\ clean = TRUE /\ counted = TRUE

-----------------------------------------------------------------------------
(* The store *)

\* RFC 3339 to the second, and to the nanosecond, in local time: what comes
\* before the fraction sorts as the local second does; the dot is 46, the digits
\* follow it.  The end is Z, 90, in UTC, and else + or -, 43 or 45, and how far.
Zone(offset) == IF offset = 0 THEN <<90>>
                ELSE IF offset > 0 THEN <<43, offset>> ELSE <<45, -offset>>
Format(sec, frac, offset) ==
    <<sec + offset>> \o (IF frac = <<>> THEN <<>> ELSE <<46>>)
      \o [k \in DOMAIN frac |-> 48 + frac[k]] \o Zone(offset)
Text(i) == Format(table[i].time.sec, table[i].time.frac, table[i].offset)

\* How the database compares text.
Before(s, t) ==
    \E k \in DOMAIN t :
        /\ \A l \in 1 .. k - 1 : l <= Len(s) /\ s[l] = t[l]
        /\ k > Len(s) \/ s[k] < t[k]

\* filterClause.  A bound of the window is an instant to the second, put in the
\* local time of that instant; one at second 0 is none.
Open == [sec |-> 0, offset |-> 0]
Bound(b) == Format(b.sec, <<>>, b.offset)
Where(f, from, to) ==
    {i \in DOMAIN table :
        /\ f.action \in {All, table[i].action}
        /\ f.user # All => <<f.user, table[i].user>> \in Within
        /\ from.sec > 0 => ~Before(Text(i), Bound(from))
        /\ to.sec > 0   => ~Before(Bound(to), Text(i))}

\* The rows that come before this one, newest first, as far as text tells.
Newer(rows, i) == {j \in rows : Before(Text(i), Text(j))}

\* Oldest first.
OrderByVariant(rows) ==
    [k \in 1 .. Cardinality(rows) |->
        CHOOSE i \in rows : Cardinality({j \in rows : Before(Text(j), Text(i))}) = k - 1]

OrderBy(rows) ==
    [k \in 1 .. Cardinality(rows) |->
        CHOOSE i \in rows : Cardinality(Newer(rows, i)) = k - 1]

\* LIMIT and OFFSET.
Page(rows, limit, offset) ==
    SubSeq(OrderBy(rows), offset + 1,
           IF offset + limit < Cardinality(rows) THEN offset + limit
           ELSE Cardinality(rows))

Matching(f) == Where(f, Open, Open)

\* RecentHandler: of the account's last hundred events, the first ten that are
\* downloads; what an error leaves out of the hundred is left out.
Recent(u) ==
    LET events == Page(Matching([user |-> u, action |-> All]), 100, 0)
        recent == SelectSeq(events, LAMBDA i : table[i].action \in Downloads)
    IN SubSeq(recent, 1, IF Len(recent) < 10 THEN Len(recent) ELSE 10)

\* The flusher adds a row.  Handlers take the time before they report, and no
\* two take the same nanosecond.
Insert(u, a, t, o) ==
    /\ Len(table) < MaxRows /\ \A i \in DOMAIN table : table[i].time # t
    /\ table' = Append(table, [user |-> u, action |-> a, time |-> t, offset |-> o])
    /\ UNCHANGED <<view, loading, calls, loads>>

-----------------------------------------------------------------------------
(* EventsHandler *)

Step(c, before, after) ==
    /\ c.at = before /\ calls' = (calls \ {c}) \cup {after}
    /\ UNCHANGED <<table, view, loading, loads>>

\* Errors of the database are swallowed: a query that fails on its way yields
\* the rows so far, as if the limit were n, and a failing count yields 0.
WithRows(c, n) == [c EXCEPT !.known = Len(table),
                            !.rows = Page(Matching(c.filter), n, c.offset)]
WithTotal(c, ok) == [c EXCEPT !.total = IF ok THEN Cardinality(Matching(c.filter)) ELSE 0,
                              !.counted = ok]

\* The events are counted, then read.
EventsHandlerVariant(c) ==
    \/ \E ok \in BOOLEAN : Step(c, "sent", [WithTotal(c, ok) EXCEPT !.at = "read"])
    \/ \E n \in 0 .. PageSize : Step(c, "read", [WithRows(c, n) EXCEPT !.at = "answered"])

\* The events are read, then counted: two queries.
EventsHandler(c) ==
    \/ \E n \in 0 .. PageSize : Step(c, "sent", [WithRows(c, n) EXCEPT !.at = "read"])
    \/ \E ok \in BOOLEAN : Step(c, "read", [WithTotal(c, ok) EXCEPT !.at = "answered"])

-----------------------------------------------------------------------------
(* The log view *)

\* fetchAuditPage, with what the form says now, submitted or not.  A request is
\* alone unless it overlaps with a load, or is a load that overlaps.
Fetch(kind, filter, offset) ==
    LET Apart(c) == "load" \notin {kind, c.kind}
    IN calls' = {[c EXCEPT !.alone = @ /\ Apart(c)] : c \in calls} \cup
                {[kind |-> kind, filter |-> filter, offset |-> offset, at |-> "sent",
                  rows |-> <<>>, total |-> 0, known |-> 0, counted |-> FALSE,
                  alone |-> \A c \in calls : Apart(c)]}

\* The view is opened, or the form submitted or cleared.
LoadAuditData(f) ==
    /\ loads < MaxLoads /\ loads' = loads + 1
    /\ Fetch("load", f, 0)
    /\ UNCHANGED <<table, view, loading>>

\* The reader scrolls to the end.
LoadMoreAudit(f) ==
    /\ ~loading /\ total # -1 /\ Len(shown) < total
    /\ loading' = TRUE /\ Fetch("more", f, Len(shown))
    /\ UNCHANGED <<table, view, loads>>

Loaded(c) ==
    /\ c.kind = "load" /\ c.at = "answered"
    /\ shown' = c.rows /\ total' = c.total /\ counted' = c.counted
    /\ series' = c.filter /\ since' = c.known /\ clean' = c.alone
    /\ calls' = calls \ {c}
    /\ UNCHANGED <<table, loading, loads>>

\* The page replaces what is shown.
LoadedMoreVariant(c) ==
    /\ c.kind = "more" /\ c.at = "answered"
    /\ shown' = c.rows /\ total' = c.total /\ counted' = c.counted
    /\ clean' = (clean /\ c.alone /\ c.filter = series)
    /\ loading' = FALSE /\ calls' = calls \ {c}
    /\ UNCHANGED <<table, loads, series, since>>

LoadedMore(c) ==
    /\ c.kind = "more" /\ c.at = "answered"
    /\ shown' = shown \o c.rows /\ total' = c.total /\ counted' = c.counted
    /\ clean' = (clean /\ c.alone /\ c.filter = series)
    /\ loading' = FALSE /\ calls' = calls \ {c}
    /\ UNCHANGED <<table, loads, series, since>>

\* The request fails visibly; the view stays as it is.
Failed(c) ==
    /\ loading' = (loading /\ c.kind # "more") /\ calls' = calls \ {c}
    /\ UNCHANGED <<table, view, loads>>

-----------------------------------------------------------------------------

LogView ==
    \/ \E f \in Filters : LoadAuditData(f) \/ LoadMoreAudit(f)
    \/ \E c \in calls : Loaded(c) \/ LoadedMore(c) \/ Failed(c)

Next ==
    \/ \E u \in Users, a \in Actions, t \in Instants, o \in Offsets : Insert(u, a, t, o)
    \/ \E c \in calls : EventsHandler(c)
    \/ LogView

Spec == Init /\ [][Next]_vars
-----------------------------------------------------------------------------
(* Properties *)

\* Rows come newest first by local time, second by second, and a window has
\* every row of the local seconds inside and none of those outside, whichever
\* end is open.  So reads are right to the second as long as the offset is one,
\* and wrong by up to the difference where it changed: an hour in autumn.
\* Within a second text does not sort as time does, and which rows of the first
\* and last second are in depends on the offset (store.go:129, 164-224).
ReadsFollowLocalTime ==
    LET Local(i) == table[i].time.sec + table[i].offset
        read     == OrderBy(Matching(NoFilter))
    IN /\ \A k \in 1 .. Len(read) - 1 : Local(read[k]) >= Local(read[k + 1])
       /\ \A s \in {t.sec : t \in Instants}, o \in Offsets :
            LET from == Where(NoFilter, [sec |-> s, offset |-> o], Open)
                to   == Where(NoFilter, Open, [sec |-> s, offset |-> o])
            IN \A i \in DOMAIN table :
                 /\ Local(i) > s + o => i \in from \ to
                 /\ Local(i) < s + o => i \in to \ from

\* The rows on display that were there when the first page was read.
Due == {i \in Matching(series) : i <= since}

\* As long as no load overlaps with another request and the filter stays,
\* scrolling leaves nothing out, whatever rows come in meanwhile and wherever
\* they sort, and however many pages an error cut short: there is no older row
\* on display than one that is not, and when the view takes itself to be at the
\* end, nothing is missing, unless it was misled by a count that failed
\* (store.go:188-232, audit.go:151-168, app.js:928-963).
ScrollingMissesNothing ==
    (clean /\ total # -1) =>
        /\ \A i \in Due, j \in ToSet(shown) :
             Before(Text(j), Text(i)) => i \in ToSet(shown)
        /\ counted /\ Len(shown) >= total => Due \subseteq ToSet(shown)

\* README.md:148: "Current user's last downloads" (download.go:222-235).
RecentIsOwn ==
    \A u \in Users : \A k \in DOMAIN Recent(u) : table[Recent(u)[k]].user = u
=============================================================================
