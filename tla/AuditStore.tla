----------------------------- MODULE AuditStore -----------------------------
(***************************************************************************)
(* internal/audit, with the process life cycle of cmd/server/main.go:      *)
(* handlers report events (AddEvent), which go to an in-memory ring and,   *)
(* through a bounded channel, to one flusher goroutine that writes them to *)
(* SQLite in batches.  The process may be stopped, time out while stopping,*)
(* or be killed, and started again on the same database.                   *)
(*                                                                         *)
(* AddEvent holds the log's mutex across the append and the non-blocking   *)
(* send, so it is one action.  A transaction is one action: SQLite makes   *)
(* its rows visible, and safe from a crash, at the commit.  Event contents *)
(* are not data here: an event is a model value, reported once.            *)
(*                                                                         *)
(* added and lost are history: nothing reads them but the properties.      *)
(* Definitions named ...Variant are plausible slips, used only to test the *)
(* properties.                                                             *)
(***************************************************************************)
EXTENDS GoMaps, Integers, FiniteSets, Sequences

CONSTANTS
    Events,       \* every event some handler will report
    RingMax,      \* events kept in memory: NewWithStore(5000, _)
    ChanCap,      \* capacity of the channel: 10000
    BatchMax,     \* events written at once: 500
    DBFails,      \* whether SQLite may fail
    Dies,         \* whether the process may be killed
    MaxRuns       \* bound: how often the process is started

ASSUME BoundsAssumption ==
    /\ RingMax \in Nat \ {0} /\ ChanCap \in Nat \ {0} /\ BatchMax \in Nat \ {0}
    /\ DBFails \in BOOLEAN /\ Dies \in BOOLEAN /\ MaxRuns \in Nat

VARIABLES
    stage,        \* of the main goroutine
    inFlight,     \* events whose handler is running and has yet to report
    events,       \* the ring: Log.events
    ch, closed,   \* the channel Store.ch
    flusher,      \* the flusher goroutine: what it does next
    batch,        \* its local slice
    rows, lastId, \* the table audit_events: id -> event
    runs,
    added,        \* event -> its place in the order of the calls of AddEvent
    lost          \* how -> the events lost so

vars == <<stage, inFlight, events, ch, closed, flusher, batch, rows, lastId,
          runs, added, lost>>
disk == <<rows, lastId>>

Stages == {"serving", "shutdown", "closing", "stopped", "dead"}

\* full: enqueue's default; sql: drain's errors; close: the flusher's return;
\* kill: the end of the process; age: Purge.
Losses == {"full", "sql", "close", "kill", "age"}

Elems(s) == {s[i] : i \in DOMAIN s}
Stored   == {rows[i] : i \in DOMAIN rows}
Lose(how, set) == lost' = [lost EXCEPT ![how] = @ \cup set]

-----------------------------------------------------------------------------
(* Starting: OpenStore, then Purge, then NewWithStore *)

Start ==
    /\ stage' = "serving" /\ inFlight' = {} /\ events' = <<>>
    /\ ch' = <<>> /\ closed' = FALSE /\ flusher' = "select" /\ batch' = <<>>

Init ==
    /\ stage = "serving" /\ inFlight = {} /\ events = <<>>
    /\ ch = <<>> /\ closed = FALSE /\ flusher = "select" /\ batch = <<>>
    /\ rows = Empty /\ lastId = 0 /\ runs = 1
    /\ added = Empty /\ lost = [how \in Losses |-> {}]

\* Purge deletes the rows older than the retention: here, any rows.
Purge(old) ==
    /\ rows' = [i \in DOMAIN rows \ old |-> rows[i]]
    /\ Lose("age", {rows[i] : i \in old})
    /\ UNCHANGED lastId

Restart ==
    /\ stage \in {"stopped", "dead"} /\ runs < MaxRuns
    /\ runs' = runs + 1
    /\ Start
    /\ \E old \in SUBSET DOMAIN rows : Purge(old)
    /\ UNCHANGED added

-----------------------------------------------------------------------------
(* Handlers *)

\* A request that will report e is accepted.
Accept(e) ==
    /\ stage = "serving" /\ e \notin inFlight \cup DOMAIN added
    /\ inFlight' = inFlight \cup {e}
    /\ UNCHANGED <<stage, events, ch, closed, flusher, batch, disk, runs,
                   added, lost>>

LastOf(s, n) == SubSeq(s, Len(s) - n + 1, Len(s))

\* The ring after e is appended and cut to its last RingMax events.
Ringed(e) ==
    LET all == Append(events, e)
    IN  IF Len(all) > RingMax THEN LastOf(all, RingMax) ELSE all

\* A non-blocking send: an event that finds the channel full is dropped.
Enqueue(e) ==
    IF Len(ch) < ChanCap
    THEN ch' = Append(ch, e) /\ UNCHANGED lost
    ELSE Lose("full", {e}) /\ UNCHANGED ch

AddEvent(e) ==
    /\ e \in inFlight
    /\ inFlight' = inFlight \ {e}
    /\ added' = Put(added, e, Cardinality(DOMAIN added) + 1)
    /\ events' = Ringed(e)
    /\ Enqueue(e)
    /\ UNCHANGED <<stage, closed, flusher, batch, disk, runs>>

-----------------------------------------------------------------------------
(* The flusher *)

Running == stage \notin {"stopped", "dead"}

Receive ==
    /\ Running /\ flusher = "select" /\ ch # <<>>
    /\ batch' = Append(batch, Head(ch))
    /\ ch' = Tail(ch)
    /\ flusher' = IF Len(batch') >= BatchMax THEN "drain" ELSE "select"
    /\ UNCHANGED <<stage, inFlight, events, closed, disk, runs, added, lost>>

\* The batch is reused before it is written.
TickVariant ==
    /\ Running /\ flusher = "select" /\ batch # <<>>
    /\ flusher' = "drain" /\ batch' = <<>>
    /\ UNCHANGED <<stage, inFlight, events, ch, closed, disk, runs, added, lost>>

\* The ticker writes only full batches.
TickFullVariant ==
    /\ Running /\ flusher = "select" /\ Len(batch) >= BatchMax
    /\ flusher' = "drain"
    /\ UNCHANGED <<stage, inFlight, events, ch, closed, batch, disk, runs,
                   added, lost>>

Tick ==
    /\ Running /\ flusher = "select" /\ batch # <<>>
    /\ flusher' = "drain"
    /\ UNCHANGED <<stage, inFlight, events, ch, closed, batch, disk, runs,
                   added, lost>>

\* drain forgets to start the batch over.
DrainVariant ==
    /\ Running /\ flusher = "drain"
    /\ rows' = [i \in DOMAIN rows \cup {lastId + k : k \in DOMAIN batch} |->
                  IF i <= lastId THEN rows[i] ELSE batch[i - lastId]]
    /\ lastId' = lastId + Len(batch)
    /\ flusher' = "select"
    /\ UNCHANGED <<stage, inFlight, events, ch, closed, batch, runs, added, lost>>

\* The transaction.  Begin, Prepare or Commit may fail, and then nothing is
\* written; the error of each INSERT is ignored.  Only the order of the ids
\* matters.  Whatever happened, the batch starts over.
Drain ==
    /\ Running /\ flusher = "drain"
    /\ \E written \in SUBSET DOMAIN batch :
         /\ DBFails \/ written = DOMAIN batch
         /\ rows' = [i \in DOMAIN rows \cup {lastId + k : k \in written} |->
                       IF i <= lastId THEN rows[i] ELSE batch[i - lastId]]
         /\ Lose("sql", {batch[k] : k \in DOMAIN batch \ written})
    /\ lastId' = lastId + Len(batch)
    /\ batch' = <<>> /\ flusher' = "select"
    /\ UNCHANGED <<stage, inFlight, events, ch, closed, runs, added>>

\* The flusher returns as soon as the channel is closed.
ReturnVariant ==
    /\ Running /\ flusher = "select" /\ closed
    /\ flusher' = "done" /\ batch' = <<>> /\ ch' = <<>>
    /\ Lose("close", Elems(batch) \cup Elems(ch))
    /\ UNCHANGED <<stage, inFlight, events, closed, disk, runs, added>>

\* The flusher does not notice that the channel was closed.
ReturnStuckVariant ==
    /\ Running /\ flusher = "select" /\ closed /\ ch = <<>> /\ batch # <<>>
    /\ flusher' = "done" /\ batch' = <<>>
    /\ Lose("close", Elems(batch))
    /\ UNCHANGED <<stage, inFlight, events, ch, closed, disk, runs, added>>

\* The channel is closed and empty: the flusher returns, its batch with it.
Return ==
    /\ Running /\ flusher = "select" /\ closed /\ ch = <<>>
    /\ flusher' = "done" /\ batch' = <<>>
    /\ Lose("close", Elems(batch))
    /\ UNCHANGED <<stage, inFlight, events, ch, closed, disk, runs, added>>

-----------------------------------------------------------------------------
(* The main goroutine *)

\* SIGINT or SIGTERM: Server.Shutdown takes no new request.
Quit ==
    /\ stage = "serving" /\ stage' = "shutdown"
    /\ UNCHANGED <<inFlight, events, ch, closed, flusher, batch, disk, runs,
                   added, lost>>

\* Every handler has returned: main returns, and its deferred Close begins.
ShutdownDone ==
    /\ stage = "shutdown" /\ inFlight = {}
    /\ stage' = "closing" /\ closed' = TRUE
    /\ UNCHANGED <<inFlight, events, ch, flusher, batch, disk, runs, added, lost>>

\* Close has waited for the flusher: the database is closed.
Closed ==
    /\ stage = "closing" /\ flusher = "done"
    /\ stage' = "stopped"
    /\ UNCHANGED <<inFlight, events, ch, closed, flusher, batch, disk, runs,
                   added, lost>>

\* The process ends at once; what was in memory is lost.
Exit ==
    /\ stage' = "dead"
    /\ inFlight' = {} /\ ch' = <<>> /\ batch' = <<>> /\ events' = <<>>
    /\ Lose("kill", Elems(ch) \cup Elems(batch))
    /\ UNCHANGED <<closed, flusher, disk, runs, added>>

\* A failed shutdown falls through to the deferred Close.
ShutdownTimeoutVariant ==
    /\ stage = "shutdown"
    /\ stage' = "closing" /\ closed' = TRUE
    /\ UNCHANGED <<inFlight, events, ch, flusher, batch, disk, runs, added, lost>>

\* Shutdown's context ends after 30 seconds: os.Exit(1) runs no deferred Close.
ShutdownTimeout == stage = "shutdown" /\ Exit

\* SIGKILL, a panic, or ListenAndServe failing: os.Exit(1).
Die == Dies /\ Running /\ Exit

-----------------------------------------------------------------------------

Handlers == \E e \in Events : Accept(e) \/ AddEvent(e)
Flusher  == Receive \/ Tick \/ Drain \/ Return
Main     == Quit \/ ShutdownDone \/ ShutdownTimeout \/ Closed

Next == Handlers \/ Flusher \/ Main \/ Die \/ Restart

Spec == Init /\ [][Next]_vars

\* The scheduler runs the flusher, whose ticker fires every second, and main
\* once it was told to stop: Shutdown's wait is bounded by its context.
\* Nothing obliges a handler to report, nor anyone to stop the process.
Fairness == WF_vars(Flusher) /\ WF_vars(ShutdownDone \/ ShutdownTimeout)
              /\ WF_vars(Closed)

LiveSpec == Spec /\ Fairness

-----------------------------------------------------------------------------
(* Properties *)

\* The variables have their types; neither the ring, nor the channel, nor
\* the batch outgrows its bound, and a batch to be written is not empty.
TypeOK ==
    /\ stage \in Stages /\ flusher \in {"select", "drain", "done"}
    /\ inFlight \subseteq Events
    /\ events \in Seq(Events) /\ Len(events) <= RingMax
    /\ ch \in Seq(Events) /\ Len(ch) <= ChanCap /\ closed \in BOOLEAN
    /\ batch \in Seq(Events) /\ Len(batch) <= BatchMax
    /\ flusher = "select" => Len(batch) < BatchMax
    /\ (flusher = "drain" /\ Running) => batch # <<>>
    /\ MapOf(rows, Nat, Events) /\ lastId \in Nat
    /\ \A i \in DOMAIN rows : i <= lastId
    /\ runs \in Nat /\ MapOf(added, Events, Nat)
    /\ lost \in [Losses -> SUBSET Events]

\* No handler can still report once the channel is closed: a send on a
\* closed channel would panic (store.go:77,141, main.go:179-184).
NoSendOnClosedChannel == closed => inFlight = {}

Queue == batch \o ch

\* The table, the batch and the channel, read in that order, hold events in
\* the order of the calls of AddEvent, and none twice; across restarts,
\* failed transactions and purges (audit.go:74-82, store.go:88-136).
RowsFollowCalls ==
    /\ \A i, j \in DOMAIN rows : i < j => added[rows[i]] < added[rows[j]]
    /\ \A i, j \in DOMAIN Queue : i < j => added[Queue[i]] < added[Queue[j]]
    /\ \A i \in DOMAIN rows, j \in DOMAIN Queue :
         added[rows[i]] < added[Queue[j]]

\* Every event reported is stored, waiting, or lost in exactly one of the
\* ways the code has of losing one; none vanishes and none is both written
\* and given up (store.go:75-107).
EveryEventAccounted ==
    /\ DOMAIN added = Stored \cup Elems(Queue) \cup UNION {lost[h] : h \in Losses}
    /\ \A h \in Losses : lost[h] \cap (Stored \cup Elems(Queue)) = {}
    /\ \A g, h \in Losses : g # h => lost[g] \cap lost[h] = {}

\* An orderly stop loses fewer events than one batch, and none that is older
\* than an event it kept, whatever SQLite did before (store.go:88-107,
\* 139-144).
OrderlyStopLosesLessThanABatch ==
    (stage = "stopped" /\ runs = 1) =>
        /\ Cardinality(lost["close"]) < BatchMax
        /\ \A e \in lost["close"], s \in Stored : added[s] < added[e]

\* The store keeps the promises of the abstract trail.
Trail == INSTANCE AuditTrail WITH reported <- DOMAIN added,
                                  pending <- Queue, trail <- rows, last <- lastId
ImplementsTrail == Trail!TrailSpec

\* An event that waits is written, or lost in a transaction that failed,
\* unless the process is told to stop or dies first (store.go:88-105).
WaitingIsWritten ==
    \A e \in Events :
        (stage = "serving" /\ e \in Elems(Queue))
            ~> (e \in Stored \cup lost["sql"] \/ stage # "serving")

\* A process told to stop does stop: Close never waits forever for the
\* flusher, whatever handlers hang (main.go:179-184, store.go:139-144).
StopEnds == (stage = "shutdown") ~> (stage \in {"stopped", "dead"})
=============================================================================
