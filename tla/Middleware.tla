----------------------------- MODULE Middleware -----------------------------
(***************************************************************************)
(* What every request passes through (main.go): the rate limiter           *)
(* (ratelimit.go), then the check of the url parameter and the headers     *)
(* (security.go), then the access log (accesslog.go) around the handlers.  *)
(* A request refused by one of the first two never reaches the others.     *)
(*                                                                         *)
(* The access log is a channel made by whichever request finds none, a     *)
(* goroutine that empties it, and one file a day.  The field w.ch is read  *)
(* and written without a lock, so several first requests may each make a   *)
(* channel, and a goroutine that starts late empties the latest one.       *)
(* A unit of time is what the limiter takes to earn one token.             *)
(***************************************************************************)
EXTENDS Naturals, Sequences, SequencesExt, FiniteSets, GoMaps

CONSTANTS
    Requests, NoRequest,
    Addresses,     \* what ClientIP finds in the headers or the connection
    Burst,         \* requests per minute, the size of a bucket as well
    Capacity,      \* of the access log's channel; 10000 in the code
    MaxTime, MaxDays, MaxFaults      \* bounds

ASSUME MiddlewareAssumption ==
    /\ NoRequest \notin Requests
    /\ Burst \in Nat \ {0} /\ Capacity \in Nat \ {0}
    /\ MaxTime \in Nat /\ MaxDays \in Nat /\ MaxFaults \in Nat

VARIABLES
    now,           \* time, for the limiter
    limiters,      \* by address: the tokens left in its bucket
    admitted,      \* history: the times of the requests let in, by address
    pc,            \* where each request is
    day,           \* the date
    since,         \* history: the date each request arrived
    channels,      \* the channels made so far; w.ch is the last
    flushers,      \* for each of them, the goroutine started with it
    file, date,    \* w.file and w.date
    log,           \* what is in the files, each line with its file's date, and
                   \*   whether it is whole
    fate,          \* history: what became of a line that is in no file
    faults

limiter == <<now, limiters, admitted>>
writer  == <<file, date, log, faults>>
vars    == <<limiter, pc, day, since, channels, flushers, writer, fate>>

\* A request is new; serving: the handlers have it; making: they have answered
\* and there was no w.ch; sending: there was; done: its line is sent or dropped;
\* or refused.  A goroutine is starting, waiting for a line or holding one.  The
\* file is none, open or closed.
Init ==
    /\ now = 0 /\ limiters = Empty
    /\ admitted = [a \in Addresses |-> <<>>]
    /\ pc = [r \in Requests |-> "new"] /\ day = 0 /\ since = [r \in Requests |-> 0]
    /\ channels = <<>> /\ flushers = <<>>
    /\ file = "none" /\ date = 0 /\ log = <<>> /\ faults = 0
    /\ fate = [r \in Requests |-> "none"]

-----------------------------------------------------------------------------
(* Rate limiter and URL check *)

\* Every request gets a bucket of its own.
GetLimiterVariant(a) == Burst

\* A bucket is made, full, when its address first comes, and kept for ever.
GetLimiter(a) == IF a \in DOMAIN limiters THEN limiters[a] ELSE Burst

\* A bucket earns a token, up to its size.
Earn(n) == IF n < Burst THEN n + 1 ELSE n

Tick ==
    /\ now < MaxTime /\ now' = now + 1
    /\ limiters' = [a \in DOMAIN limiters |-> Earn(limiters[a])]
    /\ UNCHANGED <<admitted, pc, day, since, channels, flushers, writer, fate>>

\* The url parameter: none, a name, or a literal address that is private.  The
\* host is cut at its first colon, so that an IPv6 literal is never one.
Urls == {"none", "name", "private4", "private6"}
IsPrivate(url) == url = "private4"

Move(r, stage) == pc' = [pc EXCEPT ![r] = stage]

\* A request comes in and is let in, or refused with 429 or 403.  The second
\* refusal has cost a token.
Arrive(r, a, url) ==
    /\ pc[r] = "new"
    /\ \/ /\ GetLimiter(a) = 0
          /\ Move(r, "refused") /\ UNCHANGED <<limiters, admitted>>
       \/ /\ GetLimiter(a) > 0
          /\ limiters' = Put(limiters, a, GetLimiter(a) - 1)
          /\ admitted' = [admitted EXCEPT ![a] = Append(@, now)]
          /\ Move(r, IF IsPrivate(url) THEN "refused" ELSE "serving")
    /\ since' = [since EXCEPT ![r] = IF pc'[r] = "serving" THEN day ELSE 0]
    /\ UNCHANGED <<now, day, channels, flushers, writer, fate>>

-----------------------------------------------------------------------------
(* Access log: the request *)

\* The handlers return, and w.ch is read without a lock.
Serve(r) ==
    /\ pc[r] = "serving"
    /\ Move(r, IF channels = <<>> THEN "making" ELSE "sending")
    /\ UNCHANGED <<limiter, day, since, channels, flushers, writer, fate>>

MakeChannel(r) ==
    /\ pc[r] = "making" /\ Move(r, "sending")
    /\ channels' = Append(channels, <<>>)
    /\ flushers' = Append(flushers, [pc |-> "starting", from |-> 0,
                                     line |-> NoRequest, today |-> 0])
    /\ UNCHANGED <<limiter, day, since, writer, fate>>

\* A full channel drops the line.
Send(r) ==
    /\ pc[r] = "sending" /\ Move(r, "done")
    /\ IF Len(channels[Len(channels)]) < Capacity
       THEN /\ channels' = [channels EXCEPT ![Len(channels)] = Append(@, r)]
            /\ UNCHANGED fate
       ELSE /\ fate' = [fate EXCEPT ![r] = "full"] /\ UNCHANGED channels
    /\ UNCHANGED <<limiter, day, since, flushers, writer>>

-----------------------------------------------------------------------------
(* Access log: the goroutines *)

\* The range expression is evaluated once, when the goroutine gets to run.
StartFlusher(f) ==
    /\ flushers[f].pc = "starting"
    /\ flushers' = [flushers EXCEPT ![f].pc = "waiting", ![f].from = Len(channels)]
    /\ UNCHANGED <<limiter, pc, day, since, channels, writer, fate>>

\* A line is received, and today's date is read before the lock is taken.
Take(f) ==
    LET c == flushers[f].from
    IN /\ flushers[f].pc = "waiting" /\ channels[c] # <<>>
       /\ flushers' = [flushers EXCEPT ![f].pc = "holding", ![f].today = day,
                                       ![f].line = Head(channels[c])]
       /\ channels' = [channels EXCEPT ![c] = Tail(@)]
       /\ UNCHANGED <<limiter, pc, day, since, writer, fate>>

\* writeLine, with its lock held: one of the four actions below.  A file that
\* cannot be opened leaves the one just closed in w.file, with its date, and
\* the line is given up with a warning.
Rolls(f) == flushers[f].pc = "holding" /\ (file = "none" \/ date # flushers[f].today)

GoTo(f, where) ==
    /\ flushers' = [flushers EXCEPT ![f].pc = where, ![f].today = 0, ![f].line = NoRequest]
    /\ UNCHANGED <<limiter, pc, day, since, channels>>

Lose(f, why) == fate' = [fate EXCEPT ![flushers[f].line] = why]

\* The date is set before the file is opened.
OpenFailsVariant(f) ==
    /\ Rolls(f) /\ faults < MaxFaults /\ faults' = faults + 1
    /\ file' = IF file = "none" THEN "none" ELSE "closed"
    /\ date' = flushers[f].today
    /\ Lose(f, "unopened") /\ GoTo(f, "waiting") /\ UNCHANGED log

\* The goroutine gives up.
OpenFailsForGoodVariant(f) ==
    /\ Rolls(f) /\ faults < MaxFaults /\ faults' = faults + 1
    /\ file' = IF file = "none" THEN "none" ELSE "closed"
    /\ Lose(f, "unopened") /\ GoTo(f, "returned") /\ UNCHANGED <<date, log>>

OpenFails(f) ==
    /\ Rolls(f) /\ faults < MaxFaults /\ faults' = faults + 1
    /\ file' = IF file = "none" THEN "none" ELSE "closed"
    /\ Lose(f, "unopened") /\ GoTo(f, "waiting") /\ UNCHANGED <<date, log>>

Enter(f, whole) ==
    log' = Append(log, [line |-> flushers[f].line, day |-> date', whole |-> whole])

OpenSucceeds(f) ==
    /\ Rolls(f) /\ file' = "open" /\ date' = flushers[f].today
    /\ Enter(f, TRUE) /\ GoTo(f, "waiting") /\ UNCHANGED <<fate, faults>>

\* Without a rollover the line goes to the file at hand; if that is closed the
\* write fails, and nobody looks.
WriteLine(f) ==
    /\ flushers[f].pc = "holding" /\ ~Rolls(f) /\ UNCHANGED <<file, date, faults>>
    /\ \/ file = "open" /\ Enter(f, TRUE) /\ UNCHANGED fate
       \/ file # "open" /\ Lose(f, "closed") /\ UNCHANGED log
    /\ GoTo(f, "waiting")

\* The write to a file that is open, or was just opened, fails: a full disk.
\* Nobody looks either, and a piece of the line may be left in the file, without
\* its end: the next line, whole itself, goes on right after it.
WriteFails(f) ==
    /\ flushers[f].pc = "holding" /\ (Rolls(f) \/ file = "open")
    /\ faults < MaxFaults /\ faults' = faults + 1
    /\ file' = "open" /\ date' = flushers[f].today
    /\ Enter(f, FALSE) \/ UNCHANGED log
    /\ Lose(f, "unwritten") /\ GoTo(f, "waiting")

NewDay ==
    /\ day < MaxDays /\ day' = day + 1
    /\ UNCHANGED <<limiter, pc, since, channels, flushers, writer, fate>>

-----------------------------------------------------------------------------

Request(r) ==
    \/ \E a \in Addresses, url \in Urls : Arrive(r, a, url)
    \/ Serve(r) \/ MakeChannel(r) \/ Send(r)

Flusher(f) == StartFlusher(f) \/ Take(f) \/ OpenFails(f) \/ OpenSucceeds(f)
                \/ WriteLine(f) \/ WriteFails(f)

Next ==
    \/ Tick \/ NewDay
    \/ \E r \in Requests : Request(r)
    \/ \E f \in DOMAIN flushers : Flusher(f)

\* The scheduler runs a goroutine that can go on; nothing makes clients send
\* requests or handlers return.
Fairness ==
    /\ \A r \in Requests : WF_vars(MakeChannel(r) \/ Send(r))
    /\ \A f \in 1 .. Cardinality(Requests) :
         WF_vars(f \in DOMAIN flushers /\ Flusher(f))

Spec == Init /\ [][Next]_vars /\ Fairness
-----------------------------------------------------------------------------
(* Properties *)

\* In any stretch of time an address gets in at most a burst and as many more
\* requests as that time earns tokens (ratelimit.go:19-54).
RateHolds ==
    \A a \in Addresses : \A i, j \in DOMAIN admitted[a] :
        i <= j => j - i + 1 <= Burst + (admitted[a][j] - admitted[a][i])

Logged(r)  == {l \in DOMAIN log : log[l].line = r /\ log[l].whole}
Held(r)    == {f \in DOMAIN flushers : flushers[f].line = r}
Waiting(r) == {c \in DOMAIN channels : r \in ToSet(channels[c])}

\* Unless several first requests raced for the channel, no line is lost but to
\* a full channel, a file that cannot be opened, with a warning, or a write
\* that fails, one line for each failure and without a word: any other waits in
\* the one channel, or is in a file, whole and once, and no line is in a file
\* older than its request or than the line before (accesslog.go:79-122).
LostToFaults == {r \in Requests : fate[r] \in {"unopened", "unwritten"}}
OnlyRacesAndFaultsLoseLines ==
    Len(channels) <= 1 =>
        /\ Cardinality(LostToFaults) = faults
        /\ \A r \in Requests : pc[r] = "done" =>
             IF fate[r] \in {"full", "unopened", "unwritten"}
             THEN Logged(r) \cup Held(r) \cup Waiting(r) = {}
             ELSE /\ fate[r] = "none"
                  /\ Cardinality(Logged(r)) + Cardinality(Held(r))
                       + Cardinality(Waiting(r)) = 1
        /\ \A k, l \in DOMAIN log : /\ since[log[k].line] <= log[k].day
                                    /\ k <= l => log[k].day <= log[l].day

\* A line in the channel nobody can replace any more leaves it: it gets to a
\* file, or is given up with a warning, however late the goroutine starts and
\* however often files cannot be opened (accesslog.go:79-94).
Replaceable == channels = <<>> \/ \E r \in Requests : pc[r] = "making"
QueuedLinesLeave ==
    \A r \in Requests :
        (~Replaceable /\ r \in ToSet(channels[Len(channels)]))
            ~> (\A c \in DOMAIN channels : r \notin ToSet(channels[c]))
=============================================================================
