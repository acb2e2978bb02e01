----------------------------- MODULE Downloads -----------------------------
(***************************************************************************)
(* internal/handlers/download.go with the retrying stream of               *)
(* internal/providers/providers.go: requests compete for download slots,   *)
(* resolve a link, fetch the file from its service with retries, and pass  *)
(* it on, while clients may leave and services may fail or never answer.   *)
(*                                                                         *)
(* A step is what a handler does between two points where it waits.  Links,*)
(* names and bytes are not data here; sizes are, as small numbers, since   *)
(* what a client takes for a complete file depends on them.                *)
(***************************************************************************)
EXTENDS Integers, FiniteSets, SequencesExt

CONSTANTS
    Gets,         \* requests to /api/v1/download
    Checks,       \* requests to /api/v1/info
    Slots,        \* max_concurrent_downloads
    MaxRetries,   \* of a stream: 3
    MaxFileSize,
    Sizes,        \* sizes a service may announce; 0: it does not say
    Lengths       \* lengths of what it then sends

Requests == Gets \cup Checks

ASSUME DownloadsAssumption ==
    /\ Gets \cap Checks = {} /\ IsFiniteSet(Requests)
    /\ Slots \in Nat \ {0} /\ MaxRetries \in Nat /\ MaxFileSize \in Nat
    /\ Sizes \subseteq Nat /\ Lengths \subseteq Nat

VARIABLES
    phase,        \* request -> what its handler does next
    gone,         \* requests whose client left: their context is cancelled
    slots,        \* slots taken: the length of the channel sem
    waiting,      \* handlers blocked on sem, in the order of their arrival
    size,         \* request -> TransferInfo.FileSize
    attempt,      \* request -> retries of its stream so far
    answer,       \* request -> the last answer to its stream
    status,       \* request -> status written to the client
    lengths,      \* request -> Content-Length headers of the reply
    sent,         \* request -> body bytes written
    err,          \* request -> whether Stream returned an error
    active,       \* Log.active
    log,          \* request -> audit events reported
    reply         \* request -> what its client saw at the end

stream == <<attempt, answer, sent, err>>
vars == <<phase, gone, slots, waiting, size, stream, status, lengths, active,
          log, reply>>

Streaming == {"fetching", "backoff", "copying", "streamed"}
Holding   == {"resolving", "logging", "returning"} \cup Streaming
Phases    == {"idle", "waiting", "checking", "ended"} \cup Holding

\* The status of a reply: 400 before a slot is taken; 503; any error after
\* that; the service's own, whichever it is, or 200 where the code sets none.
Statuses == {"none", "bad", "busy", "failed", "passed"}

\* An answer may state its length.  Over HTTP/1.1 it then ends with its last
\* byte; of one in chunks, or over HTTP/2, the end is told apart, and the
\* connection may break before it is.
Answers  == {a \in [length : Lengths, stated : BOOLEAN, endTold : BOOLEAN] :
               ~a.endTold => a.stated}
NoAnswer == [length |-> -1, stated |-> FALSE, endTold |-> TRUE]

Holders == {r \in Gets : phase[r] \in Holding}

Go(r, p)     == phase' = [phase EXCEPT ![r] = p]
Reply(r, s)  == status' = [status EXCEPT ![r] = s]
Report(r, e) == log' = [log EXCEPT ![r] = Append(@, e)]

\* The request's context: net/http cancels it when the client leaves.
CancelledVariant(r) == FALSE
Cancelled(r) == r \in gone

Init ==
    /\ phase = [r \in Requests |-> "idle"] /\ gone = {}
    /\ slots = 0 /\ waiting = <<>>
    /\ size = [r \in Requests |-> 0] /\ attempt = [r \in Requests |-> 0]
    /\ answer = [r \in Requests |-> NoAnswer]
    /\ status = [r \in Requests |-> "none"]
    /\ lengths = [r \in Requests |-> <<>>] /\ sent = [r \in Requests |-> 0]
    /\ err = [r \in Requests |-> FALSE] /\ active = 0
    /\ log = [r \in Requests |-> <<>>]
    /\ reply = [r \in Requests |-> "none"]

\* The handler is back in net/http: the client, if it is still there, sees
\* a reply it takes for complete, or one it can tell is broken.
End(r, how) ==
    /\ Go(r, "ended")
    /\ reply' = [reply EXCEPT ![r] = IF r \in gone THEN "lost" ELSE how]

-----------------------------------------------------------------------------
(* Slots *)

\* No link, or one too long: 400.
Refuse(r) ==
    /\ phase[r] = "idle"
    /\ Reply(r, "bad") /\ End(r, "complete")
    /\ UNCHANGED <<gone, slots, waiting, size, stream, lengths, active, log>>

\* A download arrives: it takes a slot, or waits for one.
Arrive(r) ==
    /\ r \in Gets /\ phase[r] = "idle"
    /\ IF slots < Slots
       THEN slots' = slots + 1 /\ Go(r, "resolving") /\ UNCHANGED waiting
       ELSE waiting' = Append(waiting, r) /\ Go(r, "waiting") /\ UNCHANGED slots
    /\ UNCHANGED <<gone, size, stream, status, lengths, active, log, reply>>

\* The runtime takes a handler that waits no longer out of the channel's queue.
Dequeue(r) ==
    \E i \in DOMAIN waiting : waiting[i] = r /\ waiting' = RemoveAt(waiting, i)

\* The deferred release is registered before the wait.
BusyVariant(r) ==
    /\ phase[r] = "waiting" /\ Dequeue(r)
    /\ slots' = slots - 1
    /\ Reply(r, "busy") /\ End(r, "complete")
    /\ UNCHANGED <<gone, size, stream, lengths, active, log>>

\* Thirty seconds without a slot: 503.  The wait ignores the context.
Busy(r) ==
    /\ phase[r] = "waiting" /\ Dequeue(r)
    /\ Reply(r, "busy") /\ End(r, "complete")
    /\ UNCHANGED <<gone, slots, size, stream, lengths, active, log>>

\* The client takes a reply for complete when its length is what the one
\* Content-Length says; without any, whatever was sent will do.
LooksComplete(r) ==
    \A i \in DOMAIN lengths[r] : lengths[r][i] = sent[r]

\* The handler returns, and its slot goes to the first that waits.  A reply
\* nobody began is an empty 200.
Return(r) ==
    /\ phase[r] = "returning"
    /\ reply' = [reply EXCEPT ![r] =
                   IF r \in gone THEN "lost"
                   ELSE IF LooksComplete(r) THEN "complete" ELSE "broken"]
    /\ status' = [status EXCEPT ![r] = IF @ = "none" THEN "passed" ELSE @]
    /\ IF waiting = <<>>
       THEN slots' = slots - 1 /\ Go(r, "ended") /\ UNCHANGED waiting
       ELSE /\ phase' = [phase EXCEPT ![r] = "ended", ![Head(waiting)] = "resolving"]
            /\ waiting' = Tail(waiting) /\ UNCHANGED slots
    /\ UNCHANGED <<gone, size, stream, lengths, active, log>>

-----------------------------------------------------------------------------
(* Resolving *)

\* No provider for the link, or its service cannot or will not resolve it.
ResolveFails(r) ==
    /\ phase[r] = "resolving"
    /\ Report(r, "download_error") /\ Reply(r, "failed") /\ Go(r, "returning")
    /\ UNCHANGED <<gone, slots, waiting, size, stream, lengths, active, reply>>

\* The reply does not say how long the file is.
LengthVariant(s) == <<>>
LengthHeader(s) == IF s > 0 THEN <<s>> ELSE <<>>

\* The service says where the file is, and may say how large.
Resolved(r) ==
    /\ phase[r] = "resolving"
    /\ \E s \in Sizes :
         /\ size' = [size EXCEPT ![r] = s]
         /\ IF s > MaxFileSize
            THEN /\ Report(r, "download_error") /\ Reply(r, "failed")
                 /\ Go(r, "returning") /\ UNCHANGED <<lengths, active>>
            ELSE /\ lengths' = [lengths EXCEPT ![r] = LengthHeader(s)]
                 /\ active' = active + 1
                 /\ Go(r, "fetching") /\ UNCHANGED <<log, status>>
    /\ UNCHANGED <<gone, slots, waiting, stream, reply>>

-----------------------------------------------------------------------------
(* BaseClient.Stream *)

StreamEnds(r, failed) == Go(r, "streamed") /\ err' = [err EXCEPT ![r] = failed]

\* No answer: wait and try again, unless the retries are used up or the
\* client has left.  A link that is no URL fails at once.
FetchFails(r) ==
    /\ phase[r] = "fetching"
    /\ \/ /\ attempt[r] \in {0, MaxRetries} \/ Cancelled(r)
          /\ StreamEnds(r, TRUE)
       \/ /\ attempt[r] < MaxRetries /\ ~Cancelled(r)
          /\ Go(r, "backoff") /\ UNCHANGED err
    /\ UNCHANGED <<gone, slots, waiting, size, attempt, answer, status, lengths,
                   sent, active, log, reply>>

\* The retries are not counted.
RetryVariant(r) ==
    /\ phase[r] = "backoff" /\ Go(r, "fetching")
    /\ UNCHANGED <<gone, slots, waiting, size, stream, status, lengths, active,
                   log, reply>>

\* The timer of the backoff.
Retry(r) ==
    /\ phase[r] = "backoff" /\ Go(r, "fetching")
    /\ attempt' = [attempt EXCEPT ![r] = @ + 1]
    /\ UNCHANGED <<gone, slots, waiting, size, answer, status, lengths, sent,
                   err, active, log, reply>>

\* The client left during the backoff.
GiveUp(r) ==
    /\ phase[r] = "backoff" /\ Cancelled(r)
    /\ StreamEnds(r, TRUE)
    /\ UNCHANGED <<gone, slots, waiting, size, attempt, answer, status, lengths,
                   sent, active, log, reply>>

\* An answer, whatever its status, is passed on with its Content-Length.
Answered(r) ==
    /\ phase[r] = "fetching" /\ Go(r, "copying")
    /\ \E a \in Answers :
         /\ answer' = [answer EXCEPT ![r] = a] /\ Reply(r, "passed")
         /\ lengths' = [lengths EXCEPT ![r] =
                          IF a.stated THEN Append(@, a.length) ELSE @]
    /\ UNCHANGED <<gone, slots, waiting, size, attempt, sent, err, active, log,
                   reply>>

\* net/http takes no more than the first Content-Length says.
Room(r) == IF lengths[r] = <<>> THEN answer[r].length ELSE lengths[r][1]

\* A copy that failed is tried again.
CopyVariant(r) ==
    /\ phase[r] = "copying"
    /\ \E n \in 0 .. answer[r].length :
         /\ n <= Room(r) /\ sent' = [sent EXCEPT ![r] = n]
         /\ IF n = answer[r].length THEN StreamEnds(r, FALSE)
            ELSE IF attempt[r] < MaxRetries THEN Go(r, "backoff") /\ UNCHANGED err
            ELSE StreamEnds(r, TRUE)
    /\ UNCHANGED <<gone, slots, waiting, size, attempt, answer, status, lengths,
                   active, log, reply>>

\* It goes by the words of the error: "broken pipe", "connection reset" and so
\* on, whichever of the two connections broke.
IsClientDisconnect == BOOLEAN

\* The body is copied to the end or in part.  What fails in between, or after
\* the last byte when the end is still to be told, is an error, unless it reads
\* like the client hanging up.
Copy(r) ==
    /\ phase[r] = "copying"
    /\ \E n \in 0 .. answer[r].length :
         /\ n <= Room(r) /\ sent' = [sent EXCEPT ![r] = n]
         /\ \/ n = answer[r].length /\ StreamEnds(r, FALSE)
            \/ /\ n < answer[r].length \/ answer[r].endTold
               /\ \E hungUp \in IsClientDisconnect : StreamEnds(r, ~hungUp)
    /\ UNCHANGED <<gone, slots, waiting, size, attempt, answer, status, lengths,
                   active, log, reply>>

EndDownload(r) ==
    /\ phase[r] = "streamed" /\ Go(r, "logging")
    /\ active' = active - 1
    /\ UNCHANGED <<gone, slots, waiting, size, stream, status, lengths, log, reply>>

\* A stream that failed is not logged.
LogVariant(r) ==
    /\ phase[r] = "logging" /\ Go(r, "returning")
    /\ IF err[r] THEN UNCHANGED log ELSE Report(r, "download_success")
    /\ UNCHANGED <<gone, slots, waiting, size, stream, status, lengths, active,
                   reply>>

LogDownload(r) ==
    /\ phase[r] = "logging" /\ Go(r, "returning")
    /\ Report(r, IF err[r] THEN "download_error" ELSE "download_success")
    /\ UNCHANGED <<gone, slots, waiting, size, stream, status, lengths, active,
                   reply>>

-----------------------------------------------------------------------------
(* InfoHandler, and the clients *)

Check(r) ==
    /\ r \in Checks /\ phase[r] = "idle" /\ Go(r, "checking")
    /\ Report(r, "info_check")
    /\ UNCHANGED <<gone, slots, waiting, size, stream, status, lengths, active,
                   reply>>

\* A failure is logged like a failed download.
Checked(r) ==
    /\ phase[r] = "checking" /\ End(r, "complete")
    /\ \/ Report(r, "info_check") /\ Reply(r, "passed")
       \/ Report(r, "download_error") /\ Reply(r, "failed")
    /\ UNCHANGED <<gone, slots, waiting, size, stream, lengths, active>>

Leave(r) ==
    /\ phase[r] \notin {"idle", "ended"} /\ r \notin gone
    /\ gone' = gone \cup {r}
    /\ UNCHANGED <<phase, slots, waiting, size, stream, status, lengths, active,
                   log, reply>>

-----------------------------------------------------------------------------

\* What waits for the service, and what does not.
Upstream(r) == \/ ResolveFails(r) \/ Resolved(r) \/ FetchFails(r)
               \/ Answered(r) \/ Copy(r) \/ Checked(r)
Handler(r)  == \/ Busy(r) \/ Retry(r) \/ GiveUp(r) \/ EndDownload(r)
               \/ LogDownload(r) \/ Return(r)
Client(r)   == Refuse(r) \/ Arrive(r) \/ Check(r) \/ Leave(r)

Next == \E r \in Requests : Upstream(r) \/ Handler(r) \/ Client(r)

Spec == Init /\ [][Next]_vars

\* The timers fire and handlers run on.  A service may never answer, since
\* the time-out of the client may be 0, but the context interrupts the wait.
Fairness == \A r \in Requests :
    /\ WF_vars(Handler(r)) /\ WF_vars(Cancelled(r) /\ Upstream(r))

LiveSpec == Spec /\ Fairness

-----------------------------------------------------------------------------
(* Properties *)

\* The variables have their types, and at most two Content-Length headers
\* are ever set.
TypeOK ==
    /\ phase \in [Requests -> Phases] /\ gone \subseteq Requests
    /\ slots \in 0 .. Slots /\ waiting \in Seq(Gets)
    /\ size \in [Requests -> Sizes \cup {0}]
    /\ attempt \in [Requests -> 0 .. MaxRetries]
    /\ answer \in [Requests -> Answers \cup {NoAnswer}]
    /\ status \in [Requests -> Statuses] /\ sent \in [Requests -> Nat]
    /\ lengths \in [Requests -> Seq(Nat)]
    /\ \A r \in Requests : Len(lengths[r]) <= 2
    /\ err \in [Requests -> BOOLEAN] /\ active \in Int
    /\ log \in [Requests -> Seq({"download_success", "download_error", "info_check"})]
    /\ reply \in [Requests -> {"none", "complete", "broken", "lost"}]

\* A slot is taken exactly while a download that has it is being handled,
\* whatever way it ends; nobody waits while one is free, and whoever waits
\* is queued once (download.go:62-68).
SlotsAreExact ==
    /\ slots = Cardinality(Holders)
    /\ waiting # <<>> => slots = Slots
    /\ {waiting[i] : i \in DOMAIN waiting} = {r \in Gets : phase[r] = "waiting"}
    /\ \A i, j \in DOMAIN waiting : waiting[i] = waiting[j] => i = j

\* A download that took a slot is logged once, before it returns, and no
\* other is.  It is never a success without an answer from the service, and
\* always one when its client has all of an answer that ends with its last
\* byte; of any other answer the connection may break after that, and what is
\* whole is logged as an error (download.go:74-137, 255-290,
\* providers.go:108-116).
LoggedOnce ==
    \A r \in Gets :
        /\ Len(log[r]) = IF \/ phase[r] = "returning"
                            \/ phase[r] = "ended" /\ status[r] \notin {"bad", "busy"}
                         THEN 1 ELSE 0
        /\ log[r] = <<"download_success">> => answer[r] # NoAnswer
        /\ (/\ reply[r] = "complete" /\ ~answer[r].endTold
            /\ sent[r] = answer[r].length)
           => log[r] = <<"download_success">>

\* When the service said how large the file is, a client never takes a part
\* of it, or nothing, for the whole (download.go:130-132).
KnownSizeExposesCuts ==
    \A r \in Gets :
        (reply[r] = "complete" /\ status[r] = "passed" /\ size[r] > 0)
            => sent[r] = size[r]

\* Once something of an answer was passed on, the service is not asked again:
\* no reply is put together from two answers (providers.go:86-118).
OneAnswerPerReply ==
    [][\A r \in Gets : status[r] # "none" => phase'[r] \notin {"backoff", "fetching"}]_vars

\* A client that leaves ends its download, and frees the slot, even if the
\* service never answers (providers.go:79,90-94, download.go:60,88).
LeaverEnds == \A r \in Requests : (r \in gone) ~> (phase[r] = "ended")

\* A handler does not retry for ever: it ends, unless the service keeps one
\* of its requests hanging (providers.go:73-97).
RetriesEnd ==
    \A r \in Gets : \/ <>[](phase[r] \in {"idle", "ended"})
                    \/ <>[](phase[r] = "resolving") \/ <>[](phase[r] = "fetching")
                    \/ <>[](phase[r] = "copying")
=============================================================================
