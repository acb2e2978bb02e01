-------------------------- MODULE DownloadsProofs --------------------------
(***************************************************************************)
(* Theorems about Downloads, for any number of requests and slots, any     *)
(* limits, and any sizes and lengths the services come up with.            *)
(***************************************************************************)
EXTENDS Downloads, FiniteSetTheorems, SequenceTheorems, TLAPS

-----------------------------------------------------------------------------
(* The inductive invariant: what is known of a request in each phase of its*)
(* handler, and of the queue.                                              *)

\* Nothing of the reply is decided.
Fresh(r) ==
    /\ status[r] = "none" /\ answer[r] = NoAnswer /\ sent[r] = 0
    /\ log[r] = <<>> /\ reply[r] = "none"

\* The size the service gave is the first Content-Length of the reply.
CarriesSize(r) ==
    size[r] > 0 => Len(lengths[r]) > 0 /\ lengths[r][1] = size[r]

\* No answer, nothing sent and an error; or an answer, without an error if all
\* of it was sent and its last byte is its end.
Outcome(r, failed) ==
    \/ /\ status[r] = "none" /\ answer[r] = NoAnswer /\ sent[r] = 0 /\ failed
    \/ /\ status[r] = "passed" /\ answer[r] \in Answers
       /\ (~answer[r].endTold /\ sent[r] = answer[r].length) => ~failed

\* How a handler that had a slot left its request.
Settled(r) ==
    \/ /\ status[r] = "failed" /\ answer[r] = NoAnswer
       /\ log[r] = <<"download_error">>
    \/ /\ status[r] \in {"none", "passed"} /\ Len(log[r]) = 1 /\ CarriesSize(r)
       /\ answer[r] = NoAnswer => log[r] = <<"download_error">>
       /\ (~answer[r].endTold /\ sent[r] = answer[r].length)
            => log[r] = <<"download_success">>

BeforeInv(r) ==
    phase[r] \in {"idle", "waiting", "resolving"} => Fresh(r) /\ lengths[r] = <<>>

FetchInv(r) ==
    /\ phase[r] \in {"fetching", "backoff"} =>
         Fresh(r) /\ CarriesSize(r) /\ Len(lengths[r]) <= 1
    /\ phase[r] = "backoff" => attempt[r] < MaxRetries

CopyInv(r) ==
    /\ phase[r] = "copying" =>
         /\ status[r] = "passed" /\ answer[r] \in Answers
         /\ log[r] = <<>> /\ reply[r] = "none" /\ CarriesSize(r)
    /\ phase[r] \in {"streamed", "logging"} =>
         /\ Outcome(r, err[r])
         /\ log[r] = <<>> /\ reply[r] = "none" /\ CarriesSize(r)

AfterInv(r) ==
    /\ phase[r] = "returning" => Settled(r) /\ reply[r] = "none"
    /\ phase[r] = "ended" =>
         /\ \/ status[r] \in {"bad", "busy"} /\ log[r] = <<>> /\ answer[r] = NoAnswer
            \/ status[r] # "none" /\ Settled(r)
         /\ reply[r] = "complete" => LooksComplete(r)

GetInv(r) == /\ phase[r] # "checking" /\ BeforeInv(r) /\ FetchInv(r)
             /\ CopyInv(r) /\ AfterInv(r)

RequestsInv ==
    /\ \A r \in Gets : GetInv(r)
    /\ \A r \in Checks : phase[r] \in {"idle", "checking", "ended"}

\* Who waits is in the queue, once.
QueueInv ==
    /\ \A i \in DOMAIN waiting : phase[waiting[i]] = "waiting"
    /\ \A r \in Gets : phase[r] = "waiting" => \E i \in DOMAIN waiting : waiting[i] = r
    /\ \A i, j \in DOMAIN waiting : waiting[i] = waiting[j] => i = j

SlotsInv == slots = Cardinality(Holders) /\ (waiting # <<>> => slots = Slots)

Inv == TypeOK /\ RequestsInv /\ QueueInv /\ SlotsInv

-----------------------------------------------------------------------------
(* One request at a time. *)

\* Nothing of request q changes.
SameRequest(q) ==
    /\ phase'[q] = phase[q] /\ size'[q] = size[q] /\ attempt'[q] = attempt[q]
    /\ answer'[q] = answer[q] /\ status'[q] = status[q]
    /\ lengths'[q] = lengths[q] /\ sent'[q] = sent[q] /\ err'[q] = err[q]
    /\ log'[q] = log[q] /\ reply'[q] = reply[q]

LEMMA SameGet == ASSUME NEW q, GetInv(q), SameRequest(q) PROVE GetInv(q)'
  BY DEF GetInv, SameRequest, BeforeInv, FetchInv, CopyInv, AfterInv, Fresh,
         CarriesSize, Outcome, Settled, LooksComplete

\* What every handler but the one that passes its slot on leaves alone.
LEMMA OtherRequests ==
  ASSUME TypeOK, NEW r \in Requests, Upstream(r) \/ Handler(r) \/ Client(r),
         ~Return(r), NEW q \in Requests, q # r
  PROVE  SameRequest(q)
  <1> USE DEF TypeOK, SameRequest, Go, Reply, Report, End, StreamEnds, stream
  <1>1. CASE ResolveFails(r)
    BY <1>1 DEF ResolveFails
  <1>2. CASE Resolved(r)
    BY <1>2 DEF Resolved
  <1>3. CASE FetchFails(r)
    BY <1>3 DEF FetchFails
  <1>4. CASE Answered(r)
    BY <1>4 DEF Answered
  <1>5. CASE Copy(r)
    BY <1>5 DEF Copy
  <1>6. CASE Checked(r)
    BY <1>6 DEF Checked
  <1>7. CASE Busy(r)
    BY <1>7 DEF Busy
  <1>8. CASE Retry(r) \/ GiveUp(r)
    BY <1>8 DEF Retry, GiveUp
  <1>9. CASE EndDownload(r) \/ LogDownload(r)
    BY <1>9 DEF EndDownload, LogDownload
  <1>10. CASE Refuse(r) \/ Arrive(r)
    BY <1>10 DEF Refuse, Arrive
  <1>11. CASE Check(r) \/ Leave(r)
    BY <1>11 DEF Check, Leave
  <1> QED BY <1>1, <1>2, <1>3, <1>4, <1>5, <1>6, <1>7, <1>8, <1>9, <1>10, <1>11
       DEF Upstream, Handler, Client

LEMMA NoAnswerIsNone == NoAnswer \notin Answers
  BY DownloadsAssumption DEF NoAnswer, Answers

LEMMA SizeHeader ==
  ASSUME NEW s \in Nat
  PROVE  /\ LengthHeader(s) \in Seq(Nat) /\ Len(LengthHeader(s)) <= 1
         /\ s > 0 => Len(LengthHeader(s)) > 0 /\ LengthHeader(s)[1] = s
  BY DEF LengthHeader

\* A request before its stream.
LEMMA EarlyGet ==
  ASSUME TypeOK, RequestsInv, NEW r \in Gets,
         Refuse(r) \/ Arrive(r) \/ Busy(r) \/ ResolveFails(r) \/ Resolved(r)
  PROVE  GetInv(r)'
  <1> USE DEF TypeOK, Go, Reply, Report, End, GetInv
  <1>1. GetInv(r) /\ r \in Requests
    BY DEF RequestsInv, Requests
  <1>2. CASE Refuse(r) \/ Busy(r)
    BY <1>1, <1>2 DEF Refuse, Busy, stream, BeforeInv, FetchInv, CopyInv, AfterInv,
                      Fresh, LooksComplete
  <1>3. CASE Arrive(r)
    BY <1>1, <1>3 DEF Arrive, stream, BeforeInv, FetchInv, CopyInv, AfterInv, Fresh
  <1>4. CASE ResolveFails(r)
    <2>1. log'[r] = Append(<<>>, "download_error")
      BY <1>1, <1>4 DEF ResolveFails, BeforeInv, Fresh
    <2>2. log'[r] = <<"download_error">>
      BY <2>1
    <2> QED BY <1>1, <1>4, <2>2 DEF ResolveFails, stream, BeforeInv, FetchInv, CopyInv,
                                    AfterInv, Fresh, Settled
  <1>5. CASE Resolved(r)
    <2>1. PICK s \in Sizes :
            /\ size' = [size EXCEPT ![r] = s]
            /\ IF s > MaxFileSize
               THEN /\ Report(r, "download_error") /\ Reply(r, "failed")
                    /\ Go(r, "returning") /\ UNCHANGED <<lengths, active>>
               ELSE /\ lengths' = [lengths EXCEPT ![r] = LengthHeader(s)]
                    /\ active' = active + 1
                    /\ Go(r, "fetching") /\ UNCHANGED <<log, status>>
      BY <1>5 DEF Resolved
    <2>2. CASE s > MaxFileSize
      <3>1. log'[r] = Append(<<>>, "download_error")
        BY <1>1, <1>5, <2>1, <2>2 DEF Resolved, BeforeInv, Fresh
      <3>2. log'[r] = <<"download_error">>
        BY <3>1
      <3> QED BY <1>1, <1>5, <2>1, <2>2, <3>2 DEF Resolved, stream, BeforeInv, FetchInv,
                                       CopyInv, AfterInv, Fresh, Settled
    <2>3. CASE ~(s > MaxFileSize)
      <3>1. s \in Nat
        BY DownloadsAssumption
      <3>2. size'[r] = s /\ lengths'[r] = LengthHeader(s) /\ phase'[r] = "fetching"
        BY <1>1, <2>1, <2>3
      <3>3. CarriesSize(r)' /\ Len(lengths'[r]) <= 1
        BY <3>1, <3>2, SizeHeader DEF CarriesSize
      <3>4. Fresh(r)'
        BY <1>1, <1>5, <2>1, <2>3 DEF Resolved, stream, BeforeInv, Fresh
      <3> QED BY <3>2, <3>3, <3>4 DEF BeforeInv, FetchInv, CopyInv, AfterInv
    <2> QED BY <2>2, <2>3
  <1> QED BY <1>2, <1>3, <1>4, <1>5

\* A request during its stream.
LEMMA StreamGet ==
  ASSUME TypeOK, RequestsInv, NEW r \in Gets,
         FetchFails(r) \/ Retry(r) \/ GiveUp(r) \/ Answered(r) \/ Copy(r)
  PROVE  GetInv(r)'
  <1> USE DEF TypeOK, Go, Reply, StreamEnds, GetInv
  <1>1. GetInv(r) /\ r \in Requests
    BY DEF RequestsInv, Requests
  <1>2. CASE FetchFails(r)
    BY <1>1, <1>2 DEF FetchFails, BeforeInv, FetchInv, CopyInv, AfterInv, Fresh,
                      CarriesSize, Outcome
  <1>3. CASE Retry(r)
    BY <1>1, <1>3 DEF Retry, BeforeInv, FetchInv, CopyInv, AfterInv, Fresh, CarriesSize
  <1>4. CASE GiveUp(r)
    BY <1>1, <1>4 DEF GiveUp, BeforeInv, FetchInv, CopyInv, AfterInv, Fresh,
                      CarriesSize, Outcome
  <1>5. CASE Answered(r)
    <2>1. PICK a \in Answers :
            /\ answer' = [answer EXCEPT ![r] = a] /\ Reply(r, "passed")
            /\ lengths' = [lengths EXCEPT ![r] =
                             IF a.stated THEN Append(@, a.length) ELSE @]
      BY <1>5 DEF Answered
    <2>2. lengths[r] \in Seq(Nat) /\ CarriesSize(r) /\ a.length \in Nat
      BY <1>1, <1>5, DownloadsAssumption DEF Answered, FetchInv, Answers
    <2>3. size[r] > 0 =>
            /\ Len(Append(lengths[r], a.length)) > 0
            /\ Append(lengths[r], a.length)[1] = size[r]
      BY <2>2 DEF CarriesSize
    <2>4. lengths'[r] = Append(lengths[r], a.length) \/ lengths'[r] = lengths[r]
      BY <1>1, <2>1
    <2>5. size'[r] = size[r] /\ phase'[r] = "copying" /\ answer'[r] = a
      BY <1>1, <1>5, <2>1 DEF Answered
    <2>6. CarriesSize(r)'
      BY <2>2, <2>3, <2>4, <2>5 DEF CarriesSize
    <2>7. status'[r] = "passed" /\ log'[r] = <<>> /\ reply'[r] = "none"
      BY <1>1, <1>5, <2>1 DEF Answered, FetchInv, Fresh
    <2> QED BY <2>5, <2>6, <2>7 DEF BeforeInv, FetchInv, CopyInv, AfterInv
  <1>6. CASE Copy(r)
    <2>1. PICK n \in 0 .. answer[r].length :
            /\ n <= Room(r) /\ sent' = [sent EXCEPT ![r] = n]
            /\ \/ n = answer[r].length /\ StreamEnds(r, FALSE)
               \/ /\ n < answer[r].length \/ answer[r].endTold
                  /\ \E hungUp \in IsClientDisconnect : StreamEnds(r, ~hungUp)
      BY <1>6 DEF Copy
    <2>2. /\ sent'[r] = n /\ phase'[r] = "streamed"
          /\ (~answer[r].endTold /\ n = answer[r].length) => err'[r] = FALSE
      BY <1>1, <2>1
    <2>3. /\ size'[r] = size[r] /\ lengths'[r] = lengths[r] /\ answer'[r] = answer[r]
          /\ status'[r] = status[r] /\ log'[r] = log[r] /\ reply'[r] = reply[r]
      BY <1>6 DEF Copy
    <2>4. /\ status[r] = "passed" /\ answer[r] \in Answers
          /\ log[r] = <<>> /\ reply[r] = "none" /\ CarriesSize(r)
      BY <1>1, <1>6 DEF Copy, CopyInv
    <2> QED BY <2>2, <2>3, <2>4 DEF BeforeInv, FetchInv, CopyInv, AfterInv, Outcome,
                                    CarriesSize
  <1> QED BY <1>2, <1>3, <1>4, <1>5, <1>6

LEMMA QueueHead ==
  ASSUME TypeOK, QueueInv, waiting # <<>>
  PROVE  /\ Head(waiting) \in Gets /\ phase[Head(waiting)] = "waiting"
         /\ Head(waiting) = waiting[1] /\ 1 \in DOMAIN waiting
  BY DEF TypeOK, QueueInv

\* A request after its stream.
LEMMA LateGet ==
  ASSUME TypeOK, RequestsInv, QueueInv, NEW r \in Gets,
         EndDownload(r) \/ LogDownload(r) \/ Return(r) \/ Leave(r)
  PROVE  GetInv(r)'
  <1> USE DEF TypeOK, Go, Report, GetInv
  <1>1. GetInv(r) /\ r \in Requests
    BY DEF RequestsInv, Requests
  <1>2. CASE EndDownload(r)
    BY <1>1, <1>2 DEF EndDownload, stream, BeforeInv, FetchInv, CopyInv, AfterInv,
                      CarriesSize, Outcome
  <1>3. CASE LogDownload(r)
    <2>1. /\ size'[r] = size[r] /\ lengths'[r] = lengths[r] /\ answer'[r] = answer[r]
          /\ sent'[r] = sent[r] /\ status'[r] = status[r] /\ reply'[r] = reply[r]
          /\ phase'[r] = "returning"
      BY <1>1, <1>3 DEF LogDownload, stream
    <2>2. Outcome(r, err[r]) /\ log[r] = <<>> /\ reply[r] = "none" /\ CarriesSize(r)
      BY <1>1, <1>3 DEF LogDownload, CopyInv
    <2>3. log'[r] = Append(<<>>, IF err[r] THEN "download_error" ELSE "download_success")
      BY <1>1, <1>3, <2>2 DEF LogDownload
    <2>4. /\ Len(log'[r]) = 1 /\ (~err[r] => log'[r] = <<"download_success">>)
          /\ err[r] => log'[r] = <<"download_error">>
      BY <2>3
    <2>6. answer[r] = NoAnswer => err[r] /\ NoAnswer.endTold
      BY <2>2, DownloadsAssumption DEF Outcome, Answers, NoAnswer
    <2>5. Settled(r)'
      BY <2>1, <2>2, <2>4, <2>6 DEF Settled, Outcome, CarriesSize
    <2> QED BY <2>1, <2>2, <2>5 DEF BeforeInv, FetchInv, CopyInv, AfterInv
  <1>4. CASE Return(r)
    <2>1. phase[r] = "returning" /\ Settled(r) /\ reply[r] = "none"
      BY <1>1, <1>4 DEF Return, AfterInv
    <2>2. /\ size'[r] = size[r] /\ lengths'[r] = lengths[r] /\ answer'[r] = answer[r]
          /\ sent'[r] = sent[r] /\ log'[r] = log[r]
      BY <1>4 DEF Return, stream
    <2>3. /\ status'[r] = (IF status[r] = "none" THEN "passed" ELSE status[r])
          /\ reply'[r] = "complete" => LooksComplete(r)
      BY <1>1, <1>4 DEF Return
    <2>4. waiting # <<>> => Head(waiting) # r
      BY <2>1, QueueHead
    <2>5. phase'[r] = "ended"
      BY <1>1, <1>4, <2>4 DEF Return
    <2>6. Settled(r)' /\ status'[r] # "none"
      BY <2>1, <2>2, <2>3 DEF Settled, CarriesSize
    <2>7. reply'[r] = "complete" => LooksComplete(r)'
      BY <2>2, <2>3 DEF LooksComplete
    <2> QED BY <2>5, <2>6, <2>7 DEF BeforeInv, FetchInv, CopyInv, AfterInv
  <1>5. CASE Leave(r)
    <2>1. SameRequest(r)
      BY <1>5 DEF Leave, stream, SameRequest
    <2> QED BY <1>1, <2>1, SameGet
  <1> QED BY <1>2, <1>3, <1>4, <1>5

\* The download that is handed the slot of another.
LEMMA HandedGet ==
  ASSUME TypeOK, RequestsInv, QueueInv, NEW r \in Requests, Return(r),
         NEW q \in Gets, q # r
  PROVE  GetInv(q)'
  <1> USE DEF TypeOK, Go
  <1>1. GetInv(q) /\ q \in Requests
    BY DEF RequestsInv, Requests
  <1>2. CASE waiting # <<>> /\ q = Head(waiting)
    <2>1. phase[q] = "waiting" /\ Fresh(q) /\ lengths[q] = <<>>
      BY <1>1, <1>2, QueueHead DEF GetInv, BeforeInv
    <2>2. phase'[q] = "resolving" /\ Fresh(q)' /\ lengths'[q] = <<>>
      BY <1>1, <1>2, <2>1 DEF Return, stream, Fresh
    <2> QED BY <2>2 DEF GetInv, BeforeInv, FetchInv, CopyInv, AfterInv
  <1>3. CASE ~(waiting # <<>> /\ q = Head(waiting))
    <2>1. SameRequest(q)
      BY <1>1, <1>3 DEF Return, stream, SameRequest
    <2> QED BY <1>1, <2>1, SameGet
  <1> QED BY <1>2, <1>3

LEMMA RequestsStep ==
  ASSUME TypeOK, RequestsInv, QueueInv, NEW r \in Requests,
         Upstream(r) \/ Handler(r) \/ Client(r)
  PROVE  RequestsInv'
  <1> USE DEF Upstream, Handler, Client
  <1>1. ASSUME NEW q \in Gets PROVE GetInv(q)'
    <2>1. CASE q # r
      <3>1. CASE Return(r)
        BY <2>1, <3>1, HandedGet
      <3>2. CASE ~Return(r)
        <4>1. SameRequest(q) /\ GetInv(q)
          BY <2>1, <3>2, OtherRequests DEF RequestsInv, Requests
        <4> QED BY <4>1, SameGet
      <3> QED BY <3>1, <3>2
    <2>2. CASE q = r
      <3>1. ~Check(r) /\ ~Checked(r)
        BY <2>2, DownloadsAssumption DEF Check, Checked, RequestsInv, GetInv
      <3> QED BY <2>2, <3>1, EarlyGet, StreamGet, LateGet
    <2> QED BY <2>1, <2>2
  <1>2. ASSUME NEW q \in Checks PROVE phase'[q] \in {"idle", "checking", "ended"}
    <2>1. phase[q] \in {"idle", "checking", "ended"} /\ q \in Requests
      BY DEF RequestsInv, Requests
    <2>2. CASE Return(r)
      <3>1. r # q /\ (waiting # <<>> => Head(waiting) # q)
        BY <2>1, <2>2, QueueHead DEF Return
      <3> QED BY <2>1, <2>2, <3>1 DEF Return, Go, TypeOK
    <2>3. CASE ~Return(r) /\ q # r
      BY <2>1, <2>3, OtherRequests DEF SameRequest
    <2>4. CASE ~Return(r) /\ q = r
      <3>1. Refuse(q) \/ Check(q) \/ Checked(q) \/ Leave(q)
        BY <2>1, <2>4, DownloadsAssumption
           DEF ResolveFails, Resolved, FetchFails, Answered, Copy, Busy, Retry, GiveUp,
               EndDownload, LogDownload, Arrive
      <3> QED BY <2>1, <3>1 DEF Refuse, Check, Checked, Leave, End, Go, TypeOK
    <2> QED BY <2>2, <2>3, <2>4
  <1> QED BY <1>1, <1>2 DEF RequestsInv

-----------------------------------------------------------------------------
(* The queue and the slots *)

\* What a slot that is taken or given back does to the number of those taken.
LEMMA HoldersAreCounted ==
  ASSUME TypeOK
  PROVE  /\ IsFiniteSet(Holders) /\ Cardinality(Holders) \in Nat
         /\ \A r : Cardinality(Holders \cup {r}) =
                    IF r \in Holders THEN Cardinality(Holders)
                    ELSE Cardinality(Holders) + 1
         /\ \A r : /\ IsFiniteSet(Holders \ {r})
                   /\ Cardinality(Holders \ {r}) =
                        IF r \in Holders THEN Cardinality(Holders) - 1
                        ELSE Cardinality(Holders)
  <1>1. Holders \in SUBSET Requests
    BY DEF Holders, Requests
  <1>2. IsFiniteSet(Holders)
    BY <1>1, FS_Subset, DownloadsAssumption
  <1> QED BY <1>2, FS_CardinalityType, FS_AddElement, FS_RemoveElement

\* The steps of a handler that neither takes a slot nor gives one back, and
\* neither joins the queue nor leaves it.
Quiet(r) ==
    \/ Upstream(r) \/ Retry(r) \/ GiveUp(r) \/ EndDownload(r) \/ LogDownload(r)
    \/ Refuse(r) \/ Check(r) \/ Leave(r)

LEMMA QuietKeepsPlace ==
  ASSUME TypeOK, RequestsInv, NEW r \in Requests, Quiet(r)
  PROVE  /\ UNCHANGED <<slots, waiting>>
         /\ \A q \in Requests : /\ phase'[q] \in Holding <=> phase[q] \in Holding
                                /\ phase'[q] = "waiting" <=> phase[q] = "waiting"
  <1> USE DEF Quiet
  <1>1. UNCHANGED <<slots, waiting>>
    BY DEF Upstream, ResolveFails, Resolved, FetchFails, Answered, Copy, Checked, Retry,
           GiveUp, EndDownload, LogDownload, Refuse, Check, Leave
  <1>2. /\ phase'[r] \in Holding <=> phase[r] \in Holding
        /\ phase'[r] = "waiting" <=> phase[r] = "waiting"
    <2> USE DEF TypeOK, Go, End, StreamEnds, Holding, Streaming
    <2>1. CASE ResolveFails(r) \/ Resolved(r) \/ FetchFails(r) \/ Answered(r)
      BY <2>1 DEF ResolveFails, Resolved, FetchFails, Answered
    <2>2. CASE Copy(r) \/ Retry(r) \/ GiveUp(r) \/ EndDownload(r) \/ LogDownload(r)
      BY <2>2 DEF Copy, Retry, GiveUp, EndDownload, LogDownload
    <2>3. CASE Checked(r) \/ Refuse(r) \/ Check(r) \/ Leave(r)
      BY <2>3 DEF Checked, Refuse, Check, Leave
    <2> QED BY <2>1, <2>2, <2>3 DEF Upstream
  <1>3. ~Return(r)
    BY DEF Return, Upstream, ResolveFails, Resolved, FetchFails, Answered, Copy, Checked,
           Retry, GiveUp, EndDownload, LogDownload, Refuse, Check, Leave, TypeOK
  <1> QED BY <1>1, <1>2, <1>3, OtherRequests DEF SameRequest, Handler, Client

LEMMA QuietSlots ==
  ASSUME Inv, NEW r \in Requests, Quiet(r)
  PROVE  QueueInv' /\ SlotsInv' /\ slots' \in 0 .. Slots /\ waiting' \in Seq(Gets)
  <1>1. /\ slots' = slots /\ waiting' = waiting
        /\ \A q \in Requests : /\ phase'[q] \in Holding <=> phase[q] \in Holding
                               /\ phase'[q] = "waiting" <=> phase[q] = "waiting"
    BY QuietKeepsPlace DEF Inv
  <1>2. Holders' = Holders
    BY <1>1 DEF Holders, Requests
  <1>3. waiting \in Seq(Gets)
    BY DEF Inv, TypeOK
  <1> QED BY <1>1, <1>2, <1>3 DEF Inv, TypeOK, QueueInv, SlotsInv, Requests

LEMMA ArriveSlots ==
  ASSUME Inv, NEW r \in Requests, Arrive(r)
  PROVE  QueueInv' /\ SlotsInv' /\ slots' \in 0 .. Slots /\ waiting' \in Seq(Gets)
  <1> USE DEF Inv, TypeOK, Go
  <1>1. r \in Gets /\ phase[r] = "idle" /\ r \notin Holders
    BY DEF Arrive, Holders, Holding, Streaming
  <1>2. CASE slots < Slots
    <2>1. slots' = slots + 1 /\ waiting' = waiting /\ waiting = <<>>
      BY <1>2, DownloadsAssumption DEF Arrive, SlotsInv
    <2>2. phase' = [phase EXCEPT ![r] = "resolving"]
      BY <1>2 DEF Arrive
    <2>3. Holders' = Holders \cup {r}
      BY <1>1, <2>2 DEF Holders, Holding, Requests
    <2>4. slots' = Cardinality(Holders')
      BY <1>1, <2>1, <2>3, HoldersAreCounted DEF SlotsInv
    <2>5. QueueInv'
      BY <1>1, <2>1, <2>2 DEF QueueInv, Requests
    <2> QED BY <1>2, <2>1, <2>4, <2>5, DownloadsAssumption DEF SlotsInv
  <1>3. CASE ~(slots < Slots)
    <2>1. slots' = slots /\ slots = Slots /\ waiting' = Append(waiting, r)
      BY <1>3, DownloadsAssumption DEF Arrive
    <2>2. phase' = [phase EXCEPT ![r] = "waiting"]
      BY <1>3 DEF Arrive
    <2>3. Holders' = Holders
      BY <1>1, <2>2 DEF Holders, Holding, Streaming, Requests
    <2>4. /\ waiting' \in Seq(Gets) /\ DOMAIN waiting' = DOMAIN waiting \cup {Len(waiting) + 1}
          /\ \A i \in DOMAIN waiting : waiting'[i] = waiting[i]
          /\ waiting'[Len(waiting) + 1] = r
      BY <1>1, <2>1, AppendProperties
    <2>5. \A i \in DOMAIN waiting : waiting[i] \in Gets /\ waiting[i] # r
      BY <1>1 DEF QueueInv
    <2>6. /\ phase'[r] = "waiting" /\ \A q \in Requests \ {r} : phase'[q] = phase[q]
          /\ Len(waiting) + 1 \in DOMAIN waiting' /\ Len(waiting) + 1 \notin DOMAIN waiting
      BY <2>2, <2>4
    <2> HIDE DEF Inv, TypeOK
    <2>7. \A i \in DOMAIN waiting : phase[waiting[i]] = "waiting"
      BY DEF Inv, QueueInv
    <2>8. \A q \in Gets : phase[q] = "waiting" => \E i \in DOMAIN waiting : waiting[i] = q
      BY DEF Inv, QueueInv
    <2>9. \A i, j \in DOMAIN waiting : waiting[i] = waiting[j] => i = j
      BY DEF Inv, QueueInv
    <2>10. \A i \in DOMAIN waiting' : phase'[waiting'[i]] = "waiting"
      BY <2>4, <2>5, <2>6, <2>7 DEF Requests
    <2>11. \A q \in Gets : phase'[q] = "waiting" => \E i \in DOMAIN waiting' : waiting'[i] = q
      BY <2>4, <2>6, <2>8 DEF Requests
    <2>12. \A i, j \in DOMAIN waiting' : waiting'[i] = waiting'[j] => i = j
      BY <2>4, <2>5, <2>9
    <2>13. QueueInv'
      BY <2>10, <2>11, <2>12 DEF QueueInv
    <2>14. slots' \in 0 .. Slots /\ slots' = Slots
      BY <2>1 DEF Inv, TypeOK
    <2>15. slots' = Cardinality(Holders')
      BY <2>1, <2>3 DEF Inv, SlotsInv
    <2> QED BY <2>4, <2>13, <2>14, <2>15 DEF SlotsInv
  <1> QED BY <1>2, <1>3

\* Taking an element out of a queue.
LEMMA RemoveAtProperties ==
  ASSUME NEW S, NEW s \in Seq(S), NEW i \in DOMAIN s
  PROVE  /\ RemoveAt(s, i) \in Seq(S) /\ Len(RemoveAt(s, i)) = Len(s) - 1
         /\ \A j \in 1 .. Len(s) - 1 :
              RemoveAt(s, i)[j] = IF j < i THEN s[j] ELSE s[j + 1]
  <1>1. i \in 1 .. Len(s) /\ Len(s) \in Nat
    OBVIOUS
  <1> DEFINE a == SubSeq(s, 1, i - 1)
             b == SubSeq(s, i + 1, Len(s))
  <1>2. a \in Seq(S) /\ Len(a) = i - 1 /\ \A j \in 1 .. i - 1 : a[j] = s[j]
    BY <1>1, SubSeqProperties
  <1>3. b \in Seq(S) /\ Len(b) = Len(s) - i /\ \A j \in 1 .. Len(s) - i : b[j] = s[i + j]
    BY <1>1, SubSeqProperties
  <1> HIDE DEF a, b
  <1>4. /\ a \o b \in Seq(S) /\ Len(a \o b) = Len(s) - 1
        /\ \A j \in 1 .. Len(s) - 1 : (a \o b)[j] = IF j < i THEN s[j] ELSE s[j + 1]
    BY <1>1, <1>2, <1>3
  <1> QED BY <1>4 DEF RemoveAt, a, b

\* Nobody else loses the place, and nobody gets a second one.
LEMMA RemoveAtKeepsOthers ==
  ASSUME NEW S, NEW s \in Seq(S), NEW i \in DOMAIN s,
         \A j, k \in DOMAIN s : s[j] = s[k] => j = k
  PROVE  /\ \A j \in DOMAIN RemoveAt(s, i) :
              \E k \in DOMAIN s : k # i /\ RemoveAt(s, i)[j] = s[k]
         /\ \A k \in DOMAIN s \ {i} : \E j \in DOMAIN RemoveAt(s, i) :
              RemoveAt(s, i)[j] = s[k]
         /\ \A j, k \in DOMAIN RemoveAt(s, i) :
              RemoveAt(s, i)[j] = RemoveAt(s, i)[k] => j = k
  <1> DEFINE t == RemoveAt(s, i)
             Old(j) == IF j < i THEN j ELSE j + 1
             New(k) == IF k < i THEN k ELSE k - 1
  <1>1. /\ t \in Seq(S) /\ Len(t) = Len(s) - 1 /\ Len(s) \in Nat /\ i \in 1 .. Len(s)
        /\ \A j \in 1 .. Len(s) - 1 : t[j] = s[Old(j)]
    BY RemoveAtProperties
  <1> HIDE DEF t
  <1>2. /\ DOMAIN t = 1 .. Len(s) - 1 /\ DOMAIN s = 1 .. Len(s)
        /\ \A j \in DOMAIN t : t[j] = s[Old(j)]
    BY <1>1
  <1>3. \A j \in DOMAIN t : Old(j) \in DOMAIN s /\ Old(j) # i
    BY <1>1, <1>2
  <1>4. \A k \in DOMAIN s \ {i} : New(k) \in DOMAIN t /\ Old(New(k)) = k
    BY <1>1, <1>2
  <1>5. \A j, k \in DOMAIN t : Old(j) = Old(k) => j = k
    BY <1>1, <1>2
  <1> HIDE DEF Old, New
  <1>6. \A j \in DOMAIN t : \E k \in DOMAIN s : k # i /\ t[j] = s[k]
    BY <1>2, <1>3
  <1>7. \A k \in DOMAIN s \ {i} : \E j \in DOMAIN t : t[j] = s[k]
    BY <1>2, <1>4
  <1>8. \A j, k \in DOMAIN t : t[j] = t[k] => j = k
    BY <1>2, <1>3, <1>5
  <1> QED BY <1>6, <1>7, <1>8 DEF t

LEMMA BusySlots ==
  ASSUME Inv, NEW r \in Requests, Busy(r)
  PROVE  QueueInv' /\ SlotsInv' /\ slots' \in 0 .. Slots /\ waiting' \in Seq(Gets)
  <1>1. PICK i \in DOMAIN waiting : waiting[i] = r /\ waiting' = RemoveAt(waiting, i)
    BY DEF Busy, Dequeue
  <1>2. waiting \in Seq(Gets) /\ phase \in [Requests -> Phases] /\ slots \in 0 .. Slots
    BY DEF Inv, TypeOK
  <1>3. phase[r] = "waiting" /\ phase' = [phase EXCEPT ![r] = "ended"] /\ slots' = slots
    BY DEF Busy, End, Go
  <1>4. \A q \in Requests \ {r} : phase'[q] = phase[q]
    BY <1>2, <1>3
  <1>5. phase'[r] = "ended"
    BY <1>2, <1>3
  <1>6. waiting' \in Seq(Gets)
    BY <1>1, <1>2, RemoveAtProperties
  <1>7. Holders' = Holders
    BY <1>3, <1>4, <1>5 DEF Holders, Holding, Streaming, Requests
  <1>8. /\ \A i1 \in DOMAIN waiting : phase[waiting[i1]] = "waiting" /\ waiting[i1] \in Requests
        /\ \A q \in Gets : phase[q] = "waiting" => \E i1 \in DOMAIN waiting : waiting[i1] = q
        /\ \A j, k \in DOMAIN waiting : waiting[j] = waiting[k] => j = k
    BY <1>2 DEF Inv, QueueInv, Requests
  <1>9. /\ \A j \in DOMAIN waiting' : \E k \in DOMAIN waiting : k # i /\ waiting'[j] = waiting[k]
        /\ \A k \in DOMAIN waiting \ {i} : \E j \in DOMAIN waiting' : waiting'[j] = waiting[k]
        /\ \A j, k \in DOMAIN waiting' : waiting'[j] = waiting'[k] => j = k
    BY <1>1, <1>2, <1>8, RemoveAtKeepsOthers
  <1>10. \A j \in DOMAIN waiting' : phase'[waiting'[j]] = "waiting"
    BY <1>1, <1>4, <1>8, <1>9
  <1>11. \A q \in Gets : phase'[q] = "waiting" => \E j \in DOMAIN waiting' : waiting'[j] = q
    BY <1>1, <1>4, <1>5, <1>8, <1>9 DEF Requests
  <1>12. waiting # <<>>
    BY <1>1
  <1> QED BY <1>2, <1>3, <1>6, <1>7, <1>9, <1>10, <1>11, <1>12 DEF Inv, QueueInv, SlotsInv

LEMMA ReturnSlots ==
  ASSUME Inv, NEW r \in Requests, Return(r)
  PROVE  QueueInv' /\ SlotsInv' /\ slots' \in 0 .. Slots /\ waiting' \in Seq(Gets)
  <1>1. /\ waiting \in Seq(Gets) /\ phase \in [Requests -> Phases]
        /\ slots \in 0 .. Slots /\ Slots \in Nat \ {0} /\ TypeOK
    BY DownloadsAssumption DEF Inv, TypeOK
  <1>2. phase[r] = "returning" /\ r \in Gets
    BY DEF Return, Inv, RequestsInv, Requests
  <1>3. r \in Holders
    BY <1>2 DEF Holders, Holding
  <1>4. /\ IsFiniteSet(Holders \ {r}) /\ Cardinality(Holders \ {r}) = slots - 1
        /\ slots \in Nat /\ slots - 1 \in Nat
    <2>1. slots = Cardinality(Holders) /\ Cardinality(Holders) \in Nat
          /\ IsFiniteSet(Holders \ {r}) /\ Cardinality(Holders \ {r}) = Cardinality(Holders) - 1
      BY <1>1, <1>3, HoldersAreCounted DEF Inv, SlotsInv
    <2>2. Cardinality(Holders \ {r}) \in Nat
      BY <2>1, FS_CardinalityType
    <2> QED BY <2>1, <2>2
  <1>5. CASE waiting = <<>>
    <2>1. slots' = slots - 1 /\ waiting' = waiting /\ phase' = [phase EXCEPT ![r] = "ended"]
      BY <1>5 DEF Return, Go
    <2>2. Holders' = Holders \ {r}
      BY <1>1, <1>2, <2>1 DEF Holders, Holding, Streaming, Requests
    <2>3. slots' = Cardinality(Holders')
      BY <1>4, <2>1, <2>2
    <2>4. QueueInv'
      BY <1>1, <1>2, <1>5, <2>1 DEF Inv, QueueInv, Requests
    <2>5. slots' \in 0 .. Slots
      BY <1>1, <1>4, <2>1
    <2> QED BY <1>1, <1>5, <2>1, <2>3, <2>4, <2>5 DEF SlotsInv
  <1>6. CASE waiting # <<>>
    <2> DEFINE h == Head(waiting)
    <2>1. h \in Gets /\ phase[h] = "waiting" /\ h = waiting[1] /\ 1 \in DOMAIN waiting
      BY <1>1, <1>6, QueueHead DEF Inv
    <2> HIDE DEF h
    <2>2. h # r /\ h \in Requests /\ h \notin Holders
      BY <1>2, <2>1 DEF Holders, Holding, Streaming, Requests
    <2>3. /\ slots' = slots /\ waiting' = Tail(waiting)
          /\ phase' = [phase EXCEPT ![r] = "ended", ![h] = "resolving"]
      BY <1>6 DEF Return, h
    <2>4. /\ phase'[r] = "ended" /\ phase'[h] = "resolving"
          /\ \A q \in Requests \ {r, h} : phase'[q] = phase[q]
      BY <1>1, <2>2, <2>3
    <2>5. Holders' = (Holders \ {r}) \cup {h}
      BY <1>2, <2>1, <2>2, <2>4 DEF Holders, Holding, Streaming, Requests
    <2>6. Cardinality((Holders \ {r}) \cup {h}) = slots
      <3>1. Cardinality((Holders \ {r}) \cup {h}) = Cardinality(Holders \ {r}) + 1
        BY <1>4, <2>2, FS_AddElement
      <3> QED BY <1>4, <3>1
    <2>7. slots' = Cardinality(Holders')
      BY <2>3, <2>5, <2>6
    <2>8. /\ waiting' \in Seq(Gets) /\ Len(waiting') = Len(waiting) - 1
          /\ \A j \in 1 .. Len(waiting) - 1 : waiting'[j] = waiting[j + 1]
      BY <1>1, <1>6, <2>3, HeadTailProperties
    <2>9. /\ DOMAIN waiting' = 1 .. Len(waiting) - 1 /\ DOMAIN waiting = 1 .. Len(waiting)
          /\ Len(waiting) \in Nat
      BY <1>1, <2>8
    <2>10. /\ \A i \in DOMAIN waiting : phase[waiting[i]] = "waiting" /\ waiting[i] \in Requests
           /\ \A q \in Gets : phase[q] = "waiting" => \E i \in DOMAIN waiting : waiting[i] = q
           /\ \A i, j \in DOMAIN waiting : waiting[i] = waiting[j] => i = j
      BY <1>1 DEF Inv, QueueInv, Requests
    <2>11. \A i \in DOMAIN waiting' : i + 1 \in DOMAIN waiting /\ i + 1 # 1
      BY <2>9
    <2>12. \A i \in DOMAIN waiting' : /\ phase'[waiting'[i]] = "waiting"
      <3> SUFFICES ASSUME NEW i \in DOMAIN waiting' PROVE phase'[waiting'[i]] = "waiting"
        OBVIOUS
      <3>1. waiting'[i] = waiting[i + 1] /\ i + 1 \in DOMAIN waiting /\ i + 1 # 1
        BY <2>8, <2>9, <2>11
      <3>2. waiting[i + 1] # h /\ waiting[i + 1] # r
        BY <1>2, <2>1, <2>10, <3>1
      <3> QED BY <2>4, <2>10, <3>1, <3>2
    <2>13. \A q \in Gets : phase'[q] = "waiting" => \E i \in DOMAIN waiting' : waiting'[i] = q
      <3> SUFFICES ASSUME NEW q \in Gets, phase'[q] = "waiting"
                   PROVE  \E i \in DOMAIN waiting' : waiting'[i] = q
        OBVIOUS
      <3>1. q # r /\ q # h /\ phase[q] = "waiting"
        BY <2>4 DEF Requests
      <3>2. PICK i \in DOMAIN waiting : waiting[i] = q
        BY <2>10, <3>1
      <3>3. i # 1 /\ i - 1 \in DOMAIN waiting' /\ (i - 1) + 1 = i
        BY <2>1, <2>9, <3>1, <3>2
      <3>4. waiting'[i - 1] = q
        BY <2>8, <2>9, <3>2, <3>3
      <3> QED BY <3>3, <3>4
    <2>14. \A i, j \in DOMAIN waiting' : waiting'[i] = waiting'[j] => i = j
      <3> SUFFICES ASSUME NEW i \in DOMAIN waiting', NEW j \in DOMAIN waiting',
                          waiting'[i] = waiting'[j]
                   PROVE  i = j
        OBVIOUS
      <3>1. waiting[i + 1] = waiting[j + 1]
        BY <2>8, <2>9
      <3>2. i + 1 = j + 1
        BY <2>10, <2>11, <3>1
      <3> QED BY <2>9, <3>2
    <2>15. slots' = Slots /\ slots' \in 0 .. Slots
      BY <1>1, <1>6, <2>3 DEF Inv, SlotsInv
    <2> QED BY <2>7, <2>8, <2>12, <2>13, <2>14, <2>15 DEF QueueInv, SlotsInv
  <1> QED BY <1>5, <1>6

LEMMA SlotsStep ==
  ASSUME Inv, NEW r \in Requests, Upstream(r) \/ Handler(r) \/ Client(r)
  PROVE  QueueInv' /\ SlotsInv' /\ slots' \in 0 .. Slots /\ waiting' \in Seq(Gets)
  BY QuietSlots, ArriveSlots, BusySlots, ReturnSlots DEF Quiet, Handler, Client

-----------------------------------------------------------------------------
(* Types *)

LEMMA ReportType ==
  ASSUME TypeOK, NEW r \in Requests,
         NEW e \in {"download_success", "download_error", "info_check"}, Report(r, e)
  PROVE  log' \in [Requests -> Seq({"download_success", "download_error", "info_check"})]
  BY DEF TypeOK, Report

\* The types of all variables but slots and waiting.
Types ==
    /\ phase \in [Requests -> Phases] /\ gone \subseteq Requests
    /\ size \in [Requests -> Sizes \cup {0}]
    /\ attempt \in [Requests -> 0 .. MaxRetries]
    /\ answer \in [Requests -> Answers \cup {NoAnswer}]
    /\ status \in [Requests -> Statuses] /\ sent \in [Requests -> Nat]
    /\ lengths \in [Requests -> Seq(Nat)]
    /\ \A r \in Requests : Len(lengths[r]) <= 2
    /\ err \in [Requests -> BOOLEAN] /\ active \in Int
    /\ log \in [Requests -> Seq({"download_success", "download_error", "info_check"})]
    /\ reply \in [Requests -> {"none", "complete", "broken", "lost"}]

LEMMA TypesStep ==
  ASSUME Inv, NEW r \in Requests, Upstream(r) \/ Handler(r) \/ Client(r)
  PROVE  Types'
  <1> USE DEF TypeOK, Types, Go, Reply, End, StreamEnds, stream, Phases, Holding,
              Streaming, Statuses
  <1>1. TypeOK
    BY DEF Inv
  <1>2. CASE ResolveFails(r)
    BY <1>1, <1>2, ReportType DEF ResolveFails
  <1>3. CASE Resolved(r)
    <2>1. PICK s \in Sizes :
            /\ size' = [size EXCEPT ![r] = s]
            /\ IF s > MaxFileSize
               THEN /\ Report(r, "download_error") /\ Reply(r, "failed")
                    /\ Go(r, "returning") /\ UNCHANGED <<lengths, active>>
               ELSE /\ lengths' = [lengths EXCEPT ![r] = LengthHeader(s)]
                    /\ active' = active + 1
                    /\ Go(r, "fetching") /\ UNCHANGED <<log, status>>
      BY <1>3 DEF Resolved
    <2>2. UNCHANGED <<gone, stream, reply>> /\ size' \in [Requests -> Sizes \cup {0}]
      BY <1>1, <1>3, <2>1 DEF Resolved
    <2>3. CASE s > MaxFileSize
      BY <1>1, <2>1, <2>3, <2>2, ReportType
    <2>4. CASE ~(s > MaxFileSize)
      <3>1. LengthHeader(s) \in Seq(Nat) /\ Len(LengthHeader(s)) <= 2
        <4>1. s \in Nat
          BY DownloadsAssumption
        <4> QED BY <4>1, SizeHeader
      <3>2. lengths' \in [Requests -> Seq(Nat)] /\ \A q \in Requests : Len(lengths'[q]) <= 2
        BY <1>1, <2>1, <2>4, <3>1
      <3>3. active' \in Int /\ log' = log /\ status' = status
        BY <1>1, <2>1, <2>4
      <3>4. phase' \in [Requests -> Phases]
        BY <1>1, <2>1, <2>4
      <3> QED BY <1>1, <2>2, <3>2, <3>3, <3>4
    <2> QED BY <2>3, <2>4
  <1>4. CASE FetchFails(r)
    BY <1>1, <1>4 DEF FetchFails
  <1>5. CASE Answered(r)
    <2>1. PICK a \in Answers :
            /\ answer' = [answer EXCEPT ![r] = a] /\ Reply(r, "passed")
            /\ lengths' = [lengths EXCEPT ![r] =
                             IF a.stated THEN Append(@, a.length) ELSE @]
      BY <1>5 DEF Answered
    <2>2. r \in Gets
      BY <1>5 DEF Answered, Inv, RequestsInv, Requests
    <2>3. a.length \in Nat /\ lengths[r] \in Seq(Nat) /\ Len(lengths[r]) <= 1
      BY <1>1, <1>5, <2>2, DownloadsAssumption
         DEF Answers, Answered, Inv, RequestsInv, GetInv, FetchInv
    <2>4. Append(lengths[r], a.length) \in Seq(Nat) /\ Len(Append(lengths[r], a.length)) <= 2
      BY <2>3
    <2>5. lengths' \in [Requests -> Seq(Nat)] /\ \A q \in Requests : Len(lengths'[q]) <= 2
      BY <1>1, <2>1, <2>4
    <2> QED BY <1>1, <1>5, <2>1, <2>5 DEF Answered
  <1>6. CASE Copy(r)
    <2>1. PICK n \in 0 .. answer[r].length :
            /\ n <= Room(r) /\ sent' = [sent EXCEPT ![r] = n]
            /\ \/ n = answer[r].length /\ StreamEnds(r, FALSE)
               \/ /\ n < answer[r].length \/ answer[r].endTold
                  /\ \E hungUp \in IsClientDisconnect : StreamEnds(r, ~hungUp)
      BY <1>6 DEF Copy
    <2>2. PICK failed \in BOOLEAN : StreamEnds(r, failed)
      BY <2>1 DEF IsClientDisconnect
    <2>3. r \in Gets
      BY <1>6 DEF Copy, Inv, RequestsInv, Requests
    <2>4. answer[r] \in Answers
      BY <1>6, <2>3 DEF Copy, Inv, RequestsInv, GetInv, CopyInv
    <2>5. n \in Nat
      BY <2>4, DownloadsAssumption DEF Answers
    <2> QED BY <1>1, <1>6, <2>1, <2>2, <2>5 DEF Copy
  <1>7. CASE Checked(r)
    BY <1>1, <1>7, ReportType DEF Checked
  <1>8. CASE Busy(r) \/ GiveUp(r) \/ EndDownload(r)
    <2>1. CASE Busy(r)
      BY <1>1, <2>1 DEF Busy
    <2>2. CASE GiveUp(r)
      BY <1>1, <2>2 DEF GiveUp
    <2>3. CASE EndDownload(r)
      <3>1. active' \in Int
        BY <1>1, <2>3 DEF EndDownload
      <3> QED BY <1>1, <2>3, <3>1 DEF EndDownload
    <2> QED BY <1>8, <2>1, <2>2, <2>3
  <1>9. CASE Retry(r)
    <2>1. r \in Gets
      BY <1>9 DEF Retry, Inv, RequestsInv, Requests
    <2>2. attempt[r] + 1 \in 0 .. MaxRetries
      BY <1>1, <1>9, <2>1, DownloadsAssumption DEF Retry, Inv, RequestsInv, GetInv, FetchInv
    <2> QED BY <1>1, <1>9, <2>2 DEF Retry
  <1>10. CASE LogDownload(r)
    <2>1. PICK e \in {"download_success", "download_error", "info_check"} : Report(r, e)
      BY <1>10 DEF LogDownload
    <2> QED BY <1>1, <1>10, <2>1, ReportType DEF LogDownload
  <1>11. CASE Return(r)
    <2>1. waiting # <<>> => Head(waiting) \in Requests
      BY <1>1, QueueHead DEF Inv, Requests
    <2> QED BY <1>1, <1>11, <2>1 DEF Return
  <1>12. CASE Refuse(r) \/ Arrive(r) \/ Leave(r)
    BY <1>1, <1>12 DEF Refuse, Arrive, Leave
  <1>13. CASE Check(r)
    BY <1>1, <1>13, ReportType DEF Check
  <1> QED BY <1>2, <1>3, <1>4, <1>5, <1>6, <1>7, <1>8, <1>9, <1>10, <1>11, <1>12, <1>13
       DEF Upstream, Handler, Client

-----------------------------------------------------------------------------
(* Theorems *)

LEMMA InvInit == Init => Inv
  <1> SUFFICES ASSUME Init PROVE Inv
    OBVIOUS
  <1> USE DEF Init
  <1>1. TypeOK
    BY DownloadsAssumption DEF TypeOK, Phases, Statuses
  <1>2. RequestsInv
    BY DEF RequestsInv, GetInv, BeforeInv, FetchInv, CopyInv, AfterInv, Fresh, Requests
  <1>3. QueueInv
    BY DEF QueueInv, Requests
  <1>4. Holders = {}
    BY DEF Holders, Holding, Streaming, Requests
  <1>5. SlotsInv
    BY <1>4, FS_EmptySet DEF SlotsInv
  <1> QED BY <1>1, <1>2, <1>3, <1>5 DEF Inv

LEMMA InvStep == Inv /\ [Next]_vars => Inv'
  <1> SUFFICES ASSUME Inv, [Next]_vars PROVE Inv'
    OBVIOUS
  <1>1. ASSUME NEW r \in Requests, Upstream(r) \/ Handler(r) \/ Client(r) PROVE Inv'
    <2>1. QueueInv' /\ SlotsInv' /\ slots' \in 0 .. Slots /\ waiting' \in Seq(Gets)
      BY <1>1, SlotsStep
    <2>2. RequestsInv'
      BY <1>1, RequestsStep DEF Inv
    <2>3. Types'
      BY <1>1, TypesStep
    <2> QED BY <2>1, <2>2, <2>3 DEF Inv, TypeOK, Types
  <1>2. CASE UNCHANGED vars
    <2>1. TypeOK'
      BY <1>2 DEF vars, stream, Inv, TypeOK
    <2>2. RequestsInv'
      <3>1. \A q \in Requests : SameRequest(q)
        BY <1>2 DEF vars, stream, SameRequest
      <3> QED BY <3>1, SameGet DEF Inv, RequestsInv, Requests, SameRequest
    <2>3. QueueInv'
      BY <1>2 DEF vars, stream, Inv, QueueInv
    <2>4. SlotsInv'
      BY <1>2 DEF vars, stream, Inv, SlotsInv, Holders
    <2> QED BY <2>1, <2>2, <2>3, <2>4 DEF Inv
  <1> QED BY <1>1, <1>2 DEF Next

\* In every reachable state each request is as its phase says, and the queue
\* and the slots are as the phases say.
THEOREM DownloadsInv == Spec => []Inv
  BY InvInit, InvStep, PTL DEF Spec

\* The variables have their types; in particular no stream is tried more
\* often than MaxRetries says, and no reply carries three lengths.
THEOREM DownloadsTyped == Spec => []TypeOK
  <1>1. Inv => TypeOK
    BY DEF Inv
  <1> QED BY <1>1, DownloadsInv, PTL

\* However requests interleave, fail and are abandoned, a slot is taken
\* exactly while its download is being handled, and nobody waits in vain.
THEOREM DownloadsHoldSlots == Spec => []SlotsAreExact
  <1>1. Inv => SlotsAreExact
    <2> SUFFICES ASSUME Inv PROVE SlotsAreExact
      OBVIOUS
    <2>1. waiting \in Seq(Gets)
      BY DEF Inv, TypeOK
    <2>2. {waiting[i] : i \in DOMAIN waiting} = {r \in Gets : phase[r] = "waiting"}
      BY <2>1 DEF Inv, QueueInv
    <2> QED BY <2>2 DEF Inv, QueueInv, SlotsInv, SlotsAreExact
  <1> QED BY <1>1, DownloadsInv, PTL

\* Every way through the handler that took a slot reports one event: an error
\* without an answer, and a success where all of an answer that ends with its
\* last byte was passed on.
THEOREM DownloadsAreLogged == Spec => []LoggedOnce
  <1> DEFINE Logged(r) == \/ phase[r] = "returning"
                          \/ phase[r] = "ended" /\ status[r] \notin {"bad", "busy"}
             Whole(r)  == /\ reply[r] = "complete" /\ ~answer[r].endTold
                          /\ sent[r] = answer[r].length
  <1>1. ASSUME Inv, NEW r \in Gets
        PROVE  /\ Logged(r) => Len(log[r]) = 1
               /\ ~Logged(r) => Len(log[r]) = 0
               /\ log[r] = <<"download_success">> => answer[r] # NoAnswer
               /\ Whole(r) => log[r] = <<"download_success">>
    <2>1. GetInv(r) /\ phase[r] \in Phases
      BY <1>1 DEF Inv, TypeOK, RequestsInv, Requests
    <2>2. /\ Len(<<>>) = 0 /\ Len(<<"download_error">>) = 1 /\ NoAnswer.endTold
          /\ <<>> # <<"download_success">> /\ <<"download_error">> # <<"download_success">>
      BY DEF NoAnswer
    <2>3. CASE phase[r] \in {"returning", "ended"}
      BY <2>1, <2>2, <2>3 DEF GetInv, AfterInv, Settled
    <2>4. CASE phase[r] \notin {"returning", "ended"}
      <3>1. log[r] = <<>> /\ reply[r] = "none"
        BY <2>1, <2>4 DEF GetInv, BeforeInv, FetchInv, CopyInv, Fresh, Phases, Holding,
                          Streaming
      <3> QED BY <2>2, <2>4, <3>1
    <2> QED BY <2>3, <2>4
  <1>2. Inv => LoggedOnce
    BY <1>1, Zenon DEF LoggedOnce
  <1> QED BY <1>2, DownloadsInv, PTL

\* The length the service announced is what its client checks the body by.
THEOREM DownloadsExposeCuts == Spec => []KnownSizeExposesCuts
  <1>1. Inv => KnownSizeExposesCuts
    <2> SUFFICES ASSUME Inv, NEW r \in Gets, reply[r] = "complete",
                        status[r] = "passed", size[r] > 0
                 PROVE  sent[r] = size[r]
      BY DEF KnownSizeExposesCuts
    <2>1. GetInv(r) /\ phase[r] \in Phases /\ lengths[r] \in Seq(Nat)
      BY DEF Inv, TypeOK, RequestsInv, Requests
    <2>2. phase[r] = "ended"
      BY <2>1 DEF GetInv, BeforeInv, FetchInv, CopyInv, AfterInv, Fresh, Phases, Holding,
                  Streaming
    <2>3. CarriesSize(r) /\ LooksComplete(r)
      BY <2>1, <2>2 DEF GetInv, AfterInv, Settled
    <2>4. 1 \in DOMAIN lengths[r] /\ lengths[r][1] = size[r]
      BY <2>1, <2>3 DEF CarriesSize
    <2> QED BY <2>3, <2>4 DEF LooksComplete
  <1> QED BY <1>1, DownloadsInv, PTL

\* Once a status was passed on, no step asks the service again.
THEOREM DownloadsAnswerOnce == Spec => OneAnswerPerReply
  <1>1. Inv /\ [Next]_vars =>
          [\A r \in Gets : status[r] # "none" => phase'[r] \notin {"backoff", "fetching"}]_vars
    <2> SUFFICES ASSUME Inv, [Next]_vars, vars' # vars, NEW r \in Gets, status[r] # "none",
                        phase'[r] \in {"backoff", "fetching"}
                 PROVE  FALSE
      OBVIOUS
    <2>1. GetInv(r) /\ GetInv(r)' /\ TypeOK /\ r \in Requests
      BY InvStep DEF Inv, RequestsInv, Requests
    <2>2. status'[r] = "none"
      BY <2>1 DEF GetInv, FetchInv, Fresh
    <2>3. PICK q \in Requests : Upstream(q) \/ Handler(q) \/ Client(q)
      BY DEF Next
    <2>4. status'[r] # "none"
      <3>1. CASE q # r /\ ~Return(q)
        BY <2>1, <2>3, <3>1, OtherRequests DEF SameRequest
      <3>2. CASE Return(q)
        BY <2>1, <3>2 DEF Return, TypeOK
      <3>3. CASE q = r /\ ~Return(q)
        <4>1. CASE Upstream(r)
          BY <2>1, <4>1 DEF Upstream, TypeOK, Reply, stream, ResolveFails, Resolved,
               FetchFails, Answered, Copy, Checked
        <4>2. CASE Handler(r) /\ ~Return(r)
          BY <2>1, <4>2 DEF Handler, TypeOK, Reply, stream, Busy, Retry, GiveUp,
               EndDownload, LogDownload, Refuse
        <4>3. CASE Client(r)
          BY <2>1, <4>3 DEF Client, TypeOK, Reply, stream, Arrive, Check, Leave, Refuse
        <4> QED BY <2>3, <3>3, <4>1, <4>2, <4>3
      <3> QED BY <3>1, <3>2, <3>3
    <2> QED BY <2>2, <2>4
  <1> QED BY <1>1, DownloadsInv, PTL DEF Spec, OneAnswerPerReply

=============================================================================
