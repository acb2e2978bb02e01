-------------------------- MODULE MiddlewareProofs --------------------------
(***************************************************************************)
(* Theorems about Middleware, for any requests, addresses, bucket size,    *)
(* channel capacity and numbers of days and faults.                        *)
(***************************************************************************)
EXTENDS Middleware, SequenceTheorems, FiniteSetTheorems, TLAPS

-----------------------------------------------------------------------------
(* Maps keep the types of their keys and values. *)

LEMMA EmptyMap == \A K, V : MapOf(Empty, K, V)
  BY DEF Empty, MapOf

LEMMA PutMap ==
  ASSUME NEW K, NEW V, NEW m, MapOf(m, K, V), NEW k \in K, NEW v \in V
  PROVE  MapOf(Put(m, k, v), K, V)
  BY DEF Put, MapOf

-----------------------------------------------------------------------------
(* The rate limiter *)

LimiterType ==
    /\ now \in Nat /\ MapOf(limiters, Addresses, 0 .. Burst)
    /\ admitted \in [Addresses -> Seq(Nat)]

\* What is left in a bucket and the requests let in since any one of them are
\* no more than a full bucket and what was earned since that one.
Bucket(a) ==
    /\ admitted[a] # <<>> => a \in DOMAIN limiters
    /\ \A i \in DOMAIN admitted[a] :
          GetLimiter(a) + (Len(admitted[a]) - i + 1) <= Burst + (now - admitted[a][i])

Rate(a) ==
    \A i, j \in DOMAIN admitted[a] :
        i <= j => j - i + 1 <= Burst + (admitted[a][j] - admitted[a][i])

RateInv == LimiterType /\ \A a \in Addresses : Bucket(a) /\ Rate(a)

LEMMA BurstType == Burst \in Nat /\ Burst >= 1
  BY MiddlewareAssumption

LEMMA BucketType ==
  ASSUME LimiterType, NEW a \in Addresses
  PROVE  GetLimiter(a) \in 0 .. Burst
  BY BurstType DEF LimiterType, GetLimiter, MapOf

\* Only the clock and arrivals touch a bucket.
LEMMA OthersLeaveLimiter ==
  ASSUME [Next]_vars
  PROVE  \/ Tick \/ UNCHANGED limiter
         \/ \E r \in Requests, a \in Addresses, url \in Urls : Arrive(r, a, url)
  <1>1. ASSUME NEW f, Flusher(f) PROVE UNCHANGED limiter
    BY <1>1 DEF Flusher, StartFlusher, Take, OpenFails, OpenSucceeds, WriteLine, WriteFails, GoTo
  <1>2. ASSUME NEW r, Serve(r) \/ MakeChannel(r) \/ Send(r) PROVE UNCHANGED limiter
    BY <1>2 DEF Serve, MakeChannel, Send
  <1>3. ASSUME NewDay \/ UNCHANGED vars PROVE UNCHANGED limiter
    BY <1>3 DEF NewDay, vars
  <1> QED BY <1>1, <1>2, <1>3 DEF Next, Request

LEMMA EarnedInTime ==
  ASSUME NEW left \in Int, NEW then \in Int, NEW k \in Int, NEW n \in Int, NEW t \in Int,
         then <= left + 1, left + k <= Burst + (n - t)
  PROVE  then + k <= Burst + (n + 1 - t)
  BY BurstType

LEMMA RateTick == RateInv /\ Tick => RateInv'
  <1> SUFFICES ASSUME RateInv, Tick PROVE RateInv'
    OBVIOUS
  <1>1. LimiterType /\ now' = now + 1 /\ admitted' = admitted
        /\ limiters' = [a \in DOMAIN limiters |-> Earn(limiters[a])]
    BY DEF RateInv, Tick
  <1>2. \A n \in 0 .. Burst : Earn(n) \in 0 .. Burst /\ Earn(n) <= n + 1
    BY BurstType DEF Earn
  <1>3. LimiterType'
    BY <1>1, <1>2 DEF LimiterType, MapOf
  <1>4. ASSUME NEW a \in Addresses PROVE Bucket(a)' /\ Rate(a)'
    <2>1. GetLimiter(a)' <= GetLimiter(a) + 1
      BY <1>1, <1>2, BurstType DEF LimiterType, MapOf, GetLimiter
    <2>2. GetLimiter(a)' \in 0 .. Burst /\ GetLimiter(a) \in 0 .. Burst
      BY <1>1, <1>3, BurstType DEF LimiterType, GetLimiter, MapOf
    <2>3. Bucket(a) /\ Rate(a) /\ admitted[a] \in Seq(Nat)
      BY <1>1 DEF RateInv, LimiterType
    <2>4. Rate(a)'
      BY <1>1, <2>3 DEF Rate
    <2>5. ASSUME NEW i \in DOMAIN admitted[a]
          PROVE  GetLimiter(a)' + (Len(admitted[a]) - i + 1) <= Burst + (now' - admitted[a][i])
      <3>1. GetLimiter(a) + (Len(admitted[a]) - i + 1) <= Burst + (now - admitted[a][i])
        BY <2>3 DEF Bucket
      <3>2. i \in Nat /\ Len(admitted[a]) \in Nat /\ admitted[a][i] \in Nat /\ now \in Nat
        BY <1>1, <2>3 DEF LimiterType
      <3>3. GetLimiter(a) \in Int /\ GetLimiter(a)' \in Int /\ i \in Int /\ Len(admitted[a]) \in Int
            /\ admitted[a][i] \in Int /\ now \in Int /\ now' = now + 1 /\ Burst \in Int
        BY <1>1, <2>2, <3>2, BurstType
      <3>4. Len(admitted[a]) - i + 1 \in Int
        BY <3>3
      <3> DEFINE left == GetLimiter(a)
                 then == GetLimiter(a)'
                 k == Len(admitted[a]) - i + 1
                 t == admitted[a][i]
      <3>5. /\ left \in Int /\ then \in Int /\ k \in Int /\ now \in Int /\ t \in Int
            /\ then <= left + 1 /\ left + k <= Burst + (now - t)
        BY <2>1, <3>1, <3>3, <3>4
      <3> HIDE DEF left, then, k, t
      <3>6. then + k <= Burst + (now + 1 - t)
        BY <3>5, EarnedInTime
      <3>7. ASSUME NEW m \in Int, m = now + 1 PROVE then + k <= Burst + (m - t)
        BY <3>3, <3>5, <3>6, <3>7
      <3>8. now' = now + 1 /\ now' \in Int
        BY <1>1, <3>3
      <3> QED BY <3>7, <3>8 DEF then, k, t
    <2>6. admitted'[a] # <<>> => a \in DOMAIN limiters'
      BY <1>1, <2>3 DEF Bucket
    <2> QED BY <1>1, <2>4, <2>5, <2>6 DEF Bucket
  <1> QED BY <1>3, <1>4 DEF RateInv

LEMMA RateArrive ==
  ASSUME RateInv, NEW r \in Requests, NEW b \in Addresses, NEW url \in Urls, Arrive(r, b, url)
  PROVE  RateInv'
  <1>1. LimiterType /\ now' = now
    BY DEF RateInv, Arrive
  <1>2. CASE UNCHANGED <<limiters, admitted>>
    BY <1>1, <1>2 DEF RateInv, LimiterType, Bucket, Rate, GetLimiter
  <1>3. CASE /\ GetLimiter(b) > 0 /\ limiters' = Put(limiters, b, GetLimiter(b) - 1)
             /\ admitted' = [admitted EXCEPT ![b] = Append(@, now)]
    <2> DEFINE A == admitted[b]
    <2>1. A \in Seq(Nat) /\ now \in Nat /\ Bucket(b) /\ Rate(b) /\ GetLimiter(b) \in 1 .. Burst
      BY <1>1, <1>3, BucketType DEF RateInv, LimiterType
    <2>2. /\ admitted'[b] = Append(A, now)
          /\ \A a \in Addresses : a # b => admitted'[a] = admitted[a]
      BY <1>1, <1>3 DEF LimiterType
    <2>3. /\ GetLimiter(b)' = GetLimiter(b) - 1 /\ b \in DOMAIN limiters'
          /\ \A a \in Addresses : a # b => /\ GetLimiter(a)' = GetLimiter(a)
                                           /\ a \in DOMAIN limiters => a \in DOMAIN limiters'
      BY <1>3 DEF GetLimiter, Put
    <2>4. LimiterType'
      <3>1. MapOf(limiters, Addresses, 0 .. Burst)'
        <4>1. GetLimiter(b) - 1 \in 0 .. Burst
          BY <2>1, BurstType
        <4> QED BY <1>1, <1>3, <4>1, PutMap DEF LimiterType
      <3>2. admitted' \in [Addresses -> Seq(Nat)]
        BY <1>1, <1>3 DEF LimiterType
      <3> QED BY <1>1, <3>1, <3>2 DEF LimiterType
    <2>5. ASSUME NEW a \in Addresses, a # b PROVE Bucket(a)' /\ Rate(a)'
      BY <1>1, <2>2, <2>3, <2>5 DEF RateInv, Bucket, Rate
    <2>6. Bucket(b)' /\ Rate(b)'
      <3>0. /\ \A i \in DOMAIN A : GetLimiter(b) + (Len(A) - i + 1) <= Burst + (now - A[i])
            /\ \A i, j \in DOMAIN A : i <= j => j - i + 1 <= Burst + (A[j] - A[i])
        BY <2>1 DEF Bucket, Rate
      <3> HIDE DEF A
      <3>1. /\ Len(Append(A, now)) = Len(A) + 1 /\ DOMAIN Append(A, now) = 1 .. Len(A) + 1
            /\ Append(A, now)[Len(A) + 1] = now
            /\ \A i \in 1 .. Len(A) : Append(A, now)[i] = A[i] /\ A[i] \in Nat
            /\ Len(A) \in Nat /\ DOMAIN A = 1 .. Len(A)
        BY <2>1, AppendProperties
      <3>2. ASSUME NEW i \in 1 .. Len(A)
            PROVE  GetLimiter(b) + (Len(A) - i + 1) <= Burst + (now - A[i])
        BY <3>0, <3>1
      <3>3. ASSUME NEW i \in 1 .. Len(A) + 1
            PROVE  GetLimiter(b) - 1 + (Len(A) + 1 - i + 1) <= Burst + (now - Append(A, now)[i])
        BY <2>1, <3>1, <3>2, BurstType
      <3>4. Bucket(b)'
        <4>1. /\ DOMAIN admitted'[b] = 1 .. Len(A) + 1 /\ Len(admitted'[b]) = Len(A) + 1
              /\ now' = now /\ GetLimiter(b)' = GetLimiter(b) - 1 /\ b \in DOMAIN limiters'
          BY <1>1, <2>2, <2>3, <3>1
        <4> QED BY <2>2, <3>3, <4>1 DEF Bucket
      <3>5. ASSUME NEW i \in 1 .. Len(A) + 1, NEW j \in 1 .. Len(A) + 1, i <= j
            PROVE  j - i + 1 <= Burst + (Append(A, now)[j] - Append(A, now)[i])
        <4>1. CASE j = Len(A) + 1 /\ i = j
          <5>1. Append(A, now)[j] = now /\ Append(A, now)[i] = now /\ now \in Nat
            BY <2>1, <3>1, <4>1
          <5>2. j \in Int /\ now - now = 0 /\ i = j
            BY <3>1, <4>1, <5>1
          <5> QED BY <5>1, <5>2, BurstType
        <4>2. CASE j = Len(A) + 1 /\ i # j
          <5>1. i \in 1 .. Len(A) /\ Append(A, now)[j] = now /\ Append(A, now)[i] = A[i]
            BY <3>1, <3>5, <4>2
          <5>2. GetLimiter(b) + (Len(A) - i + 1) <= Burst + (now - A[i])
            BY <3>2, <5>1
          <5>3. /\ GetLimiter(b) \in Nat /\ GetLimiter(b) >= 1 /\ A[i] \in Nat /\ now \in Nat
                /\ j = Len(A) + 1
            BY <2>1, <3>1, <4>2, <5>1, BurstType
          <5> QED BY <3>1, <5>1, <5>2, <5>3, BurstType
        <4>3. CASE j # Len(A) + 1
          <5>1. i \in DOMAIN A /\ j \in DOMAIN A
            BY <3>1, <3>5, <4>3
          <5>2. j - i + 1 <= Burst + (A[j] - A[i])
            BY <3>0, <3>5, <5>1
          <5> QED BY <3>1, <5>1, <5>2
        <4> QED BY <4>1, <4>2, <4>3
      <3>6. Rate(b)'
        BY <2>2, <3>1, <3>5 DEF Rate
      <3> QED BY <3>4, <3>6
    <2> QED BY <2>4, <2>5, <2>6 DEF RateInv
  <1> QED BY <1>2, <1>3 DEF Arrive

\* In any stretch of time an address gets in at most a bucket full and what that
\* time earns, for any bucket size, however many addresses come and whenever
\* their buckets are made (ratelimit.go:19-54).
THEOREM RateIsLimited == Spec => []RateHolds
  <1>1. Init => RateInv
    <2> SUFFICES ASSUME Init PROVE RateInv
      OBVIOUS
    <2>1. \A a \in Addresses : admitted[a] = <<>> /\ DOMAIN admitted[a] = {}
      BY DEF Init
    <2> QED BY <2>1, EmptyMap DEF Init, RateInv, LimiterType, Bucket, Rate
  <1>2. RateInv /\ [Next]_vars => RateInv'
    <2> SUFFICES ASSUME RateInv, [Next]_vars PROVE RateInv'
      OBVIOUS
    <2>1. CASE UNCHANGED limiter
      BY <2>1 DEF limiter, RateInv, LimiterType, Bucket, Rate, GetLimiter
    <2> QED BY <2>1, OthersLeaveLimiter, RateTick, RateArrive
  <1>3. RateInv => RateHolds
    BY DEF RateInv, Rate, RateHolds
  <1> QED BY <1>1, <1>2, <1>3, PTL DEF Spec

-----------------------------------------------------------------------------
(* The access log: types *)

FlusherState == [pc : {"starting", "waiting", "holding"}, from : Nat,
                 line : Requests \cup {NoRequest}, today : Nat]
Line == [line : Requests, day : Nat, whole : BOOLEAN]

LogType ==
    /\ pc \in [Requests -> {"new", "refused", "serving", "making", "sending", "done"}]
    /\ day \in Nat /\ since \in [Requests -> Nat]
    /\ channels \in Seq(Seq(Requests)) /\ flushers \in Seq(FlusherState)
    /\ file \in {"none", "open", "closed"} /\ date \in Nat /\ log \in Seq(Line)
    /\ fate \in [Requests -> {"none", "full", "unopened", "unwritten", "closed"}]

\* Each channel has its goroutine, which reads from a channel that exists and
\* has a line in hand exactly while it holds one; whoever sends finds a channel.
Wired ==
    /\ Len(flushers) = Len(channels)
    /\ \A f \in DOMAIN flushers :
          /\ flushers[f].pc # "starting" => flushers[f].from \in DOMAIN channels
          /\ flushers[f].pc = "holding" <=> flushers[f].line \in Requests
    /\ \A r \in Requests : pc[r] \in {"sending", "done"} => Len(channels) > 0

LogInv == LogType /\ Wired

LEMMA SeqFacts ==
  ASSUME NEW S, NEW q \in Seq(S)
  PROVE  /\ Len(q) \in Nat /\ DOMAIN q = 1 .. Len(q) /\ \A i \in DOMAIN q : q[i] \in S
         /\ q # <<>> <=> Len(q) > 0
  BY EmptySeq, LenProperties

LEMMA LogInit == Init => LogInv
  <1> SUFFICES ASSUME Init PROVE LogInv
    OBVIOUS
  <1>1. channels = <<>> /\ flushers = <<>> /\ DOMAIN flushers = {} /\ Len(flushers) = Len(channels)
    BY DEF Init
  <1>2. LogType
    BY EmptySeq DEF Init, LogType
  <1> QED BY <1>1, <1>2 DEF Init, LogInv, Wired

\* A goroutine changes state; nothing else about who reads what does.
LEMMA FlusherMoves ==
  ASSUME LogInv, NEW f \in DOMAIN flushers, NEW g \in FlusherState,
         flushers' = [flushers EXCEPT ![f] = g],
         g.pc # "starting" => g.from \in DOMAIN channels,
         g.pc = "holding" <=> g.line \in Requests,
         channels' \in Seq(Seq(Requests)), Len(channels') = Len(channels), pc' = pc
  PROVE  flushers' \in Seq(FlusherState) /\ Wired'
  <1>1. channels \in Seq(Seq(Requests)) /\ flushers \in Seq(FlusherState) /\ Wired
    BY DEF LogInv, LogType
  <1>2. DOMAIN flushers = 1 .. Len(flushers) /\ DOMAIN channels = 1 .. Len(channels)
        /\ DOMAIN channels' = 1 .. Len(channels')
    BY <1>1, SeqFacts
  <1>3. /\ flushers' \in Seq(FlusherState) /\ Len(flushers') = Len(flushers)
        /\ \A h \in DOMAIN flushers : flushers'[h] = IF h = f THEN g ELSE flushers[h]
    BY <1>1, <1>2, ExceptSeq
  <1>4. DOMAIN flushers' = DOMAIN flushers
    BY <1>2, <1>3, SeqFacts
  <1> QED BY <1>1, <1>2, <1>3, <1>4 DEF Wired

\* What the goroutine has after one of its steps.
LEMMA FlusherStates ==
  ASSUME LogInv, NEW f \in DOMAIN flushers
  PROVE  /\ [flushers[f] EXCEPT !.pc = "waiting", !.from = Len(channels)] \in FlusherState
         /\ \A n \in Nat, r \in Requests :
              [flushers[f] EXCEPT !.pc = "holding", !.today = n, !.line = r] \in FlusherState
         /\ [flushers[f] EXCEPT !.pc = "waiting", !.today = 0, !.line = NoRequest] \in FlusherState
  <1>1. flushers[f] \in FlusherState /\ Len(channels) \in Nat
    BY SeqFacts DEF LogInv, LogType
  <1> QED BY <1>1 DEF FlusherState

LEMMA HoldsLine ==
  ASSUME LogInv, NEW f \in DOMAIN flushers, flushers[f].pc = "holding"
  PROVE  flushers[f].line \in Requests /\ flushers[f].today \in Nat
  <1>1. flushers[f] \in FlusherState
    BY SeqFacts DEF LogInv, LogType
  <1> QED BY <1>1 DEF LogInv, Wired, FlusherState

LEMMA LineWritten ==
  ASSUME LogInv, NEW f \in DOMAIN flushers, flushers[f].pc = "holding", GoTo(f, "waiting")
  PROVE  /\ flushers' \in Seq(FlusherState) /\ Wired'
         /\ UNCHANGED <<pc, day, since, channels>>
  <1> DEFINE g == [flushers[f] EXCEPT !.pc = "waiting", !.today = 0, !.line = NoRequest]
  <1>1. g \in FlusherState
    BY FlusherStates
  <1>2. UNCHANGED <<pc, day, since, channels>> /\ flushers' = [flushers EXCEPT ![f] = g]
    BY DEF GoTo
  <1>3. flushers[f] \in FlusherState /\ channels \in Seq(Seq(Requests))
    BY SeqFacts DEF LogInv, LogType
  <1>4. g.pc = "waiting" /\ g.from = flushers[f].from /\ g.line = NoRequest
    BY <1>3 DEF FlusherState
  <1> HIDE DEF g
  <1>5. NoRequest \notin Requests
    BY MiddlewareAssumption
  <1>6. g.from \in DOMAIN channels
    BY <1>4 DEF LogInv, Wired
  <1> QED BY <1>1, <1>2, <1>3, <1>4, <1>5, <1>6, FlusherMoves

\* A line received from a channel.
LEMMA Received ==
  ASSUME LogInv, NEW f \in DOMAIN flushers, Take(f)
  PROVE  LET c == flushers[f].from
         IN  /\ c \in DOMAIN channels /\ channels[c] \in Seq(Requests) /\ channels[c] # <<>>
             /\ Head(channels[c]) \in Requests
             /\ channels' = [channels EXCEPT ![c] = Tail(channels[c])]
             /\ channels' \in Seq(Seq(Requests)) /\ Len(channels') = Len(channels)
  <1> DEFINE c == flushers[f].from
  <1>1. flushers[f].pc = "waiting" /\ channels[c] # <<>>
        /\ channels' = [channels EXCEPT ![c] = Tail(channels[c])]
    BY DEF Take
  <1>2. c \in DOMAIN channels
    BY <1>1 DEF LogInv, Wired
  <1>3. channels \in Seq(Seq(Requests))
    BY DEF LogInv, LogType
  <1> HIDE DEF c
  <1>4. c \in 1 .. Len(channels) /\ channels[c] \in Seq(Requests)
    BY <1>2, <1>3, SeqFacts
  <1>5. Head(channels[c]) \in Requests /\ Tail(channels[c]) \in Seq(Requests)
    BY <1>1, <1>4, HeadTailProperties
  <1>6. channels' \in Seq(Seq(Requests)) /\ Len(channels') = Len(channels)
    BY <1>1, <1>3, <1>4, <1>5, ExceptSeq
  <1> QED BY <1>1, <1>2, <1>4, <1>5, <1>6 DEF c

LEMMA LogRequest ==
  ASSUME LogInv, NEW r \in Requests, Request(r)
  PROVE  LogInv'
  <1>0. LogType /\ Wired /\ channels \in Seq(Seq(Requests)) /\ flushers \in Seq(FlusherState)
    BY DEF LogInv, LogType
  <1>1. ASSUME NEW a \in Addresses, NEW url \in Urls, Arrive(r, a, url) PROVE LogInv'
    <2>1. \/ pc' = [pc EXCEPT ![r] = "refused"] \/ pc' = [pc EXCEPT ![r] = "serving"]
      BY <1>1 DEF Arrive, Move
    <2>2. since' \in [Requests -> Nat]
      BY <1>0, <1>1 DEF Arrive, LogType
    <2> QED BY <1>0, <1>1, <2>1, <2>2 DEF Arrive, LogInv, LogType, Wired, writer
  <1>2. CASE Serve(r)
    <2>1. \/ channels = <<>> /\ pc' = [pc EXCEPT ![r] = "making"]
          \/ Len(channels) > 0 /\ pc' = [pc EXCEPT ![r] = "sending"]
      BY <1>0, <1>2, SeqFacts DEF Serve, Move
    <2> QED BY <1>0, <1>2, <2>1 DEF Serve, LogInv, LogType, Wired, writer
  <1>3. CASE MakeChannel(r)
    <2> DEFINE g == [pc |-> "starting", from |-> 0, line |-> NoRequest, today |-> 0]
    <2>1. /\ channels' = Append(channels, <<>>) /\ flushers' = Append(flushers, g)
          /\ pc' = [pc EXCEPT ![r] = "sending"] /\ UNCHANGED <<day, since, file, date, log, fate>>
      BY <1>3 DEF MakeChannel, Move, writer
    <2>2. g \in FlusherState /\ <<>> \in Seq(Requests) /\ g.pc = "starting" /\ g.line \notin Requests
      BY MiddlewareAssumption, EmptySeq DEF FlusherState
    <2> HIDE DEF g
    <2>3. /\ channels' \in Seq(Seq(Requests)) /\ Len(channels') = Len(channels) + 1
          /\ flushers' \in Seq(FlusherState) /\ Len(flushers') = Len(flushers) + 1
          /\ flushers'[Len(flushers) + 1] = g
          /\ \A f \in 1 .. Len(flushers) : flushers'[f] = flushers[f]
      BY <1>0, <2>1, <2>2, AppendProperties
    <2>4. /\ DOMAIN flushers' = 1 .. Len(flushers) + 1 /\ DOMAIN channels' = 1 .. Len(channels) + 1
          /\ DOMAIN flushers = 1 .. Len(flushers) /\ DOMAIN channels = 1 .. Len(channels)
          /\ Len(flushers) \in Nat /\ Len(channels) \in Nat
      BY <1>0, <2>3, SeqFacts
    <2>5. ASSUME NEW f \in DOMAIN flushers'
          PROVE  /\ flushers'[f].pc # "starting" => flushers'[f].from \in DOMAIN channels'
                 /\ flushers'[f].pc = "holding" <=> flushers'[f].line \in Requests
      <3>1. CASE f = Len(flushers) + 1
        BY <2>2, <2>3, <3>1
      <3>2. CASE f # Len(flushers) + 1
        <4>1. f \in DOMAIN flushers /\ flushers'[f] = flushers[f]
          BY <2>3, <2>4, <3>2
        <4>2. DOMAIN channels \subseteq DOMAIN channels'
          BY <2>4
        <4> QED BY <1>0, <4>1, <4>2 DEF Wired
      <3> QED BY <3>1, <3>2
    <2>6. LogType'
      BY <1>0, <2>1, <2>3 DEF LogType
    <2>7. Len(flushers') = Len(channels') /\ Len(channels') > 0
      BY <1>0, <2>3, <2>4 DEF Wired
    <2> QED BY <2>5, <2>6, <2>7 DEF LogInv, Wired
  <1>4. CASE Send(r)
    <2>0. pc[r] = "sending" /\ pc' = [pc EXCEPT ![r] = "done"]
          /\ UNCHANGED <<day, since, flushers, file, date, log>>
      BY <1>4 DEF Send, Move, writer
    <2>1. Len(channels) > 0
      BY <1>0, <2>0 DEF Wired
    <2>2. channels' \in Seq(Seq(Requests)) /\ Len(channels') = Len(channels)
      <3>1. Len(channels) \in DOMAIN channels /\ Len(channels) \in 1 .. Len(channels)
        BY <1>0, <2>1, SeqFacts
      <3>2. Append(channels[Len(channels)], r) \in Seq(Requests)
        BY <1>0, <3>1, SeqFacts, AppendProperties
      <3>3. CASE channels' = [channels EXCEPT ![Len(channels)] = Append(channels[Len(channels)], r)]
        BY <1>0, <3>1, <3>2, <3>3, ExceptSeq
      <3> QED BY <1>0, <1>4, <3>3 DEF Send
    <2>3. fate' \in [Requests -> {"none", "full", "unopened", "unwritten", "closed"}]
      BY <1>0, <1>4 DEF Send, LogType
    <2>4. LogType'
      BY <1>0, <2>0, <2>2, <2>3 DEF LogType
    <2>5. DOMAIN channels' = DOMAIN channels
      BY <1>0, <2>2, SeqFacts
    <2> QED BY <1>0, <2>0, <2>1, <2>2, <2>4, <2>5 DEF LogInv, Wired
  <1> QED BY <1>1, <1>2, <1>3, <1>4 DEF Request

LEMMA LogFlusher ==
  ASSUME LogInv, NEW f \in DOMAIN flushers, Flusher(f)
  PROVE  LogInv'
  <1>0. LogType /\ Wired /\ channels \in Seq(Seq(Requests)) /\ flushers \in Seq(FlusherState)
        /\ flushers[f] \in FlusherState
    BY SeqFacts DEF LogInv, LogType
  <1>1. CASE StartFlusher(f)
    <2> DEFINE g == [flushers[f] EXCEPT !.pc = "waiting", !.from = Len(channels)]
    <2>1. flushers' = [flushers EXCEPT ![f] = g] /\ flushers[f].pc = "starting"
          /\ UNCHANGED <<pc, day, since, channels, file, date, log, fate>>
      BY <1>1 DEF StartFlusher, writer
    <2>2. g \in FlusherState
      BY FlusherStates
    <2>3. g.pc = "waiting" /\ g.from = Len(channels) /\ g.line = flushers[f].line
      BY <1>0 DEF FlusherState
    <2> HIDE DEF g
    <2>4. g.from \in DOMAIN channels
      <3>1. f \in 1 .. Len(flushers) /\ Len(flushers) = Len(channels) /\ Len(channels) \in Nat
            /\ DOMAIN channels = 1 .. Len(channels)
        BY <1>0, SeqFacts DEF Wired
      <3> QED BY <2>3, <3>1
    <2>5. g.line \notin Requests
      BY <1>0, <2>1, <2>3 DEF Wired
    <2>6. flushers' \in Seq(FlusherState) /\ Wired'
      BY <1>0, <2>1, <2>2, <2>3, <2>4, <2>5, FlusherMoves
    <2> QED BY <1>0, <2>1, <2>6 DEF LogInv, LogType
  <1>2. CASE Take(f)
    <2> DEFINE c == flushers[f].from
               g == [flushers[f] EXCEPT !.pc = "holding", !.today = day, !.line = Head(channels[c])]
    <2>1. flushers' = [flushers EXCEPT ![f] = g] /\ flushers[f].pc = "waiting"
          /\ UNCHANGED <<pc, day, since, file, date, log, fate>>
      BY <1>2 DEF Take, writer
    <2>2. c \in DOMAIN channels /\ Head(channels[c]) \in Requests
          /\ channels' \in Seq(Seq(Requests)) /\ Len(channels') = Len(channels)
      BY <1>2, Received
    <2>3. g \in FlusherState
      BY <1>0, <2>2, FlusherStates DEF LogType
    <2>4. g.pc = "holding" /\ g.from = c /\ g.line = Head(channels[c])
      BY <1>0 DEF FlusherState
    <2> HIDE DEF g
    <2>5. flushers' \in Seq(FlusherState) /\ Wired'
      BY <2>1, <2>2, <2>3, <2>4, FlusherMoves
    <2> QED BY <1>0, <2>1, <2>2, <2>5 DEF LogInv, LogType
  <1>3. CASE OpenFails(f) \/ OpenSucceeds(f) \/ WriteLine(f) \/ WriteFails(f)
    <2>1. flushers[f].pc = "holding" /\ GoTo(f, "waiting")
      BY <1>3 DEF OpenFails, OpenSucceeds, WriteLine, WriteFails, Rolls
    <2>2. flushers[f].line \in Requests /\ flushers[f].today \in Nat
      BY <2>1, HoldsLine
    <2>3. file' \in {"none", "open", "closed"} /\ date' \in Nat
          /\ fate' \in [Requests -> {"none", "full", "unopened", "unwritten", "closed"}]
      BY <1>0, <1>3, <2>2 DEF LogType, OpenFails, OpenSucceeds, WriteLine, WriteFails, Lose
    <2>4. log' \in Seq(Line)
      <3>1. log' = log \/ \E whole \in BOOLEAN : Enter(f, whole)
        BY <1>3 DEF OpenFails, OpenSucceeds, WriteLine, WriteFails
      <3>2. log \in Seq(Line)
        BY <1>0 DEF LogType
      <3>3. ASSUME NEW whole \in BOOLEAN, Enter(f, whole) PROVE log' \in Seq(Line)
        <4> DEFINE e == [line |-> flushers[f].line, day |-> date', whole |-> whole]
        <4>1. e \in Line /\ log' = Append(log, e)
          BY <2>2, <2>3, <3>3 DEF Line, Enter
        <4> HIDE DEF e
        <4> QED BY <3>2, <4>1, AppendProperties
      <3> QED BY <3>1, <3>2, <3>3
    <2>5. flushers' \in Seq(FlusherState) /\ Wired' /\ UNCHANGED <<pc, day, since, channels>>
      BY <2>1, LineWritten
    <2> QED BY <1>0, <2>3, <2>4, <2>5 DEF LogInv, LogType
  <1> QED BY <1>1, <1>2, <1>3 DEF Flusher

LEMMA LogNext == LogInv /\ [Next]_vars => LogInv'
  <1> SUFFICES ASSUME LogInv, [Next]_vars PROVE LogInv'
    OBVIOUS
  <1>1. CASE Tick
    BY <1>1 DEF Tick, LogInv, LogType, Wired, writer
  <1>2. CASE NewDay
    BY <1>2 DEF NewDay, LogInv, LogType, Wired, writer
  <1>3. CASE UNCHANGED vars
    BY <1>3 DEF vars, LogInv, LogType, Wired, writer
  <1> QED BY <1>1, <1>2, <1>3, LogRequest, LogFlusher DEF Next

-----------------------------------------------------------------------------
(* The access log with one channel *)

\* Where the line of a request may be.
InFile(r)  == \E l \in DOMAIN log : log[l].line = r /\ log[l].whole
InHand(r)  == Len(channels) = 1 /\ flushers[1].line = r
InQueue(r) == Len(channels) = 1 /\ \E i \in DOMAIN channels[1] : channels[1][i] = r

\* A piece of it that was left by a failing write.
Piece(r) == \E l \in DOMAIN log : log[l].line = r /\ ~log[l].whole

\* It is in one of these places unless it is not sent yet, dropped or given up.
Tracked(r) ==
    /\ ~(InFile(r) /\ InHand(r)) /\ ~(InFile(r) /\ InQueue(r)) /\ ~(InHand(r) /\ InQueue(r))
    /\ InFile(r) \/ InHand(r) \/ InQueue(r) <=> pc[r] = "done" /\ fate[r] = "none"
    /\ fate[r] # "none" => pc[r] = "done" /\ fate[r] \in {"full", "unopened", "unwritten"}
    /\ Piece(r) => fate[r] = "unwritten"

\* And there only once.
QueueDistinct == Len(channels) = 1 =>
    \A i, j \in DOMAIN channels[1] : channels[1][i] = channels[1][j] => i = j
LogDistinct == \A k, l \in DOMAIN log : log[k].line = log[l].line => k = l

\* The file at hand is of a day gone by once it is closed, so that no line is
\* written to a closed file.
FileDated == /\ file = "none" => log = <<>>
             /\ file # "none" => date <= day
             /\ file = "closed" => date < day
HandDated ==
    LET hand == flushers[1]
    IN  (Len(channels) = 1 /\ hand.pc = "holding") =>
            /\ since[hand.line] <= hand.today /\ hand.today <= day
            /\ file # "none" => date <= hand.today
            /\ file = "closed" => date < hand.today
LogDated ==
    /\ \A k \in DOMAIN log : since[log[k].line] <= log[k].day /\ log[k].day <= date
    /\ \A k, l \in DOMAIN log : k <= l => log[k].day <= log[l].day
Dated == FileDated /\ HandDated /\ LogDated /\ \A r \in Requests : since[r] <= day

OneChannel == Len(channels) <= 1 =>
    QueueDistinct /\ LogDistinct /\ Dated /\ \A r \in Requests : Tracked(r)

LEMMA OneInit == Init => OneChannel
  <1> SUFFICES ASSUME Init PROVE OneChannel
    OBVIOUS
  <1>1. Len(channels) = 0 /\ DOMAIN log = {}
    BY DEF Init
  <1>2. \A r \in Requests : ~InFile(r) /\ ~Piece(r) /\ ~InHand(r) /\ ~InQueue(r)
    BY <1>1 DEF InFile, Piece, InHand, InQueue
  <1> QED BY <1>1, <1>2 DEF Init, OneChannel, QueueDistinct, LogDistinct, Dated, FileDated,
      HandDated, LogDated, Tracked

\* Channels are made and never given up.
LEMMA ChannelsGrow ==
  ASSUME LogInv, [Next]_vars
  PROVE  Len(channels') >= Len(channels)
  <1>0. channels \in Seq(Seq(Requests)) /\ Len(channels) \in Nat
    BY SeqFacts DEF LogInv, LogType
  <1>1. ASSUME NEW f \in DOMAIN flushers, Flusher(f) PROVE Len(channels') = Len(channels)
    <2>1. CASE Take(f)
      BY <1>1, <2>1, Received
    <2> QED BY <1>1, <2>1 DEF Flusher, StartFlusher, OpenFails, OpenSucceeds, WriteLine, WriteFails, GoTo
  <1>2. ASSUME NEW r \in Requests, Request(r) PROVE Len(channels') >= Len(channels)
    <2>1. CASE MakeChannel(r)
      <3>1. <<>> \in Seq(Requests)
        BY EmptySeq
      <3>2. Len(Append(channels, <<>>)) = Len(channels) + 1
        BY <1>0, <3>1, AppendProperties
      <3> QED BY <1>0, <2>1, <3>2 DEF MakeChannel
    <2>2. CASE Send(r)
      <3>1. channels' = channels
            \/ channels' = [channels EXCEPT ![Len(channels)] = Append(channels[Len(channels)], r)]
        BY <2>2 DEF Send
      <3>2. CASE channels' # channels
        <4>1. Len(channels) \in 1 .. Len(channels)
          BY <1>0, <2>2, SeqFacts DEF Send, LogInv, Wired
        <4>2. Append(channels[Len(channels)], r) \in Seq(Requests)
          BY <1>0, <4>1, SeqFacts, AppendProperties
        <4> QED BY <1>0, <3>1, <3>2, <4>1, <4>2, ExceptSeq
      <3> QED BY <1>0, <3>2
    <2> QED BY <1>0, <1>2, <2>1, <2>2 DEF Request, Arrive, Serve
  <1> QED BY <1>0, <1>1, <1>2 DEF Next, Tick, NewDay, vars

LEMMA LineTypes ==
  ASSUME LogInv
  PROVE  /\ date \in Nat /\ day \in Nat /\ since \in [Requests -> Nat]
         /\ \A k \in DOMAIN log : log[k].line \in Requests /\ log[k].day \in Nat
  <1>1. log \in Seq(Line) /\ date \in Nat /\ day \in Nat /\ since \in [Requests -> Nat]
    BY DEF LogInv, LogType
  <1>2. \A k \in DOMAIN log : log[k] \in Line
    BY <1>1, SeqFacts
  <1> QED BY <1>1, <1>2 DEF Line

\* Nothing happens to lines, and the day may change.
LEMMA LinesStay ==
  ASSUME LogInv, OneChannel, Len(channels) <= 1, UNCHANGED <<channels, flushers, file, date, log, fate>>,
         day' \in Nat, day' >= day, since' \in [Requests -> Nat],
         \A r \in Requests :
            /\ pc'[r] = "done" <=> pc[r] = "done"
            /\ since'[r] = since[r] \/ (pc[r] # "done" /\ since'[r] <= day)
  PROVE  OneChannel'
  <1>0. LogType /\ Wired
    BY DEF LogInv
  <1>a. date \in Nat /\ day \in Nat /\ since \in [Requests -> Nat]
        /\ \A k \in DOMAIN log : log[k].line \in Requests /\ log[k].day \in Nat
    BY LineTypes
  <1>1. \A r \in Requests : Tracked(r)
    BY DEF OneChannel
  <1>2. \A r \in Requests : /\ InFile(r)' = InFile(r) /\ Piece(r)' = Piece(r)
                            /\ InHand(r)' = InHand(r) /\ InQueue(r)' = InQueue(r)
    BY DEF InFile, Piece, InHand, InQueue
  <1>3. \A r \in Requests : Tracked(r)'
    BY <1>1, <1>2 DEF Tracked
  <1>4. QueueDistinct' /\ LogDistinct'
    BY DEF OneChannel, QueueDistinct, LogDistinct
  <1>5. \A r \in Requests : InFile(r) \/ Piece(r) \/ InHand(r) => since'[r] = since[r]
    BY <1>1 DEF Tracked
  <1>6. \A k \in DOMAIN log : since'[log[k].line] = since[log[k].line]
    BY <1>a, <1>5 DEF InFile, Piece
  <1>7. FileDated'
    BY <1>a DEF OneChannel, Dated, FileDated
  <1>8. HandDated'
    <2> SUFFICES ASSUME Len(channels) = 1, flushers[1].pc = "holding"
                 PROVE  /\ since'[flushers[1].line] <= flushers[1].today /\ flushers[1].today <= day'
                        /\ file # "none" => date <= flushers[1].today
                        /\ file = "closed" => date < flushers[1].today
      BY DEF HandDated
    <2>1. 1 \in DOMAIN flushers
      BY <1>0, SeqFacts DEF LogType, Wired
    <2>2. flushers[1].line \in Requests /\ flushers[1].today \in Nat
      BY <2>1, HoldsLine
    <2>3. since'[flushers[1].line] = since[flushers[1].line]
      BY <1>5, <2>2 DEF InHand
    <2> QED BY <1>a, <2>2, <2>3 DEF OneChannel, Dated, HandDated
  <1>9. LogDated'
    BY <1>6 DEF OneChannel, Dated, LogDated
  <1>10. ASSUME NEW r \in Requests PROVE since'[r] <= day'
    <2>1. since[r] <= day /\ since[r] \in Nat /\ since'[r] \in Nat
      BY <1>a DEF OneChannel, Dated
    <2> QED BY <1>a, <2>1
  <1> QED BY <1>3, <1>4, <1>7, <1>8, <1>9, <1>10 DEF OneChannel, Dated

\* The first channel: no line has been sent yet.
LEMMA OneMakeChannel ==
  ASSUME LogInv, OneChannel, NEW r \in Requests, MakeChannel(r), Len(channels') <= 1
  PROVE  OneChannel'
  <1> DEFINE g == [pc |-> "starting", from |-> 0, line |-> NoRequest, today |-> 0]
  <1>1. /\ channels' = Append(channels, <<>>) /\ flushers' = Append(flushers, g)
        /\ pc' = [pc EXCEPT ![r] = "sending"] /\ pc[r] = "making"
        /\ UNCHANGED <<day, since, file, date, log, fate>>
    BY DEF MakeChannel, Move, writer
  <1>2. channels \in Seq(Seq(Requests)) /\ flushers \in Seq(FlusherState) /\ Wired
        /\ pc \in [Requests -> {"new", "refused", "serving", "making", "sending", "done"}]
    BY DEF LogInv, LogType
  <1>3. g \in FlusherState /\ g.pc = "starting" /\ g.line = NoRequest
    BY DEF FlusherState
  <1> HIDE DEF g
  <1>4. Len(channels) = 0 /\ channels'[1] = <<>> /\ flushers'[1] = g
    <2>1. <<>> \in Seq(Requests)
      BY EmptySeq
    <2>2. Len(channels) \in Nat /\ Len(channels') = Len(channels) + 1
          /\ channels'[Len(channels) + 1] = <<>>
      BY <1>1, <1>2, <2>1, AppendProperties, SeqFacts
    <2>3. flushers'[Len(flushers) + 1] = g
      BY <1>1, <1>2, <1>3, AppendProperties
    <2> QED BY <1>2, <2>2, <2>3 DEF Wired
  <1>5. ASSUME NEW q \in Requests
        PROVE  /\ pc[q] # "done" /\ pc'[q] # "done"
               /\ ~InFile(q) /\ ~InHand(q)' /\ ~InQueue(q)'
               /\ InFile(q)' = InFile(q) /\ Piece(q)' = Piece(q)
    <2>1. pc[q] # "done"
      BY <1>2, <1>4 DEF Wired
    <2>2. ~InFile(q)
      BY <1>4, <2>1 DEF OneChannel, Tracked
    <2>3. ~InHand(q)'
      BY <1>3, <1>4, MiddlewareAssumption DEF InHand
    <2>4. ~InQueue(q)'
      BY <1>4 DEF InQueue
    <2> QED BY <1>1, <1>2, <2>1, <2>2, <2>3, <2>4 DEF InFile, Piece
  <1>6. \A q \in Requests : Tracked(q)'
    BY <1>1, <1>4, <1>5 DEF OneChannel, Tracked
  <1>7. QueueDistinct' /\ LogDistinct' /\ HandDated'
    BY <1>1, <1>3, <1>4 DEF OneChannel, QueueDistinct, LogDistinct, HandDated
  <1>8. FileDated' /\ LogDated' /\ \A q \in Requests : since'[q] <= day'
    BY <1>1, <1>4 DEF OneChannel, Dated, FileDated, LogDated
  <1> QED BY <1>6, <1>7, <1>8 DEF OneChannel, Dated

LEMMA OneSend ==
  ASSUME LogInv, OneChannel, NEW r \in Requests, Send(r), Len(channels) <= 1
  PROVE  OneChannel'
  <1>0. /\ pc[r] = "sending" /\ pc' = [pc EXCEPT ![r] = "done"]
        /\ UNCHANGED <<day, since, flushers, file, date, log>>
    BY DEF Send, Move, writer
  <1>1. /\ channels \in Seq(Seq(Requests)) /\ Wired
        /\ pc \in [Requests -> {"new", "refused", "serving", "making", "sending", "done"}]
        /\ fate \in [Requests -> {"none", "full", "unopened", "unwritten", "closed"}]
    BY DEF LogInv, LogType
  <1>2. Len(channels) = 1 /\ 1 \in DOMAIN channels /\ channels[1] \in Seq(Requests)
    BY <1>0, <1>1, SeqFacts DEF Wired
  <1>3. Dated' /\ LogDistinct'
    BY <1>0, <1>2 DEF OneChannel, Dated, FileDated, HandDated, LogDated, LogDistinct, Send
  <1>4. /\ \A q \in Requests : Tracked(q)
        /\ ~InFile(r) /\ ~InHand(r) /\ ~InQueue(r) /\ fate[r] = "none"
    BY <1>0, <1>2 DEF OneChannel, Tracked
  <1>5. \A q \in Requests : /\ InFile(q)' = InFile(q) /\ Piece(q)' = Piece(q)
                            /\ pc'[q] = "done" <=> q = r \/ pc[q] = "done"
    BY <1>0, <1>1 DEF InFile, Piece
  <1>6. CASE channels' = channels /\ fate' = [fate EXCEPT ![r] = "full"]
    <2>1. \A q \in Requests : InHand(q)' = InHand(q) /\ InQueue(q)' = InQueue(q)
                               /\ fate'[q] = IF q = r THEN "full" ELSE fate[q]
      BY <1>0, <1>1, <1>6 DEF InHand, InQueue
    <2>2. \A q \in Requests : Tracked(q)'
      BY <1>4, <1>5, <2>1 DEF Tracked
    <2> QED BY <1>2, <1>3, <1>6, <2>2 DEF OneChannel, QueueDistinct
  <1>7. CASE channels' = [channels EXCEPT ![1] = Append(channels[1], r)] /\ fate' = fate
    <2> DEFINE Q == channels[1]
    <2>1. /\ Len(channels') = 1 /\ channels'[1] = Append(Q, r)
      <3>1. Append(Q, r) \in Seq(Requests)
        BY <1>2, AppendProperties
      <3> QED BY <1>1, <1>2, <1>7, <3>1, ExceptSeq
    <2>2. /\ DOMAIN Append(Q, r) = 1 .. Len(Q) + 1 /\ Append(Q, r)[Len(Q) + 1] = r
          /\ \A i \in 1 .. Len(Q) : Append(Q, r)[i] = Q[i]
          /\ DOMAIN Q = 1 .. Len(Q) /\ Len(Q) \in Nat
      <3>1. Append(Q, r) \in Seq(Requests) /\ Len(Append(Q, r)) = Len(Q) + 1
        BY <1>2, AppendProperties
      <3> QED BY <1>2, <3>1, AppendProperties, SeqFacts
    <2>3. \A i \in DOMAIN Q : Q[i] # r
      BY <1>2, <1>4 DEF InQueue
    <2>4. \A i, j \in DOMAIN Q : Q[i] = Q[j] => i = j
      BY <1>2 DEF OneChannel, QueueDistinct
    <2>5. \A q \in Requests : (\E i \in DOMAIN Q : Q[i] = q) <=> InQueue(q)
      BY <1>2 DEF InQueue
    <2> HIDE DEF Q
    <2>6. \A i, j \in 1 .. Len(Q) + 1 : Append(Q, r)[i] = Append(Q, r)[j] => i = j
      BY <2>2, <2>3, <2>4
    <2>7. QueueDistinct'
      BY <2>1, <2>2, <2>6 DEF QueueDistinct
    <2>8. ASSUME NEW q \in Requests
          PROVE  /\ InQueue(q)' <=> InQueue(q) \/ q = r
                 /\ InHand(q)' <=> InHand(q)
      <3>1. (\E i \in 1 .. Len(Q) + 1 : Append(Q, r)[i] = q) <=> (\E i \in DOMAIN Q : Q[i] = q) \/ q = r
        BY <2>2
      <3> QED BY <1>0, <1>2, <2>1, <2>2, <2>5, <3>1 DEF InQueue, InHand
    <2>9. \A q \in Requests : Tracked(q)'
      BY <1>4, <1>5, <1>7, <2>8 DEF Tracked
    <2> QED BY <1>3, <2>1, <2>7, <2>9 DEF OneChannel
  <1> QED BY <1>2, <1>6, <1>7 DEF Send

\* With one channel there is one goroutine, which reads from it.
LEMMA OneFlusher ==
  ASSUME LogInv, Len(channels) <= 1, NEW f \in DOMAIN flushers
  PROVE  /\ f = 1 /\ Len(channels) = 1 /\ flushers \in Seq(FlusherState)
         /\ flushers[1].pc # "starting" => flushers[1].from = 1
         /\ channels[1] \in Seq(Requests)
         /\ \A g \in FlusherState : [flushers EXCEPT ![1] = g][1] = g
  <1>1. /\ flushers \in Seq(FlusherState) /\ channels \in Seq(Seq(Requests)) /\ Wired
        /\ Len(flushers) = Len(channels)
    BY DEF LogInv, LogType, Wired
  <1>2. DOMAIN flushers = 1 .. Len(flushers) /\ DOMAIN channels = 1 .. Len(channels)
        /\ Len(channels) \in Nat
    BY <1>1, SeqFacts
  <1>3. f = 1 /\ Len(channels) = 1 /\ 1 \in DOMAIN flushers /\ 1 \in DOMAIN channels
    BY <1>1, <1>2
  <1>4. flushers[1].pc # "starting" => flushers[1].from = 1
    BY <1>1, <1>2, <1>3 DEF Wired
  <1>5. channels[1] \in Seq(Requests)
    BY <1>1, <1>3, SeqFacts
  <1> QED BY <1>1, <1>3, <1>4, <1>5

LEMMA OneStartFlusher ==
  ASSUME LogInv, OneChannel, Len(channels) <= 1, NEW f \in DOMAIN flushers, StartFlusher(f)
  PROVE  OneChannel'
  <1> DEFINE g == [flushers[1] EXCEPT !.pc = "waiting", !.from = Len(channels)]
  <1>1. /\ f = 1 /\ Len(channels) = 1 /\ flushers[1] \in FlusherState /\ g \in FlusherState
        /\ \A h \in FlusherState : [flushers EXCEPT ![1] = h][1] = h
    BY OneFlusher, FlusherStates, SeqFacts
  <1>2. g.pc = "waiting" /\ g.line = flushers[1].line
    BY <1>1 DEF FlusherState
  <1>3. flushers' = [flushers EXCEPT ![1] = g]
        /\ UNCHANGED <<pc, day, since, channels, file, date, log, fate>>
    BY <1>1 DEF StartFlusher, writer
  <1> HIDE DEF g
  <1>4. flushers'[1] = g
    BY <1>1, <1>3
  <1>5. \A r \in Requests : /\ InFile(r)' = InFile(r) /\ Piece(r)' = Piece(r)
                            /\ InHand(r)' = InHand(r) /\ InQueue(r)' = InQueue(r)
    BY <1>2, <1>3, <1>4 DEF InFile, Piece, InHand, InQueue
  <1>6. \A r \in Requests : Tracked(r)'
    BY <1>1, <1>3, <1>5 DEF OneChannel, Tracked
  <1> QED BY <1>1, <1>2, <1>3, <1>4, <1>6 DEF OneChannel, QueueDistinct, LogDistinct, Dated,
      FileDated, HandDated, LogDated

LEMMA OneTake ==
  ASSUME LogInv, OneChannel, Len(channels) <= 1, NEW f \in DOMAIN flushers, Take(f)
  PROVE  OneChannel'
  <1> DEFINE Q == channels[1]
             g == [flushers[1] EXCEPT !.pc = "holding", !.today = day, !.line = Head(Q)]
  <1>1. /\ f = 1 /\ Len(channels) = 1 /\ flushers[1] \in FlusherState
        /\ flushers[1].pc = "waiting" /\ flushers[1].from = 1
        /\ \A h \in FlusherState : [flushers EXCEPT ![1] = h][1] = h
    <2>1. f = 1 /\ Len(channels) = 1 /\ \A h \in FlusherState : [flushers EXCEPT ![1] = h][1] = h
      BY OneFlusher
    <2>2. flushers[1].pc = "waiting"
      BY <2>1 DEF Take
    <2> QED BY <2>1, <2>2, OneFlusher, SeqFacts
  <1>2. /\ Q \in Seq(Requests) /\ Q # <<>> /\ Head(Q) \in Requests
        /\ channels' = [channels EXCEPT ![1] = Tail(Q)] /\ Len(channels') = 1
    BY <1>1, Received
  <1>3. g \in FlusherState /\ g.pc = "holding" /\ g.line = Head(Q) /\ g.today = day
    <2>1. day \in Nat
      BY DEF LogInv, LogType
    <2> QED BY <1>1, <1>2, <2>1, FlusherStates DEF FlusherState
  <1>4. flushers' = [flushers EXCEPT ![1] = g] /\ UNCHANGED <<pc, day, since, file, date, log, fate>>
    BY <1>1 DEF Take, writer
  <1>5. channels'[1] = Tail(Q)
    <2>1. 1 \in DOMAIN channels
      BY <1>1, SeqFacts DEF LogInv, LogType
    <2> QED BY <1>2, <2>1
  <1>6. flushers[1].line \notin Requests
    BY <1>1 DEF LogInv, Wired
  <1>7. /\ \A i, j \in DOMAIN Q : Q[i] = Q[j] => i = j
        /\ \A r \in Requests : InQueue(r) <=> \E i \in DOMAIN Q : Q[i] = r
    BY <1>1 DEF OneChannel, QueueDistinct, InQueue
  <1> HIDE DEF Q, g
  <1>8. flushers'[1] = g
    BY <1>1, <1>3, <1>4
  <1>9. /\ DOMAIN Q = 1 .. Len(Q) /\ Len(Q) \in Nat /\ Len(Q) >= 1 /\ Head(Q) = Q[1]
        /\ DOMAIN Tail(Q) = 1 .. Len(Q) - 1 /\ \A i \in 1 .. Len(Q) - 1 : Tail(Q)[i] = Q[i + 1]
    <2>1. Tail(Q) \in Seq(Requests) /\ Len(Tail(Q)) = Len(Q) - 1
      BY <1>2, HeadTailProperties
    <2>2. \A i \in 1 .. Len(Tail(Q)) : Tail(Q)[i] = Q[i + 1]
      BY <1>2, HeadTailProperties
    <2> QED BY <1>2, <2>1, <2>2, SeqFacts
  <1>10. \A i, j \in DOMAIN Tail(Q) : Tail(Q)[i] = Tail(Q)[j] => i = j
    BY <1>7, <1>9
  <1>11. ASSUME NEW r \in Requests
         PROVE  (\E i \in DOMAIN Tail(Q) : Tail(Q)[i] = r) <=> InQueue(r) /\ r # Head(Q)
    <2>1. ASSUME NEW i \in DOMAIN Tail(Q), Tail(Q)[i] = r PROVE InQueue(r) /\ r # Head(Q)
      <3>1. i + 1 \in DOMAIN Q /\ 1 \in DOMAIN Q /\ Q[i + 1] = r /\ i + 1 # 1
        BY <1>9, <2>1
      <3> QED BY <1>7, <1>9, <3>1
    <2>2. ASSUME InQueue(r), r # Head(Q) PROVE \E i \in DOMAIN Tail(Q) : Tail(Q)[i] = r
      <3>1. PICK i \in DOMAIN Q : Q[i] = r
        BY <1>7, <2>2
      <3>2. i - 1 \in DOMAIN Tail(Q) /\ Tail(Q)[i - 1] = Q[i]
        <4>1. i \in 2 .. Len(Q)
          BY <1>9, <2>2, <3>1
        <4>2. i - 1 \in 1 .. Len(Q) - 1 /\ (i - 1) + 1 = i
          BY <1>9, <4>1
        <4> QED BY <1>9, <4>2
      <3> QED BY <3>1, <3>2
    <2> QED BY <2>1, <2>2
  <1>12. InQueue(Head(Q))
    BY <1>2, <1>7, <1>9
  <1>13. ASSUME NEW r \in Requests PROVE Tracked(r)'
    <2>1. Tracked(r) /\ ~InHand(r)
      BY <1>1, <1>6 DEF OneChannel, InHand
    <2>2. /\ InFile(r)' = InFile(r) /\ Piece(r)' = Piece(r)
          /\ InHand(r)' <=> r = Head(Q)
          /\ InQueue(r)' <=> InQueue(r) /\ r # Head(Q)
      BY <1>2, <1>3, <1>4, <1>5, <1>8, <1>11 DEF InFile, Piece, InHand, InQueue
    <2> QED BY <1>4, <1>12, <2>1, <2>2 DEF Tracked
  <1>14. QueueDistinct' /\ LogDistinct'
    BY <1>1, <1>4, <1>5, <1>10 DEF OneChannel, QueueDistinct, LogDistinct
  <1>15. HandDated'
    <2>1. since[Head(Q)] <= day /\ day <= day
          /\ (file # "none" => date <= day) /\ (file = "closed" => date < day)
      BY <1>1, <1>2, LineTypes DEF OneChannel, Dated, FileDated
    <2>2. flushers'[1].line = Head(Q) /\ flushers'[1].today = day
      BY <1>3, <1>8
    <2> QED BY <1>4, <2>1, <2>2 DEF HandDated
  <1>16. FileDated' /\ LogDated' /\ \A r \in Requests : since'[r] <= day'
    BY <1>1, <1>4 DEF OneChannel, Dated, FileDated, LogDated
  <1> QED BY <1>13, <1>14, <1>15, <1>16 DEF OneChannel, Dated

\* A goroutine is done with the line it holds, which is then in a file or lost.
LEMMA OneWritten ==
  ASSUME LogInv, OneChannel, Len(channels) <= 1, NEW f \in DOMAIN flushers,
         flushers[f].pc = "holding", GoTo(f, "waiting")
  PROVE  /\ f = 1 /\ Len(channels) = 1 /\ flushers[1].line \in Requests
         /\ UNCHANGED <<pc, day, since, channels>>
         /\ flushers'[1].pc = "waiting" /\ InHand(flushers[1].line)
         /\ \A r \in Requests : /\ ~InHand(r)' /\ InQueue(r)' = InQueue(r)
                                /\ InHand(r) <=> r = flushers[1].line
         /\ QueueDistinct' /\ HandDated'
  <1> DEFINE g == [flushers[1] EXCEPT !.pc = "waiting", !.today = 0, !.line = NoRequest]
  <1>1. f = 1 /\ Len(channels) = 1 /\ \A h \in FlusherState : [flushers EXCEPT ![1] = h][1] = h
    BY OneFlusher
  <1>2. flushers[1].line \in Requests /\ g \in FlusherState
    BY <1>1, HoldsLine, FlusherStates
  <1>3. g.pc = "waiting" /\ g.line = NoRequest
    <2>1. flushers[1] \in FlusherState
      BY <1>1, SeqFacts DEF LogInv, LogType
    <2> QED BY <2>1 DEF FlusherState
  <1>4. flushers' = [flushers EXCEPT ![1] = g] /\ UNCHANGED <<pc, day, since, channels>>
    BY <1>1 DEF GoTo
  <1> HIDE DEF g
  <1>5. flushers'[1] = g
    BY <1>1, <1>2, <1>4
  <1>6. \A r \in Requests : ~InHand(r)' /\ InQueue(r)' = InQueue(r) /\ (InHand(r) <=> r = flushers[1].line)
    BY <1>1, <1>3, <1>4, <1>5, MiddlewareAssumption DEF InHand, InQueue
  <1>7. QueueDistinct'
    BY <1>1, <1>4 DEF OneChannel, QueueDistinct
  <1>8. HandDated'
    BY <1>3, <1>5 DEF HandDated
  <1> QED BY <1>1, <1>2, <1>3, <1>4, <1>5, <1>6, <1>7, <1>8

\* The dates around a line in hand.
LEMMA HandDates ==
  ASSUME LogInv, OneChannel, Len(channels) = 1, NEW f \in DOMAIN flushers, flushers[f].pc = "holding"
  PROVE  /\ f = 1 /\ flushers[1].today \in Nat /\ date \in Nat /\ day \in Nat
         /\ since[flushers[1].line] \in Nat
         /\ since[flushers[1].line] <= flushers[1].today /\ flushers[1].today <= day
         /\ file # "none" => date <= flushers[1].today
         /\ file = "closed" => date < flushers[1].today
         /\ file = "none" => log = <<>>
  <1>1. f = 1
    BY OneFlusher
  <1>2. flushers[1].line \in Requests /\ flushers[1].today \in Nat
    BY <1>1, HoldsLine
  <1> QED BY <1>1, <1>2, LineTypes DEF OneChannel, Dated, HandDated, FileDated

\* The line in hand is lost, and the files are as they were.
LEMMA OneLost ==
  ASSUME LogInv, OneChannel, Len(channels) <= 1, NEW f \in DOMAIN flushers,
         flushers[f].pc = "holding", GoTo(f, "waiting"), log' = log,
         NEW why \in {"unopened", "unwritten"}, Lose(f, why), FileDated', LogDated'
  PROVE  OneChannel'
  <1> DEFINE r == flushers[1].line
  <1>1. /\ f = 1 /\ Len(channels) = 1 /\ r \in Requests /\ UNCHANGED <<pc, day, since, channels>>
        /\ InHand(r) /\ QueueDistinct' /\ HandDated'
        /\ \A q \in Requests : ~InHand(q)' /\ InQueue(q)' = InQueue(q) /\ (InHand(q) <=> q = r)
    BY OneWritten
  <1>2. LogDistinct' /\ \A q \in Requests : since'[q] <= day'
    BY <1>1 DEF OneChannel, LogDistinct, Dated
  <1>3. \A q \in Requests : fate'[q] = IF q = r THEN why ELSE fate[q]
    BY <1>1 DEF Lose, LogInv, LogType
  <1>4. ASSUME NEW q \in Requests PROVE Tracked(q)'
    <2>1. Tracked(q) /\ Tracked(r)
      BY <1>1 DEF OneChannel
    <2>2. /\ InFile(q)' = InFile(q) /\ Piece(q)' = Piece(q)
          /\ InQueue(q)' = InQueue(q) /\ ~InHand(q)'
          /\ InHand(q) <=> q = r
          /\ pc' = pc /\ fate'[q] = IF q = r THEN why ELSE fate[q]
      BY <1>1, <1>3 DEF InFile, Piece
    <2> HIDE DEF r
    <2> QED BY <1>1, <2>1, <2>2 DEF Tracked
  <1> QED BY <1>1, <1>2, <1>4 DEF OneChannel, Dated

\* The line is given up with a warning.
LEMMA OneOpenFails ==
  ASSUME LogInv, OneChannel, Len(channels) <= 1, NEW f \in DOMAIN flushers, OpenFails(f)
  PROVE  OneChannel'
  <1>1. flushers[f].pc = "holding" /\ GoTo(f, "waiting") /\ Lose(f, "unopened")
        /\ (file = "none" \/ date # flushers[f].today)
        /\ file' = (IF file = "none" THEN "none" ELSE "closed") /\ log' = log /\ date' = date
    BY DEF OpenFails, Rolls
  <1>2. f = 1 /\ Len(channels) = 1 /\ UNCHANGED <<day, since>>
    BY <1>1, OneFlusher DEF GoTo
  <1>3. /\ flushers[1].today \in Nat /\ date \in Nat /\ day \in Nat /\ flushers[1].today <= day
        /\ file # "none" => date <= flushers[1].today
        /\ file = "none" => log = <<>>
    BY <1>1, <1>2, HandDates
  <1>4. FileDated'
    BY <1>1, <1>2, <1>3 DEF FileDated
  <1>5. LogDated'
    BY <1>1, <1>2 DEF OneChannel, Dated, LogDated
  <1> QED BY <1>1, <1>4, <1>5, OneLost

\* The line is in the file, which is today's when the line was received, or
\* only a piece of it.
LEMMA OneEntered ==
  ASSUME LogInv, OneChannel, Len(channels) <= 1, NEW f \in DOMAIN flushers,
         flushers[f].pc = "holding", GoTo(f, "waiting"),
         NEW whole \in BOOLEAN, Enter(f, whole),
         file' = "open", date' = flushers[f].today,
         IF whole THEN fate' = fate ELSE Lose(f, "unwritten")
  PROVE  OneChannel'
  <1> DEFINE r == flushers[1].line
             t == flushers[1].today
             e == [line |-> r, day |-> t, whole |-> whole]
  <1>1. /\ f = 1 /\ Len(channels) = 1 /\ r \in Requests /\ UNCHANGED <<pc, day, since, channels>>
        /\ InHand(r) /\ QueueDistinct' /\ HandDated'
        /\ \A q \in Requests : ~InHand(q)' /\ InQueue(q)' = InQueue(q) /\ (InHand(q) <=> q = r)
    BY OneWritten
  <1>2. /\ t \in Nat /\ date \in Nat /\ day \in Nat /\ since[r] \in Nat
        /\ since[r] <= t /\ t <= day
        /\ file # "none" => date <= t
        /\ file = "none" => log = <<>>
    BY <1>1, HandDates
  <1>3. log' = Append(log, e) /\ date' = t
    BY <1>1 DEF Enter
  <1>4. e.line = r /\ e.day = t /\ e.whole = whole /\ e \in Line
    BY <1>1, <1>2 DEF Line
  <1>5. /\ Len(log) \in Nat /\ DOMAIN log = 1 .. Len(log) /\ DOMAIN log' = 1 .. Len(log) + 1
        /\ log'[Len(log) + 1] = e /\ \A k \in 1 .. Len(log) : log'[k] = log[k]
    <2>1. log \in Seq(Line)
      BY DEF LogInv, LogType
    <2>2. log' \in Seq(Line) /\ Len(log') = Len(log) + 1
      BY <1>3, <1>4, <2>1, AppendProperties
    <2> HIDE DEF e
    <2> QED BY <1>3, <1>4, <2>1, <2>2, AppendProperties, SeqFacts
  <1>6. \A k \in 1 .. Len(log) : log[k].line # r
    BY <1>1, <1>5 DEF OneChannel, Tracked, InFile, Piece
  <1>7. \A k \in 1 .. Len(log) : log[k].day \in Nat /\ log[k].day <= t
    <2>1. CASE file = "none"
      BY <1>2, <1>5, <2>1
    <2>2. CASE file # "none"
      BY <1>1, <1>2, <1>5, <2>2, LineTypes DEF OneChannel, Dated, LogDated
    <2> QED BY <2>1, <2>2
  <1> HIDE DEF e, r, t
  <1>8. LogDistinct'
    BY <1>1, <1>4, <1>5, <1>6 DEF OneChannel, LogDistinct
  <1>9. LogDated'
    <2>1. ASSUME NEW k \in DOMAIN log' PROVE since'[log'[k].line] <= log'[k].day /\ log'[k].day <= t
      <3>1. CASE k = Len(log) + 1
        BY <1>1, <1>2, <1>4, <1>5, <3>1
      <3>2. CASE k # Len(log) + 1
        <4>1. k \in 1 .. Len(log)
          BY <1>5, <3>2
        <4> QED BY <1>1, <1>5, <1>7, <4>1 DEF OneChannel, Dated, LogDated
      <3> QED BY <3>1, <3>2
    <2>2. ASSUME NEW k \in DOMAIN log', NEW l \in DOMAIN log', k <= l PROVE log'[k].day <= log'[l].day
      <3>1. CASE l = Len(log) + 1
        BY <1>2, <1>4, <1>5, <2>1, <3>1
      <3>2. CASE l # Len(log) + 1
        <4>1. k \in 1 .. Len(log) /\ l \in 1 .. Len(log)
          BY <1>5, <2>2, <3>2
        <4> QED BY <1>1, <1>5, <2>2, <4>1 DEF OneChannel, Dated, LogDated
      <3> QED BY <3>1, <3>2
    <2> QED BY <1>3, <2>1, <2>2 DEF LogDated
  <1>10. FileDated' /\ \A q \in Requests : since'[q] <= day'
    BY <1>1, <1>2, <1>3 DEF OneChannel, Dated, FileDated
  <1>11. ASSUME NEW q \in Requests PROVE Tracked(q)'
    <2>1. Tracked(q) /\ Tracked(r)
      BY <1>1 DEF OneChannel
    <2>2. /\ InFile(q)' <=> InFile(q) \/ (q = r /\ whole)
          /\ Piece(q)' <=> Piece(q) \/ (q = r /\ ~whole)
      BY <1>4, <1>5 DEF InFile, Piece
    <2>3. InQueue(q)' = InQueue(q) /\ ~InHand(q)' /\ (InHand(q) <=> q = r) /\ pc' = pc
      BY <1>1
    <2>4. fate'[q] = IF q = r /\ ~whole THEN "unwritten" ELSE fate[q]
      BY <1>1 DEF Lose, LogInv, LogType, r
    <2> QED BY <1>1, <2>1, <2>2, <2>3, <2>4 DEF Tracked
  <1> QED BY <1>1, <1>8, <1>9, <1>10, <1>11 DEF OneChannel, Dated

\* A line is never written to a closed file.
LEMMA OneWriteLine ==
  ASSUME LogInv, OneChannel, Len(channels) <= 1, NEW f \in DOMAIN flushers,
         OpenSucceeds(f) \/ WriteLine(f)
  PROVE  OneChannel'
  <1>1. flushers[f].pc = "holding" /\ GoTo(f, "waiting")
    BY DEF OpenSucceeds, WriteLine, Rolls
  <1>2. CASE OpenSucceeds(f)
    BY <1>1, <1>2, OneEntered DEF OpenSucceeds
  <1>3. CASE WriteLine(f)
    <2>1. file # "none" /\ date = flushers[f].today /\ file' = file /\ date' = date
      BY <1>1, <1>3 DEF WriteLine, Rolls
    <2>2. Len(channels) = 1
      BY OneFlusher
    <2>3. file # "closed"
      <3>1. f = 1 /\ date \in Nat /\ (file = "closed" => date < flushers[1].today)
        BY <1>1, <2>2, HandDates
      <3> QED BY <2>1, <3>1
    <2>4. file = "open"
      BY <2>1, <2>3 DEF LogInv, LogType
    <2>5. Enter(f, TRUE) /\ fate' = fate
      BY <1>3, <2>4 DEF WriteLine
    <2> QED BY <1>1, <2>1, <2>4, <2>5, OneEntered
  <1> QED BY <1>2, <1>3

\* A write that fails leaves a piece of the line or nothing, in today's file.
LEMMA OneWriteFails ==
  ASSUME LogInv, OneChannel, Len(channels) <= 1, NEW f \in DOMAIN flushers, WriteFails(f)
  PROVE  OneChannel'
  <1>1. /\ flushers[f].pc = "holding" /\ GoTo(f, "waiting") /\ Lose(f, "unwritten")
        /\ file' = "open" /\ date' = flushers[f].today /\ (Enter(f, FALSE) \/ log' = log)
    BY DEF WriteFails
  <1>2. CASE Enter(f, FALSE)
    BY <1>1, <1>2, OneEntered
  <1>3. CASE log' = log
    <2>1. f = 1 /\ Len(channels) = 1 /\ UNCHANGED <<day, since>>
      BY <1>1, OneFlusher DEF GoTo
    <2>2. /\ flushers[1].today \in Nat /\ date \in Nat /\ day \in Nat /\ flushers[1].today <= day
          /\ file # "none" => date <= flushers[1].today
          /\ file = "none" => log = <<>>
      BY <1>1, <2>1, HandDates
    <2>3. FileDated'
      BY <1>1, <2>1, <2>2 DEF FileDated
    <2>4. LogDated'
      <3>1. \A k \in DOMAIN log : log[k].day \in Nat /\ log[k].day <= flushers[1].today
        <4>1. CASE file = "none"
          BY <2>2, <4>1
        <4>2. CASE file # "none"
          BY <2>1, <2>2, <4>2, LineTypes DEF OneChannel, Dated, LogDated
        <4> QED BY <4>1, <4>2
      <3> QED BY <1>1, <1>3, <2>1, <3>1 DEF OneChannel, Dated, LogDated
    <2> QED BY <1>1, <1>3, <2>3, <2>4, OneLost
  <1> QED BY <1>1, <1>2, <1>3

LEMMA OneNext == LogInv /\ OneChannel /\ [Next]_vars => OneChannel'
  <1> SUFFICES ASSUME LogInv, OneChannel, [Next]_vars, Len(channels') <= 1 PROVE OneChannel'
    BY DEF OneChannel
  <1>1. Len(channels) <= 1
    <2>1. Len(channels) \in Nat /\ Len(channels') \in Nat
      BY LogNext, SeqFacts DEF LogInv, LogType
    <2> QED BY <2>1, ChannelsGrow
  <1>2. day \in Nat /\ since \in [Requests -> Nat] /\ since' \in [Requests -> Nat]
        /\ pc \in [Requests -> {"new", "refused", "serving", "making", "sending", "done"}]
    BY LogNext DEF LogInv, LogType
  <1>3. CASE Tick \/ NewDay \/ UNCHANGED vars
    <2>1. /\ UNCHANGED <<channels, flushers, file, date, log, fate>>
          /\ day' \in Nat /\ day' >= day /\ pc' = pc /\ since' = since
      BY <1>2, <1>3 DEF Tick, NewDay, vars, writer
    <2> QED BY <1>1, <1>2, <2>1, LinesStay
  <1>4. ASSUME NEW r \in Requests, Request(r) PROVE OneChannel'
    <2>1. CASE \E a \in Addresses, url \in Urls : Arrive(r, a, url)
      <3>1. /\ UNCHANGED <<channels, flushers, file, date, log, fate>> /\ day' = day
            /\ pc[r] = "new" /\ \A q \in Requests : pc'[q] = "done" <=> pc[q] = "done"
        BY <1>2, <2>1 DEF Arrive, Move, writer
      <3>2. \A q \in Requests : since'[q] = since[q] \/ (pc[q] # "done" /\ since'[q] <= day)
        BY <1>2, <2>1, <3>1 DEF Arrive
      <3> QED BY <1>1, <1>2, <3>1, <3>2, LinesStay
    <2>2. CASE Serve(r)
      <3>1. /\ UNCHANGED <<channels, flushers, file, date, log, fate>> /\ day' = day /\ since' = since
            /\ \A q \in Requests : pc'[q] = "done" <=> pc[q] = "done"
        BY <1>2, <2>2 DEF Serve, Move, writer
      <3> QED BY <1>1, <1>2, <3>1, LinesStay
    <2> QED BY <1>1, <1>4, <2>1, <2>2, OneMakeChannel, OneSend DEF Request
  <1>5. ASSUME NEW f \in DOMAIN flushers, Flusher(f) PROVE OneChannel'
    BY <1>1, <1>5, OneStartFlusher, OneTake, OneOpenFails, OneWriteLine, OneWriteFails DEF Flusher
  <1> QED BY <1>3, <1>4, <1>5 DEF Next

\* One line is lost for each failure.
Counted == Len(channels) <= 1 =>
    IsFiniteSet(LostToFaults) /\ Cardinality(LostToFaults) = faults

LEMMA CountedNext == LogInv /\ OneChannel /\ Counted /\ [Next]_vars => Counted'
  <1> SUFFICES ASSUME LogInv, OneChannel, Counted, [Next]_vars, Len(channels') <= 1
               PROVE  IsFiniteSet(LostToFaults)' /\ Cardinality(LostToFaults)' = faults'
    BY DEF Counted
  <1>1. Len(channels) <= 1
    <2>1. Len(channels) \in Nat /\ Len(channels') \in Nat
      BY LogNext, SeqFacts DEF LogInv, LogType
    <2> QED BY <2>1, ChannelsGrow
  <1>2. /\ IsFiniteSet(LostToFaults) /\ Cardinality(LostToFaults) = faults
        /\ DOMAIN fate = Requests
    BY <1>1 DEF Counted, LogInv, LogType
  <1>3. CASE LostToFaults' = LostToFaults /\ faults' = faults
    BY <1>2, <1>3
  <1>4. CASE fate' = fate /\ faults' = faults
    BY <1>3, <1>4 DEF LostToFaults
  <1>5. ASSUME NEW r \in Requests, Request(r) PROVE LostToFaults' = LostToFaults /\ faults' = faults
    <2>1. fate' = fate \/ (pc[r] = "sending" /\ fate' = [fate EXCEPT ![r] = "full"])
      BY <1>5 DEF Request, Arrive, Serve, MakeChannel, Send
    <2>2. pc[r] = "sending" => fate[r] = "none"
      BY <1>1 DEF OneChannel, Tracked
    <2>3. faults' = faults
      BY <1>5 DEF Request, Arrive, Serve, MakeChannel, Send, writer
    <2> QED BY <1>2, <2>1, <2>2, <2>3 DEF LostToFaults
  <1>6. ASSUME NEW f \in DOMAIN flushers, Flusher(f)
        PROVE  IsFiniteSet(LostToFaults)' /\ Cardinality(LostToFaults)' = faults'
    <2> DEFINE r == flushers[f].line
    <2>1. CASE StartFlusher(f) \/ Take(f) \/ OpenSucceeds(f)
      BY <1>4, <2>1 DEF StartFlusher, Take, OpenSucceeds, writer
    <2>2. CASE flushers[f].pc = "holding"
      <3>1. r \in Requests /\ fate[r] = "none"
        <4>1. f = 1 /\ Len(channels) = 1 /\ r \in Requests
          BY <1>1, <2>2, OneFlusher, HoldsLine
        <4> QED BY <1>1, <4>1 DEF OneChannel, Tracked, InHand
      <3>2. CASE WriteLine(f)
        <4>1. faults' = faults /\ (fate' = fate \/ fate' = [fate EXCEPT ![r] = "closed"])
          BY <3>2 DEF WriteLine, Lose
        <4> QED BY <1>2, <1>3, <3>1, <4>1 DEF LostToFaults
      <3>3. CASE OpenFails(f) \/ WriteFails(f)
        <4>1. faults' = faults + 1 /\ \E why \in {"unopened", "unwritten"} : fate' = [fate EXCEPT ![r] = why]
          BY <3>3 DEF OpenFails, WriteFails, Lose
        <4>2. LostToFaults' = LostToFaults \cup {r} /\ r \notin LostToFaults
          BY <1>2, <3>1, <4>1 DEF LostToFaults
        <4> HIDE DEF r
        <4>3. IsFiniteSet(LostToFaults \cup {r})
              /\ Cardinality(LostToFaults \cup {r}) = Cardinality(LostToFaults) + 1
          BY <1>2, <4>2, FS_AddElement
        <4> QED BY <1>2, <4>1, <4>2, <4>3
      <3> QED BY <1>6, <2>1, <3>2, <3>3 DEF Flusher
    <2> QED BY <1>6, <2>1, <2>2 DEF Flusher, OpenFails, WriteLine, WriteFails, Rolls
  <1>7. CASE Tick \/ NewDay \/ UNCHANGED vars
    BY <1>4, <1>7 DEF Tick, NewDay, vars, writer
  <1> QED BY <1>3, <1>5, <1>6, <1>7 DEF Next

LEMMA CountedInit == Init => Counted
  <1> SUFFICES ASSUME Init PROVE Counted
    OBVIOUS
  <1>1. LostToFaults = {} /\ faults = 0
    BY DEF Init, LostToFaults
  <1> QED BY <1>1, FS_EmptySet DEF Counted

LEMMA AtMostOne ==
  ASSUME NEW S, \A x, y \in S : x = y
  PROVE  Cardinality(S) = IF S = {} THEN 0 ELSE 1
  <1>1. CASE S = {}
    BY <1>1, FS_EmptySet
  <1>2. CASE S # {}
    <2>1. PICK x \in S : S = {x}
      BY <1>2
    <2> QED BY <1>2, <2>1, FS_Singleton
  <1> QED BY <1>1, <1>2

\* With one channel, a line is in each place at most once.
LEMMA PlacesCounted ==
  ASSUME LogInv, OneChannel, Len(channels) <= 1, NEW r \in Requests
  PROVE  /\ (Logged(r) # {} <=> InFile(r)) /\ (Held(r) # {} <=> InHand(r))
         /\ (Waiting(r) # {} <=> InQueue(r))
         /\ Cardinality(Logged(r)) = IF InFile(r) THEN 1 ELSE 0
         /\ Cardinality(Held(r)) = IF InHand(r) THEN 1 ELSE 0
         /\ Cardinality(Waiting(r)) = IF InQueue(r) THEN 1 ELSE 0
  <1>1. /\ channels \in Seq(Seq(Requests)) /\ flushers \in Seq(FlusherState)
        /\ Len(flushers) = Len(channels)
    BY DEF LogInv, LogType, Wired
  <1>2. /\ DOMAIN channels = 1 .. Len(channels) /\ DOMAIN flushers = 1 .. Len(channels)
        /\ Len(channels) \in Nat
    BY <1>1, SeqFacts
  <1>3. \/ Len(channels) = 1 /\ DOMAIN channels = {1} /\ DOMAIN flushers = {1}
        \/ Len(channels) # 1 /\ DOMAIN channels = {} /\ DOMAIN flushers = {}
    BY <1>2
  <1>4. Logged(r) # {} <=> InFile(r)
    BY DEF Logged, InFile
  <1>5. Held(r) # {} <=> InHand(r)
    BY <1>3 DEF Held, InHand
  <1>6. Waiting(r) # {} <=> InQueue(r)
    <2>1. CASE Len(channels) = 1
      <3>1. r \in ToSet(channels[1]) <=> InQueue(r)
        BY <2>1 DEF ToSet, InQueue
      <3> QED BY <1>3, <2>1, <3>1 DEF Waiting
    <2>2. CASE Len(channels) # 1
      BY <1>3, <2>2 DEF Waiting, InQueue
    <2> QED BY <2>1, <2>2
  <1>7. /\ \A x, y \in Logged(r) : x = y
        /\ \A x, y \in Held(r) : x = y
        /\ \A x, y \in Waiting(r) : x = y
    BY <1>3 DEF Logged, Held, Waiting, OneChannel, LogDistinct
  <1>8. Cardinality(Logged(r)) = IF Logged(r) = {} THEN 0 ELSE 1
    BY <1>7, AtMostOne
  <1>9. Cardinality(Held(r)) = IF Held(r) = {} THEN 0 ELSE 1
    BY <1>7, AtMostOne
  <1>10. Cardinality(Waiting(r)) = IF Waiting(r) = {} THEN 0 ELSE 1
    BY <1>7, AtMostOne
  <1> QED BY <1>4, <1>5, <1>6, <1>8, <1>9, <1>10

\* Unless several first requests raced for the channel, every line sent is
\* waiting, in hand or in a file, whole and once, or was dropped at a full
\* channel, or was lost to a file that could not be opened or written, one line
\* for each such failure, and no file has a line older than it or out of order;
\* for any number of requests, days, failures and any capacity
\* (accesslog.go:79-122).
THEOREM OnlyRacesAndFaultsLose == Spec => []OnlyRacesAndFaultsLoseLines
  <1>1. Init => LogInv /\ OneChannel /\ Counted
    BY LogInit, OneInit, CountedInit
  <1>2. LogInv /\ OneChannel /\ Counted /\ [Next]_vars => LogInv' /\ OneChannel' /\ Counted'
    BY LogNext, OneNext, CountedNext
  <1>3. LogInv /\ OneChannel /\ Counted => OnlyRacesAndFaultsLoseLines
    <2> SUFFICES ASSUME LogInv, OneChannel, Counted, Len(channels) <= 1
                 PROVE  OnlyRacesAndFaultsLoseLines
      BY DEF OnlyRacesAndFaultsLoseLines
    <2>0. Cardinality(LostToFaults) = faults
      BY DEF Counted
    <2>1. ASSUME NEW r \in Requests, pc[r] = "done", fate[r] \in {"full", "unopened", "unwritten"}
          PROVE  Logged(r) \cup Held(r) \cup Waiting(r) = {}
      <3>1. ~InFile(r) /\ ~InHand(r) /\ ~InQueue(r)
        BY <2>1 DEF OneChannel, Tracked
      <3>2. Logged(r) = {} /\ Held(r) = {} /\ Waiting(r) = {}
        BY <3>1, PlacesCounted
      <3> QED BY <3>2
    <2>2. ASSUME NEW r \in Requests, pc[r] = "done", fate[r] \notin {"full", "unopened", "unwritten"}
          PROVE  /\ fate[r] = "none"
                 /\ Cardinality(Logged(r)) + Cardinality(Held(r)) + Cardinality(Waiting(r)) = 1
      <3>1. /\ fate[r] = "none" /\ (InFile(r) \/ InHand(r) \/ InQueue(r))
            /\ ~(InFile(r) /\ InHand(r)) /\ ~(InFile(r) /\ InQueue(r)) /\ ~(InHand(r) /\ InQueue(r))
        BY <2>2 DEF OneChannel, Tracked
      <3>2. /\ Cardinality(Logged(r)) = IF InFile(r) THEN 1 ELSE 0
            /\ Cardinality(Held(r)) = IF InHand(r) THEN 1 ELSE 0
            /\ Cardinality(Waiting(r)) = IF InQueue(r) THEN 1 ELSE 0
        BY PlacesCounted
      <3> QED BY <3>1, <3>2
    <2>3. \A k, l \in DOMAIN log : /\ since[log[k].line] <= log[k].day
                                   /\ k <= l => log[k].day <= log[l].day
      BY DEF OneChannel, Dated, LogDated
    <2> QED BY <2>0, <2>1, <2>2, <2>3 DEF OnlyRacesAndFaultsLoseLines
  <1> QED BY <1>1, <1>2, <1>3, PTL DEF Spec
=============================================================================
