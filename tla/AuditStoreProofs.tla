-------------------------- MODULE AuditStoreProofs --------------------------
(***************************************************************************)
(* Theorems about AuditStore, for any events, capacities, failures and     *)
(* number of restarts.                                                     *)
(***************************************************************************)
EXTENDS AuditStore, FiniteSetTheorems, SequenceTheorems, TLAPS

-----------------------------------------------------------------------------
(* Maps keep the types of their keys and values. *)

LEMMA EmptyMap == \A K, V : MapOf(Empty, K, V)
  BY DEF Empty, MapOf

LEMMA PutMap ==
  ASSUME NEW K, NEW V, NEW m, MapOf(m, K, V), NEW k \in K, NEW v \in V
  PROVE  MapOf(Put(m, k, v), K, V)
  BY DEF Put, MapOf

-----------------------------------------------------------------------------
(* Type correctness.  The place given to an event is a cardinality, so the *)
(* events reported so far must also be finitely many.                      *)

TypeInv == TypeOK /\ IsFiniteSet(DOMAIN added)

LEMMA ElemsType == ASSUME NEW S, NEW s \in Seq(S) PROVE Elems(s) \in SUBSET S
  BY DEF Elems

LEMMA LoseType ==
  ASSUME lost \in [Losses -> SUBSET Events], NEW how, NEW set \in SUBSET Events,
         Lose(how, set)
  PROVE  lost' \in [Losses -> SUBSET Events]
  BY DEF Lose

LEMMA RingedType ==
  ASSUME events \in Seq(Events), Len(events) <= RingMax, NEW e \in Events
  PROVE  Ringed(e) \in Seq(Events) /\ Len(Ringed(e)) <= RingMax
  <1> DEFINE all == Append(events, e)
  <1>1. RingMax \in Nat \ {0} /\ all \in Seq(Events) /\ Len(all) = Len(events) + 1
    BY BoundsAssumption
  <1>2. CASE Len(all) > RingMax
    <2>1. Len(all) - RingMax + 1 \in 1 .. (Len(all) + 1)
      BY <1>1, <1>2
    <2>2. SubSeq(all, Len(all) - RingMax + 1, Len(all)) \in Seq(Events)
      BY <1>1, <2>1
    <2>3. Len(SubSeq(all, Len(all) - RingMax + 1, Len(all))) = RingMax
      BY <1>1, <1>2, <2>1, SubSeqProperties
    <2> QED BY <1>1, <1>2, <2>2, <2>3 DEF Ringed, LastOf
  <1>3. CASE ~(Len(all) > RingMax)
    BY <1>1, <1>3 DEF Ringed
  <1> QED BY <1>2, <1>3

LEMMA EmptySequence ==
  <<>> \in Seq(Events) /\ Len(<<>>) = 0 /\ 0 <= RingMax /\ 0 <= ChanCap /\ 0 < BatchMax
  BY BoundsAssumption

LEMMA EnqueueType ==
  ASSUME ch \in Seq(Events), Len(ch) <= ChanCap, lost \in [Losses -> SUBSET Events],
         NEW e \in Events, Enqueue(e)
  PROVE  /\ ch' \in Seq(Events) /\ Len(ch') <= ChanCap
         /\ lost' \in [Losses -> SUBSET Events]
  <1>1. CASE Len(ch) < ChanCap
    <2>1. ch' = Append(ch, e) /\ lost' = lost
      BY <1>1 DEF Enqueue
    <2>2. Len(ch') = Len(ch) + 1 /\ ch' \in Seq(Events)
      BY <2>1
    <2> QED BY <1>1, <2>1, <2>2, BoundsAssumption
  <1>2. CASE ~(Len(ch) < ChanCap)
    BY <1>2, LoseType DEF Enqueue
  <1> QED BY <1>1, <1>2

LEMMA ReceiveType ==
  ASSUME ch \in Seq(Events), Len(ch) <= ChanCap, ch # <<>>
  PROVE  Head(ch) \in Events /\ Tail(ch) \in Seq(Events) /\ Len(Tail(ch)) <= ChanCap
  <1>1. Len(Tail(ch)) = Len(ch) - 1 /\ Tail(ch) \in Seq(Events) /\ Head(ch) \in Events
    OBVIOUS
  <1> QED BY <1>1, BoundsAssumption

LEMMA TypeInit == Init => TypeInv
  <1> SUFFICES ASSUME Init PROVE TypeInv
    OBVIOUS
  <1>1. IsFiniteSet(DOMAIN added)
    BY FS_EmptySet DEF Init, Empty
  <1>2. MapOf(rows, Nat, Events) /\ MapOf(added, Events, Nat) /\ DOMAIN rows = {}
    BY EmptyMap DEF Init, Empty
  <1>3. /\ events \in Seq(Events) /\ Len(events) <= RingMax
        /\ ch \in Seq(Events) /\ Len(ch) <= ChanCap
        /\ batch \in Seq(Events) /\ Len(batch) < BatchMax /\ Len(batch) <= BatchMax
    BY EmptySequence, BoundsAssumption DEF Init
  <1>4. lost \in [Losses -> SUBSET Events]
    BY DEF Init
  <1> QED BY <1>1, <1>2, <1>3, <1>4 DEF Init, TypeInv, TypeOK, Stages, Running

LEMMA TypeHandlers == TypeInv /\ Handlers => TypeInv'
  <1> SUFFICES ASSUME TypeInv, NEW e \in Events, Accept(e) \/ AddEvent(e)
               PROVE  TypeInv'
    BY DEF Handlers
  <1>1. CASE Accept(e)
    BY <1>1 DEF Accept, disk, TypeInv, TypeOK, Running
  <1>2. CASE AddEvent(e)
    <2> USE <1>2 DEF AddEvent, TypeInv, TypeOK
    <2>1. MapOf(added, Events, Nat)' /\ IsFiniteSet(DOMAIN added)'
      <3>1. Cardinality(DOMAIN added) + 1 \in Nat
        BY FS_CardinalityType
      <3>2. DOMAIN added' = DOMAIN added \cup {e}
        BY DEF Put
      <3>3. IsFiniteSet(DOMAIN added \cup {e})
        BY FS_AddElement
      <3> QED BY <3>1, <3>2, <3>3, PutMap
    <2>2. events' \in Seq(Events) /\ Len(events') <= RingMax
      BY RingedType
    <2>3. /\ ch' \in Seq(Events) /\ Len(ch') <= ChanCap
          /\ lost' \in [Losses -> SUBSET Events]
      BY EnqueueType
    <2> QED BY <2>1, <2>2, <2>3 DEF disk, Running
  <1> QED BY <1>1, <1>2

LEMMA TypeFlusher == TypeInv /\ Flusher => TypeInv'
  <1> SUFFICES ASSUME TypeInv, Flusher PROVE TypeInv'
    OBVIOUS
  <1> USE DEF TypeInv, TypeOK, Running, disk
  <1>1. CASE Receive
    <2>1. Head(ch) \in Events /\ ch' \in Seq(Events) /\ Len(ch') <= ChanCap
      BY <1>1, ReceiveType DEF Receive
    <2>2. batch' \in Seq(Events) /\ Len(batch') = Len(batch) + 1 /\ batch' # <<>>
      BY <1>1, <2>1 DEF Receive
    <2>3. Len(batch') <= BatchMax
      BY <1>1, <2>2, BoundsAssumption DEF Receive
    <2> QED BY <1>1, <2>1, <2>2, <2>3, BoundsAssumption DEF Receive
  <1>2. CASE Tick
    BY <1>2 DEF Tick
  <1>3. CASE Drain
    <2>1. PICK written \in SUBSET DOMAIN batch :
            /\ rows' = [i \in DOMAIN rows \cup {lastId + k : k \in written} |->
                          IF i <= lastId THEN rows[i] ELSE batch[i - lastId]]
            /\ Lose("sql", {batch[k] : k \in DOMAIN batch \ written})
      BY <1>3 DEF Drain
    <2>2. lost' \in [Losses -> SUBSET Events]
      BY <2>1, LoseType
    <2>3. lastId' \in Nat /\ lastId' = lastId + Len(batch)
      BY <1>3 DEF Drain
    <2>4. \A k \in written : k \in 1 .. Len(batch) /\ batch[k] \in Events
      OBVIOUS
    <2>5. DOMAIN rows' = DOMAIN rows \cup {lastId + k : k \in written}
      BY <2>1
    <2>6. DOMAIN rows' \subseteq Nat /\ \A i \in DOMAIN rows' : i <= lastId'
      BY <2>3, <2>4, <2>5 DEF MapOf
    <2>7. \A i \in DOMAIN rows' : rows'[i] \in Events
      <3> TAKE i \in DOMAIN rows'
      <3>1. CASE i \in DOMAIN rows
        BY <2>1, <3>1 DEF MapOf
      <3>2. CASE i \notin DOMAIN rows
        <4>1. PICK k \in written : i = lastId + k
          BY <2>5, <3>2
        <4>2. i - lastId = k /\ ~(i <= lastId)
          BY <2>4, <4>1
        <4> QED BY <2>1, <2>4, <2>5, <4>2
      <3> QED BY <3>1, <3>2
    <2>8. MapOf(rows', Nat, Events)
      BY <2>1, <2>6, <2>7 DEF MapOf
    <2> QED BY <1>3, <2>2, <2>3, <2>6, <2>8, BoundsAssumption DEF Drain, MapOf
  <1>4. CASE Return
    BY <1>4, ElemsType, LoseType, BoundsAssumption DEF Return
  <1> QED BY <1>1, <1>2, <1>3, <1>4 DEF Flusher

LEMMA TypeExit == TypeInv /\ Exit => TypeInv'
  <1> SUFFICES ASSUME TypeInv, Exit PROVE TypeInv'
    OBVIOUS
  <1>1. Elems(ch) \cup Elems(batch) \in SUBSET Events
    BY ElemsType DEF TypeInv, TypeOK
  <1>2. lost' \in [Losses -> SUBSET Events]
    BY <1>1, LoseType DEF Exit, TypeInv, TypeOK
  <1> QED BY <1>2, BoundsAssumption
             DEF Exit, TypeInv, TypeOK, Running, Stages, disk

LEMMA TypeRestart == TypeInv /\ Restart => TypeInv'
  <1> SUFFICES ASSUME TypeInv, Restart PROVE TypeInv'
    OBVIOUS
  <1>1. PICK old \in SUBSET DOMAIN rows : Purge(old)
    BY DEF Restart
  <1>2. lost' \in [Losses -> SUBSET Events]
    BY <1>1, LoseType DEF Purge, TypeInv, TypeOK, MapOf
  <1>3. MapOf(rows', Nat, Events) /\ \A i \in DOMAIN rows' : i <= lastId'
    BY <1>1 DEF Purge, TypeInv, TypeOK, MapOf
  <1>4. /\ events' \in Seq(Events) /\ Len(events') <= RingMax
        /\ ch' \in Seq(Events) /\ Len(ch') <= ChanCap
        /\ batch' \in Seq(Events) /\ Len(batch') < BatchMax /\ Len(batch') <= BatchMax
    BY EmptySequence, BoundsAssumption DEF Restart, Start
  <1>5. runs' \in Nat /\ MapOf(added, Events, Nat)' /\ IsFiniteSet(DOMAIN added)'
    BY DEF Restart, TypeInv, TypeOK
  <1>6. stage' = "serving" /\ flusher' = "select" /\ closed' = FALSE /\ inFlight' = {}
    BY DEF Restart, Start
  <1>7. lastId' \in Nat
    BY <1>1 DEF Purge, TypeInv, TypeOK
  <1> QED BY <1>2, <1>3, <1>4, <1>5, <1>6, <1>7 DEF TypeInv, TypeOK, Running, Stages

LEMMA TypeStep == TypeInv /\ [Next]_vars => TypeInv'
  <1> SUFFICES ASSUME TypeInv, [Next]_vars PROVE TypeInv'
    OBVIOUS
  <1>1. CASE Handlers
    BY <1>1, TypeHandlers
  <1>2. CASE Flusher
    BY <1>2, TypeFlusher
  <1>3. CASE Quit \/ ShutdownDone \/ Closed
    BY <1>3 DEF Quit, ShutdownDone, Closed, disk, TypeInv, TypeOK, Running, Stages
  <1>4. CASE ShutdownTimeout \/ Die
    BY <1>4, TypeExit DEF ShutdownTimeout, Die
  <1>5. CASE Restart
    BY <1>5, TypeRestart
  <1>6. CASE UNCHANGED vars
    BY <1>6 DEF vars, disk, TypeInv, TypeOK, Running
  <1> QED BY <1>1, <1>2, <1>3, <1>4, <1>5, <1>6 DEF Next, Main

\* The variables have their types in every reachable state: the ring, the
\* channel and the batch never outgrow their bounds, whatever fails.
THEOREM TypeCorrect == Spec => []TypeOK
  <1>1. Spec => []TypeInv
    BY TypeInit, TypeStep, PTL DEF Spec
  <1>2. TypeInv => TypeOK
    BY DEF TypeInv
  <1> QED BY <1>1, <1>2, PTL

-----------------------------------------------------------------------------
(* No send on a closed channel *)

\* A closed channel belongs to a main goroutine past Server.Shutdown, when no
\* handler runs and none will.
ClosedLate == closed => inFlight = {} /\ stage \notin {"serving", "shutdown"}

\* No handler can still report once Close has closed the channel, however
\* handlers, shutdowns, time-outs, deaths and restarts interleave: enqueue
\* never panics.
THEOREM NobodySendsOnClosed == Spec => []NoSendOnClosedChannel
  <1>1. Init => ClosedLate
    BY DEF Init, ClosedLate
  <1>2. ClosedLate /\ [Next]_vars => ClosedLate'
    <2> SUFFICES ASSUME ClosedLate, [Next]_vars PROVE ClosedLate'
      OBVIOUS
    <2> USE DEF ClosedLate
    <2>1. CASE Handlers
      BY <2>1 DEF Handlers, Accept, AddEvent
    <2>2. CASE Flusher
      BY <2>2 DEF Flusher, Receive, Tick, Drain, Return
    <2>3. CASE Main
      BY <2>3 DEF Main, Quit, ShutdownDone, ShutdownTimeout, Exit, Closed
    <2>4. CASE Die
      BY <2>4 DEF Die, Exit
    <2>5. CASE Restart
      BY <2>5 DEF Restart, Start
    <2>6. CASE UNCHANGED vars
      BY <2>6 DEF vars
    <2> QED BY <2>1, <2>2, <2>3, <2>4, <2>5, <2>6 DEF Next
  <1>3. ClosedLate => NoSendOnClosedChannel
    BY DEF ClosedLate, NoSendOnClosedChannel
  <1> QED BY <1>1, <1>2, <1>3, PTL DEF Spec

-----------------------------------------------------------------------------
(* Order.  The invariant takes the queue apart into batch and channel, and *)
(* adds that no place is given twice: an event that is reported next comes *)
(* after every one reported so far.                                        *)

Sorted(s)    == \A i, j \in DOMAIN s : i < j => added[s[i]] < added[s[j]]
Before(s, t) == \A i \in DOMAIN s, j \in DOMAIN t : added[s[i]] < added[t[j]]
Known(s)     == \A i \in DOMAIN s : s[i] \in DOMAIN added

Numbered == /\ \A e \in DOMAIN added : added[e] <= Cardinality(DOMAIN added)
            /\ inFlight \cap DOMAIN added = {}

InOrder == /\ Known(rows) /\ Known(batch) /\ Known(ch)
           /\ Sorted(rows) /\ Sorted(batch) /\ Sorted(ch)
           /\ Before(rows, batch) /\ Before(rows, ch) /\ Before(batch, ch)

OrderInv == TypeInv /\ Numbered /\ InOrder

LEMMA OrderInit == Init => OrderInv
  <1> SUFFICES ASSUME Init PROVE OrderInv
    OBVIOUS
  <1>1. TypeInv
    BY TypeInit
  <1>2. DOMAIN rows = {} /\ DOMAIN batch = {} /\ DOMAIN ch = {} /\ DOMAIN added = {}
    BY DEF Init, Empty
  <1>3. Numbered
    BY <1>2 DEF Numbered
  <1>4. InOrder
    BY <1>2 DEF InOrder, Known, Sorted, Before
  <1> QED BY <1>1, <1>3, <1>4 DEF OrderInv

\* A step that gives no new place and leaves each of the three holders with
\* nothing it had not before, in the order it was, preserves the order.
LEMMA OrderKept ==
  ASSUME InOrder, UNCHANGED added,
         batch' = batch \/ batch' = <<>>,
         ch' = ch \/ ch' = <<>>,
         DOMAIN rows' \subseteq DOMAIN rows,
         \A i \in DOMAIN rows' : rows'[i] = rows[i]
  PROVE  InOrder'
  <1>1. DOMAIN batch' \subseteq DOMAIN batch /\ \A i \in DOMAIN batch' : batch'[i] = batch[i]
    OBVIOUS
  <1>2. DOMAIN ch' \subseteq DOMAIN ch /\ \A i \in DOMAIN ch' : ch'[i] = ch[i]
    OBVIOUS
  <1>3. Known(rows)' /\ Known(batch)' /\ Known(ch)'
    BY <1>1, <1>2 DEF InOrder, Known
  <1>4. Sorted(rows)' /\ Sorted(batch)' /\ Sorted(ch)'
    BY <1>1, <1>2 DEF InOrder, Sorted
  <1>5. Before(rows, batch)' /\ Before(rows, ch)' /\ Before(batch, ch)'
    BY <1>1, <1>2 DEF InOrder, Before
  <1> QED BY <1>3, <1>4, <1>5 DEF InOrder

LEMMA OrderAddEvent ==
  ASSUME OrderInv, NEW e \in Events, AddEvent(e)
  PROVE  Numbered' /\ InOrder'
  <1> DEFINE n == Cardinality(DOMAIN added)
  <1>1. n \in Nat /\ IsFiniteSet(DOMAIN added) /\ e \notin DOMAIN added
    BY FS_CardinalityType DEF OrderInv, TypeInv, Numbered, AddEvent
  <1>2. DOMAIN added' = DOMAIN added \cup {e} /\ Cardinality(DOMAIN added') = n + 1
    <2>1. DOMAIN added' = DOMAIN added \cup {e}
      BY DEF AddEvent, Put
    <2> QED BY <1>1, <2>1, FS_AddElement
  <1>3. added'[e] = n + 1 /\ \A f \in DOMAIN added : added'[f] = added[f]
    BY <1>1 DEF AddEvent, Put
  <1>4. \A f \in DOMAIN added : added[f] \in Nat /\ added[f] <= n
    BY DEF OrderInv, TypeInv, TypeOK, MapOf, Numbered
  <1>5. Numbered'
    <2>1. \A f \in DOMAIN added' : added'[f] <= n + 1
      BY <1>1, <1>2, <1>3, <1>4
    <2>2. inFlight' \cap DOMAIN added' = {}
      BY <1>2 DEF AddEvent, OrderInv, Numbered
    <2> QED BY <1>2, <2>1, <2>2 DEF Numbered
  <1>6. UNCHANGED <<rows, batch>>
    BY DEF AddEvent, disk
  <1>7. ch \in Seq(Events) /\ (ch' = ch \/ ch' = Append(ch, e))
    BY DEF AddEvent, Enqueue, OrderInv, TypeInv, TypeOK
  <1>8. CASE ch' = ch
    <2>1. Known(rows)' /\ Known(batch)' /\ Known(ch)'
      BY <1>2, <1>6, <1>8 DEF OrderInv, InOrder, Known
    <2>2. Sorted(rows)' /\ Sorted(batch)' /\ Sorted(ch)'
      BY <1>3, <1>6, <1>8 DEF OrderInv, InOrder, Sorted, Known
    <2>3. Before(rows, batch)' /\ Before(rows, ch)' /\ Before(batch, ch)'
      BY <1>3, <1>6, <1>8 DEF OrderInv, InOrder, Before, Known
    <2> QED BY <1>5, <2>1, <2>2, <2>3 DEF InOrder
  <1>9. CASE ch' = Append(ch, e)
    <2>1. /\ DOMAIN ch' = DOMAIN ch \cup {Len(ch) + 1} /\ ch'[Len(ch) + 1] = e
          /\ \A i \in DOMAIN ch : i \in Nat /\ i <= Len(ch) /\ ch'[i] = ch[i]
      BY <1>7, <1>9
    <2>2. Known(rows)' /\ Known(batch)' /\ Known(ch)'
      BY <1>2, <1>6, <2>1 DEF OrderInv, InOrder, Known
    <2>3. Sorted(rows)' /\ Sorted(batch)'
      BY <1>3, <1>6 DEF OrderInv, InOrder, Sorted, Known
    <2>4. Sorted(ch)'
      <3> SUFFICES ASSUME NEW i \in DOMAIN ch', NEW j \in DOMAIN ch', i < j
                   PROVE  added'[ch'[i]] < added'[ch'[j]]
        BY DEF Sorted
      <3>1. Len(ch) \in Nat
        BY <1>7
      <3>2. i \in DOMAIN ch /\ added'[ch'[i]] = added[ch[i]] /\ ch[i] \in DOMAIN added
        BY <1>3, <2>1, <3>1 DEF OrderInv, InOrder, Known
      <3>3. CASE j \in DOMAIN ch
        BY <1>3, <2>1, <3>2, <3>3 DEF OrderInv, InOrder, Known, Sorted
      <3>4. CASE j = Len(ch) + 1
        BY <1>1, <1>3, <1>4, <2>1, <3>2, <3>4
      <3> QED BY <2>1, <3>3, <3>4
    <2>5. Before(rows, batch)'
      BY <1>3, <1>6 DEF OrderInv, InOrder, Before, Known
    <2>6. \A f \in DOMAIN added : added'[f] < added'[e]
      BY <1>1, <1>3, <1>4
    <2>7. Before(rows, ch)'
      BY <1>3, <1>6, <2>1, <2>6 DEF OrderInv, InOrder, Before, Known
    <2>8. Before(batch, ch)'
      BY <1>3, <1>6, <2>1, <2>6 DEF OrderInv, InOrder, Before, Known
    <2> QED BY <1>5, <2>2, <2>3, <2>4, <2>5, <2>7, <2>8 DEF InOrder
  <1> QED BY <1>5, <1>7, <1>8, <1>9

LEMMA OrderReceive ==
  ASSUME OrderInv, Receive
  PROVE  InOrder'
  <1>1. /\ ch \in Seq(Events) /\ ch # <<>> /\ batch \in Seq(Events)
        /\ batch' = Append(batch, Head(ch)) /\ ch' = Tail(ch)
        /\ UNCHANGED <<rows, added>>
    BY DEF Receive, OrderInv, TypeInv, TypeOK, disk
  <1>2. /\ DOMAIN batch' = DOMAIN batch \cup {Len(batch) + 1}
        /\ batch'[Len(batch) + 1] = ch[1] /\ 1 \in DOMAIN ch /\ Len(batch) \in Nat
        /\ \A i \in DOMAIN batch : i \in Nat /\ i <= Len(batch) /\ batch'[i] = batch[i]
    BY <1>1
  <1>3. \A i \in DOMAIN ch' :
          i \in Nat \ {0} /\ i + 1 \in DOMAIN ch /\ ch'[i] = ch[i + 1]
    <2>1. Len(ch') = Len(ch) - 1 /\ Len(ch) \in Nat /\ DOMAIN ch = 1 .. Len(ch)
      BY <1>1
    <2>2. DOMAIN ch' = 1 .. Len(ch')
      BY <1>1
    <2>3. \A i \in 1 .. Len(ch) - 1 : Tail(ch)[i] = ch[i + 1]
      BY <1>1
    <2> QED BY <1>1, <2>1, <2>2, <2>3
  <1>4. Known(rows)' /\ Known(batch)' /\ Known(ch)'
    BY <1>1, <1>2, <1>3 DEF OrderInv, InOrder, Known
  <1>5. Sorted(rows)' /\ Sorted(ch)'
    <2>1. Sorted(rows)'
      BY <1>1 DEF OrderInv, InOrder, Sorted
    <2>2. Sorted(ch)'
      <3> SUFFICES ASSUME NEW i \in DOMAIN ch', NEW j \in DOMAIN ch', i < j
                   PROVE  added[ch'[i]] < added[ch'[j]]
        BY <1>1 DEF Sorted
      <3>1. i + 1 \in DOMAIN ch /\ j + 1 \in DOMAIN ch /\ i + 1 < j + 1
        BY <1>3
      <3>2. added[ch[i + 1]] < added[ch[j + 1]]
        BY <3>1 DEF OrderInv, InOrder, Sorted
      <3> QED BY <1>3, <3>2
    <2> QED BY <2>1, <2>2
  <1>6. Sorted(batch)'
    <2> SUFFICES ASSUME NEW i \in DOMAIN batch', NEW j \in DOMAIN batch', i < j
                 PROVE  added[batch'[i]] < added[batch'[j]]
      BY <1>1 DEF Sorted
    <2>1. i \in DOMAIN batch
      BY <1>2
    <2>2. CASE j \in DOMAIN batch
      BY <1>2, <2>1, <2>2 DEF OrderInv, InOrder, Sorted
    <2>3. CASE j = Len(batch) + 1
      BY <1>2, <2>1, <2>3 DEF OrderInv, InOrder, Before
    <2> QED BY <1>2, <2>2, <2>3
  <1>7. Before(rows, batch)'
    BY <1>1, <1>2 DEF OrderInv, InOrder, Before
  <1>8. Before(rows, ch)'
    BY <1>1, <1>3 DEF OrderInv, InOrder, Before
  <1>9. Before(batch, ch)'
    <2> SUFFICES ASSUME NEW i \in DOMAIN batch', NEW j \in DOMAIN ch'
                 PROVE  added[batch'[i]] < added[ch'[j]]
      BY <1>1 DEF Before
    <2>1. CASE i \in DOMAIN batch
      BY <1>2, <1>3, <2>1 DEF OrderInv, InOrder, Before
    <2>2. CASE i = Len(batch) + 1
      BY <1>2, <1>3, <2>2 DEF OrderInv, InOrder, Sorted
    <2> QED BY <1>2, <2>1, <2>2
  <1> QED BY <1>4, <1>5, <1>6, <1>7, <1>8, <1>9 DEF InOrder

LEMMA OrderDrain ==
  ASSUME OrderInv, Drain
  PROVE  InOrder'
  <1>1. PICK written \in SUBSET DOMAIN batch :
          rows' = [i \in DOMAIN rows \cup {lastId + k : k \in written} |->
                     IF i <= lastId THEN rows[i] ELSE batch[i - lastId]]
    BY DEF Drain
  <1>2. batch' = <<>> /\ UNCHANGED <<ch, added>>
    BY DEF Drain
  <1>3. /\ lastId \in Nat /\ \A i \in DOMAIN rows : i \in Nat /\ i <= lastId
        /\ \A k \in DOMAIN batch : k \in Nat \ {0}
    BY DEF OrderInv, TypeInv, TypeOK, MapOf
  \* A row is an old one, or comes from the batch.
  <1>4. \A i \in DOMAIN rows' :
          \/ i \in DOMAIN rows /\ rows'[i] = rows[i]
          \/ \E k \in DOMAIN batch : i = lastId + k /\ rows'[i] = batch[k]
    <2> TAKE i \in DOMAIN rows'
    <2>1. CASE i \in DOMAIN rows
      BY <1>1, <1>3, <2>1
    <2>2. CASE i \notin DOMAIN rows
      <3>1. PICK k \in written : i = lastId + k
        BY <1>1, <2>2
      <3>2. k \in DOMAIN batch /\ i - lastId = k /\ ~(i <= lastId)
        BY <1>3, <3>1
      <3> QED BY <1>1, <3>1, <3>2
    <2> QED BY <2>1, <2>2
  <1>5. Known(rows)' /\ Known(batch)' /\ Known(ch)'
    BY <1>2, <1>4 DEF OrderInv, InOrder, Known
  <1>6. Sorted(rows)'
    <2> SUFFICES ASSUME NEW i \in DOMAIN rows', NEW j \in DOMAIN rows', i < j
                 PROVE  added[rows'[i]] < added[rows'[j]]
      BY <1>2 DEF Sorted
    <2>1. CASE i \in DOMAIN rows /\ rows'[i] = rows[i]
      <3>1. CASE j \in DOMAIN rows /\ rows'[j] = rows[j]
        BY <2>1, <3>1 DEF OrderInv, InOrder, Sorted
      <3>2. CASE \E k \in DOMAIN batch : j = lastId + k /\ rows'[j] = batch[k]
        BY <2>1, <3>2 DEF OrderInv, InOrder, Before
      <3> QED BY <1>4, <3>1, <3>2
    <2>2. CASE \E k \in DOMAIN batch : i = lastId + k /\ rows'[i] = batch[k]
      <3>1. PICK k \in DOMAIN batch : i = lastId + k /\ rows'[i] = batch[k]
        BY <2>2
      <3>2. j \notin DOMAIN rows
        BY <1>3, <3>1
      <3>3. PICK m \in DOMAIN batch : j = lastId + m /\ rows'[j] = batch[m]
        BY <1>4, <3>2
      <3>4. k < m
        BY <1>3, <3>1, <3>3
      <3> QED BY <3>1, <3>3, <3>4 DEF OrderInv, InOrder, Sorted
    <2> QED BY <1>4, <2>1, <2>2
  <1>7. Before(rows, ch)'
    BY <1>2, <1>4 DEF OrderInv, InOrder, Before
  <1>8. /\ Sorted(batch)' /\ Sorted(ch)'
        /\ Before(rows, batch)' /\ Before(batch, ch)'
    BY <1>2 DEF OrderInv, InOrder, Sorted, Before
  <1> QED BY <1>5, <1>6, <1>7, <1>8 DEF InOrder

LEMMA OrderStep == OrderInv /\ [Next]_vars => OrderInv'
  <1> SUFFICES ASSUME OrderInv, [Next]_vars PROVE OrderInv'
    OBVIOUS
  <1>1. TypeInv'
    BY TypeStep DEF OrderInv
  <1>2. ASSUME UNCHANGED added, inFlight' \subseteq inFlight PROVE Numbered'
    BY <1>2 DEF OrderInv, Numbered
  <1>3. ASSUME NEW e \in Events, AddEvent(e) PROVE OrderInv'
    BY <1>1, <1>3, OrderAddEvent DEF OrderInv
  <1>4. ASSUME NEW e \in Events, Accept(e) PROVE OrderInv'
    <2>1. Numbered'
      BY <1>4 DEF Accept, OrderInv, Numbered
    <2>2. InOrder'
      BY <1>4, OrderKept DEF Accept, disk, OrderInv
    <2> QED BY <1>1, <2>1, <2>2 DEF OrderInv
  <1>5. CASE Receive
    <2>1. Numbered'
      BY <1>2, <1>5 DEF Receive
    <2> QED BY <1>1, <1>5, <2>1, OrderReceive DEF OrderInv
  <1>6. CASE Drain
    <2>1. Numbered'
      BY <1>2, <1>6 DEF Drain
    <2> QED BY <1>1, <1>6, <2>1, OrderDrain DEF OrderInv
  <1>7. CASE Tick \/ Return \/ Main \/ Die \/ UNCHANGED vars
    <2>1. UNCHANGED <<added, rows>> /\ inFlight' \subseteq inFlight
      BY <1>7 DEF Tick, Return, Main, Quit, ShutdownDone, ShutdownTimeout, Closed,
                  Die, Exit, vars, disk
    <2>2. (batch' = batch \/ batch' = <<>>) /\ (ch' = ch \/ ch' = <<>>)
      BY <1>7 DEF Tick, Return, Main, Quit, ShutdownDone, ShutdownTimeout, Closed,
                  Die, Exit, vars
    <2>3. InOrder'
      BY <2>1, <2>2, OrderKept DEF OrderInv
    <2> QED BY <1>1, <1>2, <2>1, <2>3 DEF OrderInv
  <1>8. CASE Restart
    <2>1. UNCHANGED added /\ inFlight' = {} /\ batch' = <<>> /\ ch' = <<>>
      BY <1>8 DEF Restart, Start
    <2>2. DOMAIN rows' \subseteq DOMAIN rows /\ \A i \in DOMAIN rows' : rows'[i] = rows[i]
      BY <1>8 DEF Restart, Purge
    <2>3. InOrder'
      BY <2>1, <2>2, OrderKept DEF OrderInv
    <2> QED BY <1>1, <1>2, <2>1, <2>3 DEF OrderInv
  <1> QED BY <1>3, <1>4, <1>5, <1>6, <1>7, <1>8 DEF Next, Handlers, Flusher

LEMMA OrderGives == OrderInv => RowsFollowCalls
  <1> SUFFICES ASSUME OrderInv PROVE RowsFollowCalls
    OBVIOUS
  <1>1. batch \in Seq(Events) /\ ch \in Seq(Events)
    BY DEF OrderInv, TypeInv, TypeOK
  <1>2. \A i \in DOMAIN Queue :
          \/ i \in DOMAIN batch /\ Queue[i] = batch[i] /\ i <= Len(batch)
          \/ /\ i - Len(batch) \in DOMAIN ch /\ Queue[i] = ch[i - Len(batch)]
             /\ i > Len(batch)
    BY <1>1 DEF Queue
  <1>3. DOMAIN Queue \subseteq Nat /\ Len(batch) \in Nat
    BY <1>1 DEF Queue
  <1>4. ASSUME NEW i \in DOMAIN Queue, NEW j \in DOMAIN Queue, i < j
        PROVE  added[Queue[i]] < added[Queue[j]]
    <2>1. CASE j <= Len(batch)
      <3>1. i <= Len(batch)
        BY <1>3, <1>4, <2>1
      <3>2. i \in DOMAIN batch /\ j \in DOMAIN batch /\ Queue[i] = batch[i] /\ Queue[j] = batch[j]
        BY <1>2, <1>3, <2>1, <3>1
      <3> QED BY <1>4, <3>2 DEF OrderInv, InOrder, Sorted
    <2>2. CASE j > Len(batch)
      <3>1. j - Len(batch) \in DOMAIN ch /\ Queue[j] = ch[j - Len(batch)]
        BY <1>2, <1>3, <2>2
      <3>2. CASE i <= Len(batch)
        <4>1. i \in DOMAIN batch /\ Queue[i] = batch[i]
          BY <1>2, <1>3, <3>2
        <4> QED BY <3>1, <4>1 DEF OrderInv, InOrder, Before
      <3>3. CASE i > Len(batch)
        <4>1. i - Len(batch) \in DOMAIN ch /\ Queue[i] = ch[i - Len(batch)]
          BY <1>2, <1>3, <3>3
        <4>2. i - Len(batch) < j - Len(batch)
          BY <1>3, <1>4
        <4> QED BY <3>1, <4>1, <4>2 DEF OrderInv, InOrder, Sorted
      <3> QED BY <1>3, <3>2, <3>3
    <2> QED BY <1>3, <2>1, <2>2
  <1>5. ASSUME NEW i \in DOMAIN rows, NEW j \in DOMAIN Queue
        PROVE  added[rows[i]] < added[Queue[j]]
    BY <1>2 DEF OrderInv, InOrder, Before
  <1>6. \A i, j \in DOMAIN rows : i < j => added[rows[i]] < added[rows[j]]
    BY DEF OrderInv, InOrder, Sorted
  <1> QED BY <1>4, <1>5, <1>6 DEF RowsFollowCalls

\* Events are written in the order of the calls of AddEvent and never twice,
\* and what waits is newer than what is written: for any capacities, any
\* failures of SQLite, deaths, restarts and purges.
THEOREM EventsAreWrittenInOrder == Spec => []RowsFollowCalls
  BY OrderInit, OrderStep, OrderGives, PTL DEF Spec

-----------------------------------------------------------------------------
(* Refinement.  A process that has ended holds no events, so that starting *)
(* again changes nothing but the rows.                                     *)

Ended == /\ ClosedLate
         /\ flusher = "done" => closed /\ batch = <<>> /\ ch = <<>>
         /\ ~Running => inFlight = {} /\ batch = <<>> /\ ch = <<>>

LEMMA EndedInit == Init => Ended
  BY DEF Init, Ended, ClosedLate, Running

LEMMA EndedStep == Ended /\ [Next]_vars => Ended'
  <1> SUFFICES ASSUME Ended, [Next]_vars PROVE Ended'
    OBVIOUS
  <1> USE DEF Ended, ClosedLate, Running
  <1>1. CASE Handlers
    BY <1>1 DEF Handlers, Accept, AddEvent
  <1>2. CASE Flusher
    BY <1>2 DEF Flusher, Receive, Tick, Drain, Return
  <1>3. CASE Main
    BY <1>3 DEF Main, Quit, ShutdownDone, ShutdownTimeout, Exit, Closed
  <1>4. CASE Die
    BY <1>4 DEF Die, Exit
  <1>5. CASE Restart
    BY <1>5 DEF Restart, Start
  <1>6. CASE UNCHANGED vars
    BY <1>6 DEF vars
  <1> QED BY <1>1, <1>2, <1>3, <1>4, <1>5, <1>6 DEF Next

\* What the channel gives to the batch leaves the queue as it is.
LEMMA QueueMoves ==
  ASSUME NEW s \in Seq(Events), NEW t \in Seq(Events), t # <<>>
  PROVE  Append(s, Head(t)) \o Tail(t) = s \o t
  <1>1. /\ Head(t) \in Events /\ Head(t) = t[1]
        /\ Tail(t) \in Seq(Events) /\ Len(Tail(t)) = Len(t) - 1
        /\ \A i \in 1 .. Len(Tail(t)) : Tail(t)[i] = t[i + 1]
    BY HeadTailProperties
  <1>2. /\ Append(s, Head(t)) \in Seq(Events)
        /\ Len(Append(s, Head(t))) = Len(s) + 1
        /\ \A i \in 1 .. Len(s) : Append(s, Head(t))[i] = s[i]
        /\ Append(s, Head(t))[Len(s) + 1] = t[1]
    BY <1>1
  <1> DEFINE u == Append(s, Head(t))
             v == Tail(t)
  <1>3. /\ u \o v \in Seq(Events) /\ Len(u \o v) = Len(u) + Len(v)
        /\ \A i \in 1 .. Len(u) + Len(v) :
              (u \o v)[i] = IF i <= Len(u) THEN u[i] ELSE v[i - Len(u)]
    BY <1>1, <1>2, ConcatProperties
  <1>4. /\ s \o t \in Seq(Events) /\ Len(s \o t) = Len(s) + Len(t)
        /\ \A i \in 1 .. Len(s) + Len(t) :
              (s \o t)[i] = IF i <= Len(s) THEN s[i] ELSE t[i - Len(s)]
    BY ConcatProperties
  <1>5. Len(s) \in Nat /\ Len(t) \in Nat \ {0} /\ Len(u) = Len(s) + 1 /\ Len(v) = Len(t) - 1
    BY <1>1, <1>2
  <1>6. Len(u \o v) = Len(s \o t)
    BY <1>3, <1>4, <1>5
  <1>7. ASSUME NEW i \in 1 .. Len(u \o v) PROVE (u \o v)[i] = (s \o t)[i]
    <2>1. i \in 1 .. Len(s) + Len(t) /\ i \in 1 .. Len(u) + Len(v)
      BY <1>3, <1>5
    <2>2. CASE i <= Len(s)
      BY <1>2, <1>3, <1>4, <1>5, <2>1, <2>2
    <2>3. CASE i = Len(s) + 1
      BY <1>2, <1>3, <1>4, <1>5, <2>1, <2>3
    <2>4. CASE i > Len(s) + 1
      <3>1. i - Len(u) \in 1 .. Len(v) /\ (i - Len(u)) + 1 = i - Len(s) /\ ~(i <= Len(u)) /\ ~(i <= Len(s))
        BY <1>5, <2>1, <2>4
      <3>2. (u \o v)[i] = v[i - Len(u)] /\ (s \o t)[i] = t[i - Len(s)]
        BY <1>3, <1>4, <2>1, <3>1
      <3> QED BY <1>1, <3>1, <3>2
    <2> QED BY <1>5, <2>1, <2>2, <2>3, <2>4
  <1>8. u \o v = s \o t
    BY <1>3, <1>4, <1>6, <1>7, SeqEqual
  <1> QED BY <1>8

LEMMA QueueAppends ==
  ASSUME NEW s \in Seq(Events), NEW t \in Seq(Events), NEW e \in Events
  PROVE  s \o Append(t, e) = Append(s \o t, e)
  <1>1. s \o Append(t, e) \in Seq(Events) /\ Append(s \o t, e) \in Seq(Events)
    OBVIOUS
  <1>2. Len(s \o Append(t, e)) = Len(Append(s \o t, e))
    OBVIOUS
  <1>3. \A i \in 1 .. Len(s \o Append(t, e)) : (s \o Append(t, e))[i] = Append(s \o t, e)[i]
    OBVIOUS
  <1> QED BY <1>1, <1>2, <1>3, SeqEqual

LEMMA QueueShrinks ==
  ASSUME NEW s \in Seq(Events), NEW t \in Seq(Events)
  PROVE  SubSeq(s \o t, Len(s) + 1, Len(s \o t)) = t
  <1> DEFINE q == s \o t
  <1>1. /\ q \in Seq(Events) /\ Len(q) = Len(s) + Len(t)
        /\ Len(s) \in Nat /\ Len(t) \in Nat
        /\ \A i \in 1 .. Len(s) + Len(t) : q[i] = IF i <= Len(s) THEN s[i] ELSE t[i - Len(s)]
    BY ConcatProperties
  <1>2. \A i \in (Len(s) + 1) .. Len(q) : q[i] \in Events
    BY <1>1
  <1> DEFINE r == SubSeq(q, Len(s) + 1, Len(q))
  <1>3. /\ r \in Seq(Events)
        /\ Len(r) = IF Len(s) + 1 <= Len(q) THEN Len(q) - (Len(s) + 1) + 1 ELSE 0
        /\ \A i \in 1 .. Len(q) - (Len(s) + 1) + 1 : r[i] = q[Len(s) + 1 + i - 1]
    <2>1. Len(s) + 1 \in Int /\ Len(q) \in Int
      BY <1>1
    <2> HIDE DEF q
    <2> QED BY <1>2, <2>1, SubSeqProperties
  <1> HIDE DEF q, r
  <1>4. Len(r) = Len(t)
    BY <1>1, <1>3
  <1>5. \A i \in 1 .. Len(r) : r[i] = t[i]
    <2> TAKE i \in 1 .. Len(r)
    <2>1. r[i] = q[Len(s) + i]
      BY <1>1, <1>3, <1>4
    <2>2. Len(s) + i \in 1 .. Len(s) + Len(t) /\ ~(Len(s) + i <= Len(s)) /\ (Len(s) + i) - Len(s) = i
      BY <1>1, <1>4
    <2> QED BY <1>1, <2>1, <2>2
  <1>6. r = t
    BY <1>3, <1>4, <1>5, SeqEqual
  <1> QED BY <1>6 DEF q, r

LEMMA TrailInit == Init => Trail!TrailInit
  BY DEF Init, Trail!TrailInit, Trail!Empty, Empty, Queue

LEMMA TrailAddEvent ==
  ASSUME OrderInv, NEW e \in Events, AddEvent(e)
  PROVE  Trail!Report(e)
  <1>1. e \notin DOMAIN added /\ DOMAIN added' = DOMAIN added \cup {e}
    BY DEF AddEvent, Put, OrderInv, Numbered
  <1>2. batch \in Seq(Events) /\ ch \in Seq(Events) /\ UNCHANGED <<batch, rows, lastId>>
    BY DEF AddEvent, disk, OrderInv, TypeInv, TypeOK
  <1>3. Queue' \in {Queue, Append(Queue, e)}
    <2>1. CASE ch' = ch
      BY <1>2, <2>1 DEF Queue
    <2>2. CASE ch' = Append(ch, e)
      BY <1>2, <2>2, QueueAppends DEF Queue
    <2> QED BY <2>1, <2>2 DEF AddEvent, Enqueue
  <1> QED BY <1>1, <1>2, <1>3 DEF Trail!Report

\* A transaction takes the whole batch off the queue, whatever it writes.
LEMMA TrailDrain ==
  ASSUME TypeInv, Drain
  PROVE  Trail!TrailNext
  <1>1. PICK written \in SUBSET DOMAIN batch :
          rows' = [i \in DOMAIN rows \cup {lastId + k : k \in written} |->
                     IF i <= lastId THEN rows[i] ELSE batch[i - lastId]]
    BY DEF Drain
  <1>2. /\ batch \in Seq(Events) /\ ch \in Seq(Events) /\ batch # <<>>
        /\ batch' = <<>> /\ ch' = ch /\ lastId' = lastId + Len(batch)
        /\ UNCHANGED added
    BY DEF Drain, TypeInv, TypeOK
  <1> DEFINE n == Len(batch)
  <1>3. /\ n \in 1 .. Len(Queue) /\ written \in SUBSET (1 .. n)
        /\ \A k \in 1 .. n : Queue[k] = batch[k]
    <2>1. n \in Nat \ {0} /\ Len(ch) \in Nat /\ DOMAIN batch = 1 .. n
      BY <1>2
    <2>2. /\ Len(Queue) = n + Len(ch)
          /\ \A k \in 1 .. n + Len(ch) :
               Queue[k] = IF k <= n THEN batch[k] ELSE ch[k - n]
      BY <1>2, ConcatProperties DEF Queue
    <2> QED BY <2>1, <2>2
  <1>4. Queue' = SubSeq(Queue, n + 1, Len(Queue))
    <2>1. Queue' = ch
      BY <1>2 DEF Queue
    <2> QED BY <1>2, <2>1, QueueShrinks DEF Queue
  <1>5. rows' = [i \in DOMAIN rows \cup {lastId + k : k \in written} |->
                   IF i <= lastId THEN rows[i] ELSE Queue[i - lastId]]
    <2>1. lastId \in Nat /\ \A i \in DOMAIN rows : i <= lastId
      BY DEF TypeInv, TypeOK
    <2>2. ASSUME NEW i \in DOMAIN rows \cup {lastId + k : k \in written}, ~(i <= lastId)
          PROVE  batch[i - lastId] = Queue[i - lastId]
      <3>1. PICK k \in written : i = lastId + k
        BY <2>1, <2>2
      <3>2. k \in 1 .. n /\ i - lastId = k
        BY <1>3, <2>1, <3>1
      <3> QED BY <1>3, <3>2
    <2> QED BY <1>1, <2>2
  <1>6. Trail!Write(n, written)
    BY <1>2, <1>4, <1>5 DEF Trail!Write
  <1> QED BY <1>3, <1>6 DEF Trail!TrailNext

\* What only moves inside the process is invisible in the trail.
LEMMA TrailStutters ==
  ASSUME UNCHANGED <<added, rows, lastId>>, Queue' = Queue
  PROVE  UNCHANGED Trail!trailVars
  BY DEF Trail!trailVars

LEMMA TrailForgets ==
  ASSUME UNCHANGED <<added, rows, lastId>>, Queue' = <<>>
  PROVE  Trail!TrailNext
  BY DEF Trail!TrailNext, Trail!Forget

LEMMA TrailStep == OrderInv /\ Ended /\ [Next]_vars => [Trail!TrailNext]_Trail!trailVars
  <1> SUFFICES ASSUME OrderInv, Ended, [Next]_vars
               PROVE  Trail!TrailNext \/ UNCHANGED Trail!trailVars
    OBVIOUS
  <1>1. ASSUME NEW e \in Events, AddEvent(e) PROVE Trail!TrailNext
    BY <1>1, TrailAddEvent DEF Trail!TrailNext
  <1>2. ASSUME NEW e \in Events, Accept(e) PROVE UNCHANGED Trail!trailVars
    BY <1>2, TrailStutters DEF Accept, disk, Queue
  <1>3. CASE Receive
    <2>1. Queue' = Queue
      BY <1>3, QueueMoves DEF Receive, Queue, OrderInv, TypeInv, TypeOK
    <2> QED BY <1>3, <2>1, TrailStutters DEF Receive, disk
  <1>4. CASE Drain
    BY <1>4, TrailDrain DEF OrderInv
  <1>5. CASE Return
    <2>1. Queue' = <<>>
      BY <1>5 DEF Return, Queue
    <2> QED BY <1>5, <2>1, TrailForgets DEF Return, disk
  <1>6. CASE Tick \/ Quit \/ ShutdownDone \/ Closed \/ UNCHANGED vars
    BY <1>6, TrailStutters DEF Tick, Quit, ShutdownDone, Closed, vars, disk, Queue
  <1>7. CASE ShutdownTimeout \/ Die
    <2>1. Queue' = <<>>
      BY <1>7 DEF ShutdownTimeout, Die, Exit, Queue
    <2> QED BY <1>7, <2>1, TrailForgets DEF ShutdownTimeout, Die, Exit, disk
  <1>8. CASE Restart
    <2>1. Queue = <<>> /\ Queue' = <<>> /\ UNCHANGED <<added, lastId>>
      BY <1>8 DEF Restart, Start, Purge, Ended, Running, Queue
    <2>2. PICK old \in SUBSET DOMAIN rows : rows' = [i \in DOMAIN rows \ old |-> rows[i]]
      BY <1>8 DEF Restart, Purge
    <2>3. Trail!Expire(old)
      BY <2>1, <2>2 DEF Trail!Expire
    <2> QED BY <2>3 DEF Trail!TrailNext
  <1> QED
    BY <1>1, <1>2, <1>3, <1>4, <1>5, <1>6, <1>7, <1>8 DEF Next, Handlers, Flusher, Main

\* The store implements the abstract trail: whatever fails, dies or restarts,
\* what it writes are the oldest waiting events, once, under new row numbers.
THEOREM StoreImplementsTrail == Spec => ImplementsTrail
  <1>1. Spec => []OrderInv
    BY OrderInit, OrderStep, PTL DEF Spec
  <1>2. Spec => []Ended
    BY EndedInit, EndedStep, PTL DEF Spec
  <1> QED
    BY <1>1, <1>2, TrailInit, TrailStep, PTL DEF Spec, ImplementsTrail, Trail!TrailSpec

-----------------------------------------------------------------------------
(* Accounting.  What was reported and not lost is held: by the table, the  *)
(* batch or the channel, and, its places being different, by one of them.  *)

Held == Stored \cup Elems(batch) \cup Elems(ch)

Accounted ==
    /\ DOMAIN added = Held \cup UNION {lost[h] : h \in Losses}
    /\ \A h \in Losses : lost[h] \cap Held = {}
    /\ \A g, h \in Losses : g # h => lost[g] \cap lost[h] = {}

LEMMA HeldOnce ==
  ASSUME OrderInv
  PROVE  /\ \A i, j \in DOMAIN rows : rows[i] = rows[j] => i = j
         /\ \A i, j \in DOMAIN batch : batch[i] = batch[j] => i = j
         /\ \A i \in DOMAIN rows, j \in DOMAIN batch : rows[i] # batch[j]
         /\ \A i \in DOMAIN rows, j \in DOMAIN ch : rows[i] # ch[j]
         /\ \A i \in DOMAIN batch, j \in DOMAIN ch : batch[i] # ch[j]
  <1> DEFINE At(s, i) == added[s[i]]
  <1>1. /\ \A i \in DOMAIN rows : i \in Nat /\ At(rows, i) \in Nat
        /\ \A i \in DOMAIN batch : i \in Nat /\ At(batch, i) \in Nat
        /\ \A i \in DOMAIN ch : At(ch, i) \in Nat
    BY DEF OrderInv, TypeInv, TypeOK, MapOf, InOrder, Known
  <1>2. /\ \A i, j \in DOMAIN rows : i < j => At(rows, i) < At(rows, j)
        /\ \A i, j \in DOMAIN batch : i < j => At(batch, i) < At(batch, j)
        /\ \A i \in DOMAIN rows, j \in DOMAIN batch : At(rows, i) < At(batch, j)
        /\ \A i \in DOMAIN rows, j \in DOMAIN ch : At(rows, i) < At(ch, j)
        /\ \A i \in DOMAIN batch, j \in DOMAIN ch : At(batch, i) < At(ch, j)
    BY DEF OrderInv, InOrder, Sorted, Before
  <1>3. \A i, j \in DOMAIN rows : At(rows, i) = At(rows, j) => i = j
    BY <1>1, <1>2
  <1>4. \A i, j \in DOMAIN batch : At(batch, i) = At(batch, j) => i = j
    BY <1>1, <1>2
  <1>5. /\ \A i \in DOMAIN rows, j \in DOMAIN batch : At(rows, i) # At(batch, j)
        /\ \A i \in DOMAIN rows, j \in DOMAIN ch : At(rows, i) # At(ch, j)
        /\ \A i \in DOMAIN batch, j \in DOMAIN ch : At(batch, i) # At(ch, j)
    BY <1>1, <1>2
  <1> QED BY <1>3, <1>4, <1>5

\* A step that takes events out of what is held and writes down how.
LEMMA LosingAccounts ==
  ASSUME Accounted, lost \in [Losses -> SUBSET Events], UNCHANGED added,
         NEW how \in Losses, NEW set \in SUBSET Held,
         Held' = Held \ set, Lose(how, set)
  PROVE  Accounted'
  <1>1. /\ lost'[how] = lost[how] \cup set
        /\ \A h \in Losses \ {how} : lost'[h] = lost[h]
    BY DEF Lose
  <1> DEFINE gone     == UNION {lost[h] : h \in Losses}
             goneThen == UNION {lost'[h] : h \in Losses}
  <1>2. goneThen = gone \cup set
    <2>1. \A h \in Losses : lost'[h] \subseteq gone \cup set
      BY <1>1
    <2>2. \A h \in Losses : lost[h] \subseteq goneThen
      BY <1>1
    <2>3. set \subseteq goneThen
      BY <1>1
    <2> QED BY <2>1, <2>2, <2>3
  <1>3. \A h \in Losses : lost[h] \cap Held = {}
    BY DEF Accounted
  <1>4. \A h \in Losses : lost'[h] \cap Held' = {}
    BY <1>1, <1>3
  <1>5. ASSUME NEW g \in Losses, NEW h \in Losses, g # h
        PROVE  lost'[g] \cap lost'[h] = {}
    <2>1. lost[g] \cap lost[h] = {}
      BY <1>5 DEF Accounted
    <2>2. CASE g = how
      BY <1>1, <1>3, <1>5, <2>1, <2>2
    <2>3. CASE h = how
      BY <1>1, <1>3, <1>5, <2>1, <2>3
    <2>4. CASE g # how /\ h # how
      BY <1>1, <2>1, <2>4
    <2> QED BY <2>2, <2>3, <2>4
  <1>6. DOMAIN added' = Held' \cup goneThen
    <2>1. DOMAIN added' = Held \cup gone
      BY DEF Accounted
    <2> HIDE DEF gone, goneThen
    <2> QED BY <1>2, <2>1
  <1> QED BY <1>4, <1>5, <1>6 DEF Accounted

LEMMA KeepingAccounts ==
  ASSUME Accounted, UNCHANGED <<added, lost>>, Held' = Held
  PROVE  Accounted'
  BY DEF Accounted

LEMMA AppendElems ==
  ASSUME NEW S, NEW s \in Seq(S), NEW e \in S
  PROVE  Elems(Append(s, e)) = Elems(s) \cup {e}
  <1>1. /\ DOMAIN Append(s, e) = DOMAIN s \cup {Len(s) + 1} /\ Append(s, e)[Len(s) + 1] = e
        /\ \A i \in DOMAIN s : Append(s, e)[i] = s[i]
    BY AppendProperties
  <1> QED BY <1>1 DEF Elems

LEMMA HeadTailElems ==
  ASSUME NEW S, NEW s \in Seq(S), s # <<>>
  PROVE  Elems(s) = {Head(s)} \cup Elems(Tail(s))
  <1>1. /\ Len(s) \in Nat /\ DOMAIN s = 1 .. Len(s) /\ 1 \in DOMAIN s
        /\ Head(s) = s[1] /\ Tail(s) \in Seq(S) /\ Len(Tail(s)) = Len(s) - 1
        /\ \A i \in 1 .. Len(Tail(s)) : Tail(s)[i] = s[i + 1]
    BY HeadTailProperties
  <1>2. DOMAIN Tail(s) = 1 .. Len(s) - 1
    BY <1>1
  <1>3. \A i \in DOMAIN Tail(s) : i + 1 \in DOMAIN s /\ Tail(s)[i] = s[i + 1]
    BY <1>1, <1>2
  <1>4. \A i \in DOMAIN s : i = 1 \/ (i - 1 \in DOMAIN Tail(s) /\ Tail(s)[i - 1] = s[i])
    <2> SUFFICES ASSUME NEW i \in DOMAIN s, i # 1
                 PROVE  i - 1 \in DOMAIN Tail(s) /\ Tail(s)[i - 1] = s[i]
      OBVIOUS
    <2>1. i - 1 \in DOMAIN Tail(s) /\ (i - 1) + 1 = i
      BY <1>1, <1>2
    <2> QED BY <1>3, <2>1
  <1>5. Elems(s) \subseteq {Head(s)} \cup Elems(Tail(s))
    BY <1>1, <1>4 DEF Elems
  <1>6. Elems(Tail(s)) \subseteq Elems(s)
    BY <1>3 DEF Elems
  <1>7. Head(s) \in Elems(s)
    BY <1>1 DEF Elems
  <1> QED BY <1>5, <1>6, <1>7

LEMMA ConcatElems ==
  ASSUME NEW S, NEW s \in Seq(S), NEW t \in Seq(S)
  PROVE  Elems(s \o t) = Elems(s) \cup Elems(t)
  <1>1. /\ DOMAIN s = 1 .. Len(s) /\ DOMAIN t = 1 .. Len(t)
        /\ DOMAIN (s \o t) = 1 .. Len(s) + Len(t) /\ Len(s) \in Nat /\ Len(t) \in Nat
        /\ \A i \in 1 .. Len(s) + Len(t) :
             (s \o t)[i] = IF i <= Len(s) THEN s[i] ELSE t[i - Len(s)]
    BY ConcatProperties
  <1>2. \A i \in DOMAIN s : i \in DOMAIN (s \o t) /\ (s \o t)[i] = s[i]
    BY <1>1
  <1>3. \A i \in DOMAIN t :
          Len(s) + i \in DOMAIN (s \o t) /\ (s \o t)[Len(s) + i] = t[i]
    <2> TAKE i \in DOMAIN t
    <2>1. Len(s) + i \in 1 .. Len(s) + Len(t) /\ ~(Len(s) + i <= Len(s))
          /\ (Len(s) + i) - Len(s) = i
      BY <1>1
    <2> QED BY <1>1, <2>1
  <1>4. \A i \in DOMAIN (s \o t) :
          \/ i \in DOMAIN s /\ (s \o t)[i] = s[i]
          \/ i - Len(s) \in DOMAIN t /\ (s \o t)[i] = t[i - Len(s)]
    BY <1>1
  <1> DEFINE u == s \o t
  <1> HIDE DEF u
  <1>5. Elems(u) \subseteq Elems(s) \cup Elems(t)
    BY <1>4 DEF Elems, u
  <1>6. Elems(s) \subseteq Elems(u)
    BY <1>2 DEF Elems, u
  <1>7. Elems(t) \subseteq Elems(u)
    BY <1>3 DEF Elems, u
  <1> QED BY <1>5, <1>6, <1>7 DEF u

LEMMA AccountAddEvent ==
  ASSUME OrderInv, Accounted, NEW e \in Events, AddEvent(e)
  PROVE  Accounted'
  <1>1. e \notin DOMAIN added /\ DOMAIN added' = DOMAIN added \cup {e}
    BY DEF AddEvent, Put, OrderInv, Numbered
  <1>2. UNCHANGED <<rows, batch>> /\ ch \in Seq(Events) /\ lost \in [Losses -> SUBSET Events]
    BY DEF AddEvent, disk, OrderInv, TypeInv, TypeOK
  <1>3. e \notin Held /\ \A h \in Losses : e \notin lost[h]
    BY <1>1 DEF Accounted
  <1>4. CASE Len(ch) < ChanCap
    <2>1. ch' = Append(ch, e) /\ lost' = lost
      BY <1>4 DEF AddEvent, Enqueue
    <2>2. Elems(ch)' = Elems(ch) \cup {e}
      BY <1>2, <2>1, AppendElems
    <2>3. Held' = Held \cup {e}
      BY <1>2, <2>2 DEF Held, Stored, Elems
    <2> QED BY <1>1, <1>3, <2>1, <2>3 DEF Accounted
  <1>5. CASE ~(Len(ch) < ChanCap)
    <2>1. ch' = ch /\ Lose("full", {e})
      BY <1>5 DEF AddEvent, Enqueue
    <2>2. Held' = Held
      BY <1>2, <2>1 DEF Held, Stored, Elems
    <2>3. /\ lost'["full"] = lost["full"] \cup {e} /\ "full" \in Losses
          /\ \A h \in Losses \ {"full"} : lost'[h] = lost[h]
      BY <1>2, <2>1 DEF Lose, Losses
    <2> DEFINE gone     == UNION {lost[h] : h \in Losses}
               goneThen == UNION {lost'[h] : h \in Losses}
    <2>4. goneThen = gone \cup {e}
      <3>1. \A h \in Losses : lost'[h] \subseteq gone \cup {e}
        BY <2>3
      <3>2. \A h \in Losses : lost[h] \subseteq goneThen
        BY <2>3
      <3>3. e \in goneThen
        BY <2>3
      <3> QED BY <3>1, <3>2, <3>3
    <2>5. DOMAIN added' = Held' \cup goneThen
      <3>1. DOMAIN added = Held \cup gone
        BY DEF Accounted
      <3> HIDE DEF gone, goneThen
      <3> QED BY <1>1, <2>2, <2>4, <3>1
    <2>6. \A h \in Losses : lost'[h] \cap Held' = {}
      BY <1>3, <2>2, <2>3 DEF Accounted
    <2>7. ASSUME NEW g \in Losses, NEW h \in Losses, g # h
          PROVE  lost'[g] \cap lost'[h] = {}
      <3>1. lost[g] \cap lost[h] = {}
        BY <2>7 DEF Accounted
      <3>2. CASE g = "full"
        BY <1>3, <2>3, <2>7, <3>1, <3>2
      <3>3. CASE h = "full"
        BY <1>3, <2>3, <2>7, <3>1, <3>3
      <3>4. CASE g # "full" /\ h # "full"
        BY <2>3, <3>1, <3>4
      <3> QED BY <3>2, <3>3, <3>4
    <2> QED BY <2>5, <2>6, <2>7 DEF Accounted
  <1> QED BY <1>4, <1>5

LEMMA AccountReceive ==
  ASSUME OrderInv, Accounted, Receive
  PROVE  Accounted'
  <1>1. /\ ch \in Seq(Events) /\ ch # <<>> /\ batch \in Seq(Events)
        /\ batch' = Append(batch, Head(ch)) /\ ch' = Tail(ch)
        /\ UNCHANGED <<rows, added, lost>>
    BY DEF Receive, OrderInv, TypeInv, TypeOK, disk
  <1>2. Head(ch) \in Events
    BY <1>1
  <1>3. Elems(batch)' = Elems(batch) \cup {Head(ch)}
    BY <1>1, <1>2, AppendElems
  <1>4. Elems(ch) = {Head(ch)} \cup Elems(ch)'
    BY <1>1, HeadTailElems
  <1>5. Stored' = Stored
    BY <1>1 DEF Stored
  <1>6. Held' = Held
    BY <1>3, <1>4, <1>5 DEF Held
  <1> QED BY <1>1, <1>6, KeepingAccounts

\* What a transaction does not write it loses; the rest is in the table.
LEMMA AccountDrain ==
  ASSUME OrderInv, Accounted, Drain
  PROVE  Accounted'
  <1>1. PICK written \in SUBSET DOMAIN batch :
          /\ rows' = [i \in DOMAIN rows \cup {lastId + k : k \in written} |->
                        IF i <= lastId THEN rows[i] ELSE batch[i - lastId]]
          /\ Lose("sql", {batch[k] : k \in DOMAIN batch \ written})
    BY DEF Drain
  <1>2. /\ batch' = <<>> /\ UNCHANGED <<ch, added>>
        /\ lost \in [Losses -> SUBSET Events] /\ "sql" \in Losses
        /\ lastId \in Nat /\ \A i \in DOMAIN rows : i \in Nat /\ i <= lastId
        /\ \A k \in DOMAIN batch : k \in Nat \ {0}
    BY DEF Drain, OrderInv, TypeInv, TypeOK, MapOf, Losses
  <1> DEFINE kept    == {batch[k] : k \in written}
             dropped == {batch[k] : k \in DOMAIN batch \ written}
  <1>3. \A i \in DOMAIN rows : i \in DOMAIN rows' /\ rows'[i] = rows[i]
    BY <1>1, <1>2
  <1>4. \A k \in written : lastId + k \in DOMAIN rows' /\ rows'[lastId + k] = batch[k]
    <2> TAKE k \in written
    <2>1. ~(lastId + k <= lastId) /\ (lastId + k) - lastId = k
      BY <1>2
    <2> QED BY <1>1, <2>1
  <1>5. \A i \in DOMAIN rows' : rows'[i] \in Stored \cup kept
    <2> TAKE i \in DOMAIN rows'
    <2>1. CASE i \in DOMAIN rows
      BY <1>3, <2>1 DEF Stored
    <2>2. CASE \E k \in written : i = lastId + k
      BY <1>4, <2>2
    <2> QED BY <1>1, <2>1, <2>2
  <1>6. Stored' = Stored \cup kept
    <2>1. Stored' \subseteq Stored \cup kept
      BY <1>5 DEF Stored
    <2>2. Stored \subseteq Stored'
      BY <1>3 DEF Stored
    <2>3. kept \subseteq Stored'
      BY <1>4 DEF Stored
    <2> QED BY <2>1, <2>2, <2>3
  <1>7. Elems(batch) = kept \cup dropped
    BY DEF Elems
  <1>8. kept \cap dropped = {} /\ Stored \cap dropped = {} /\ Elems(ch) \cap dropped = {}
    BY HeldOnce DEF Stored, Elems
  <1>9. Elems(batch)' = {} /\ Elems(ch)' = Elems(ch)
    BY <1>2 DEF Elems
  <1> HIDE DEF kept, dropped
  <1>10. Held' = Held \ dropped /\ dropped \subseteq Held
    BY <1>6, <1>7, <1>8, <1>9 DEF Held
  <1>11. Lose("sql", dropped)
    BY <1>1 DEF dropped
  <1> QED BY <1>2, <1>10, <1>11, LosingAccounts

LEMMA AccountReturn ==
  ASSUME OrderInv, Accounted, Return
  PROVE  Accounted'
  <1>1. /\ batch' = <<>> /\ UNCHANGED <<ch, added, rows>> /\ ch = <<>>
        /\ lost \in [Losses -> SUBSET Events] /\ "close" \in Losses
        /\ Lose("close", Elems(batch))
    BY DEF Return, OrderInv, TypeInv, TypeOK, Losses, disk
  <1>2. Elems(batch)' = {} /\ Elems(ch) = {} /\ Elems(ch)' = {} /\ Stored' = Stored
    BY <1>1 DEF Elems, Stored
  <1>3. Stored \cap Elems(batch) = {}
    BY HeldOnce DEF Stored, Elems
  <1>4. Held' = Held \ Elems(batch) /\ Elems(batch) \subseteq Held
    BY <1>2, <1>3 DEF Held
  <1> QED BY <1>1, <1>4, LosingAccounts

LEMMA AccountExit ==
  ASSUME OrderInv, Accounted, Exit
  PROVE  Accounted'
  <1>1. /\ batch' = <<>> /\ ch' = <<>> /\ UNCHANGED <<added, rows>>
        /\ lost \in [Losses -> SUBSET Events] /\ "kill" \in Losses
        /\ Lose("kill", Elems(ch) \cup Elems(batch))
    BY DEF Exit, OrderInv, TypeInv, TypeOK, Losses, disk
  <1>2. Elems(batch)' = {} /\ Elems(ch)' = {} /\ Stored' = Stored
    BY <1>1 DEF Elems, Stored
  <1>3. Stored \cap (Elems(ch) \cup Elems(batch)) = {}
    BY HeldOnce DEF Stored, Elems
  <1>4. /\ Held' = Held \ (Elems(ch) \cup Elems(batch))
        /\ Elems(ch) \cup Elems(batch) \subseteq Held
    BY <1>2, <1>3 DEF Held
  <1> QED BY <1>1, <1>4, LosingAccounts

LEMMA AccountRestart ==
  ASSUME OrderInv, Ended, Accounted, Restart
  PROVE  Accounted'
  <1>1. PICK old \in SUBSET DOMAIN rows : Purge(old)
    BY DEF Restart
  <1>2. /\ batch' = <<>> /\ ch' = <<>> /\ batch = <<>> /\ ch = <<>> /\ UNCHANGED added
        /\ lost \in [Losses -> SUBSET Events] /\ "age" \in Losses
    BY DEF Restart, Start, Ended, Running, OrderInv, TypeInv, TypeOK, Losses
  <1> DEFINE aged == {rows[i] : i \in old}
  <1>3. Lose("age", aged) /\ rows' = [i \in DOMAIN rows \ old |-> rows[i]]
    BY <1>1 DEF Purge
  <1>4. Stored' = Stored \ aged /\ aged \subseteq Stored
    <2>1. aged \subseteq Stored
      BY DEF Stored
    <2>2. Stored' \subseteq Stored \ aged
      BY <1>3, HeldOnce DEF Stored
    <2>3. Stored \ aged \subseteq Stored'
      BY <1>3 DEF Stored
    <2> QED BY <2>1, <2>2, <2>3
  <1>5. Elems(batch)' = {} /\ Elems(ch)' = {} /\ Elems(batch) = {} /\ Elems(ch) = {}
    BY <1>2 DEF Elems
  <1> HIDE DEF aged
  <1>6. Held' = Held \ aged /\ aged \subseteq Held
    BY <1>4, <1>5 DEF Held
  <1> QED BY <1>2, <1>3, <1>6, LosingAccounts

LEMMA AccountStep == OrderInv /\ Ended /\ Accounted /\ [Next]_vars => Accounted'
  <1> SUFFICES ASSUME OrderInv, Ended, Accounted, [Next]_vars PROVE Accounted'
    OBVIOUS
  <1>1. ASSUME NEW e \in Events, AddEvent(e) PROVE Accounted'
    BY <1>1, AccountAddEvent
  <1>2. ASSUME NEW e \in Events, Accept(e) PROVE Accounted'
    BY <1>2, KeepingAccounts DEF Accept, disk, Held, Stored, Elems
  <1>3. CASE Tick \/ Quit \/ ShutdownDone \/ Closed \/ UNCHANGED vars
    BY <1>3, KeepingAccounts DEF Tick, Quit, ShutdownDone, Closed, vars, disk, Held,
                                 Stored, Elems
  <1> QED BY <1>1, <1>2, <1>3, AccountReceive, AccountDrain, AccountReturn, AccountExit,
             AccountRestart
       DEF Next, Handlers, Flusher, Main, ShutdownTimeout, Die

\* However many events are reported, dropped, written, purged and lost, each
\* one reported is in the table, waiting, or lost in exactly one way.
THEOREM EventsAreAccountedFor == Spec => []EveryEventAccounted
  <1>1. Spec => []OrderInv
    BY OrderInit, OrderStep, PTL DEF Spec
  <1>2. Spec => []Ended
    BY EndedInit, EndedStep, PTL DEF Spec
  <1>3. Init => Accounted
    <2> SUFFICES ASSUME Init PROVE Accounted
      OBVIOUS
    <2>1. DOMAIN added = {} /\ Stored = {} /\ Elems(batch) = {} /\ Elems(ch) = {}
      BY DEF Init, Empty, Stored, Elems
    <2>2. \A h \in Losses : lost[h] = {}
      BY DEF Init
    <2> QED BY <2>1, <2>2 DEF Accounted, Held
  <1>4. OrderInv /\ Accounted => EveryEventAccounted
    <2> SUFFICES ASSUME OrderInv, Accounted PROVE EveryEventAccounted
      OBVIOUS
    <2>1. Elems(Queue) = Elems(batch) \cup Elems(ch)
      BY ConcatElems DEF OrderInv, TypeInv, TypeOK, Queue
    <2>2. Stored \cup Elems(Queue) = Held
      BY <2>1 DEF Held
    <2> QED BY <2>2 DEF Accounted, EveryEventAccounted
  <1> QED BY <1>1, <1>2, <1>3, <1>4, AccountStep, PTL DEF Spec

-----------------------------------------------------------------------------
(* Stopping.  While the first process runs, nothing is lost at the close   *)
(* before the flusher returns; then it is what was in its batch, which is  *)
(* not full and newer than the table, and the table is left alone.         *)

CloseInv ==
    /\ runs > 0
    /\ runs = 1 =>
         /\ flusher # "done" => lost["close"] = {}
         /\ flusher = "done" =>
              /\ IsFiniteSet(lost["close"]) /\ Cardinality(lost["close"]) < BatchMax
              /\ \A e \in lost["close"], f \in Stored : added[f] < added[e]

\* A sequence has no more elements than places.
LEMMA ElemsAreCounted ==
  ASSUME NEW S, NEW s \in Seq(S)
  PROVE  /\ IsFiniteSet(Elems(s)) /\ Cardinality(Elems(s)) \in Nat
         /\ Cardinality(Elems(s)) <= Len(s)
  <1>1. Len(s) \in Nat /\ DOMAIN s = 1 .. Len(s) /\ s \in [1 .. Len(s) -> Elems(s)]
    BY DEF Elems
  <1>2. s \in Surjection(1 .. Len(s), Elems(s))
    BY <1>1 DEF Surjection, Elems
  <1>3. IsFiniteSet(1 .. Len(s)) /\ Cardinality(1 .. Len(s)) = Len(s)
    BY <1>1, FS_Interval
  <1>4. IsFiniteSet(Elems(s)) /\ Cardinality(Elems(s)) <= Cardinality(1 .. Len(s))
    BY <1>2, <1>3, FS_Surjection
  <1> QED BY <1>3, <1>4, FS_CardinalityType

LEMMA CloseKept ==
  ASSUME CloseInv, UNCHANGED <<flusher, runs, added, rows>>, lost'["close"] = lost["close"]
  PROVE  CloseInv'
  BY DEF CloseInv, Stored

LEMMA CloseStep == OrderInv /\ Ended /\ CloseInv /\ [Next]_vars => CloseInv'
  <1> SUFFICES ASSUME OrderInv, Ended, CloseInv, [Next]_vars PROVE CloseInv'
    OBVIOUS
  <1>1. lost \in [Losses -> SUBSET Events] /\ "close" \in Losses /\ runs \in Nat
    BY DEF OrderInv, TypeInv, TypeOK, Losses
  <1>2. ASSUME NEW e \in Events, AddEvent(e) PROVE CloseInv'
    <2>1. flusher' = flusher /\ flusher # "done" /\ runs' = runs
      BY <1>2 DEF AddEvent, Ended, ClosedLate
    <2>2. lost'["close"] = lost["close"]
      BY <1>1, <1>2 DEF AddEvent, Enqueue, Lose
    <2> QED BY <2>1, <2>2 DEF CloseInv
  <1>3. ASSUME NEW e \in Events, Accept(e) PROVE CloseInv'
    BY <1>3, CloseKept DEF Accept, disk
  <1>4. CASE Receive \/ Tick \/ Drain
    <2>1. /\ flusher # "done" /\ flusher' # "done" /\ runs' = runs
          /\ lost'["close"] = lost["close"]
      BY <1>1, <1>4 DEF Receive, Tick, Drain, Lose
    <2> QED BY <2>1 DEF CloseInv
  <1>5. CASE Return
    <2>1. /\ flusher = "select" /\ flusher' = "done" /\ UNCHANGED <<runs, rows, added>>
          /\ lost'["close"] = lost["close"] \cup Elems(batch)
      BY <1>1, <1>5 DEF Return, Lose, disk
    <2>2. batch \in Seq(Events) /\ Len(batch) < BatchMax /\ BatchMax \in Nat /\ Len(batch) \in Nat
      BY <1>5, BoundsAssumption DEF Return, OrderInv, TypeInv, TypeOK
    <2>3. IsFiniteSet(Elems(batch)) /\ Cardinality(Elems(batch)) < BatchMax
      BY <2>2, ElemsAreCounted
    <2>4. \A e \in Elems(batch), f \in Stored : added[f] < added[e]
      BY DEF Elems, Stored, OrderInv, InOrder, Before
    <2>5. Stored' = Stored
      BY <2>1 DEF Stored
    <2>6. CASE runs = 1
      <3>1. lost'["close"] = Elems(batch)
        BY <2>1, <2>6 DEF CloseInv
      <3> QED BY <2>1, <2>3, <2>4, <2>5, <2>6, <3>1 DEF CloseInv
    <2>7. CASE runs # 1
      BY <2>1, <2>7 DEF CloseInv
    <2> QED BY <2>6, <2>7
  <1>6. CASE Quit \/ ShutdownDone \/ Closed \/ UNCHANGED vars
    BY <1>6, CloseKept DEF Quit, ShutdownDone, Closed, vars, disk
  <1>7. CASE Exit
    <2>1. lost'["close"] = lost["close"]
      BY <1>1, <1>7 DEF Exit, Lose
    <2> QED BY <1>7, <2>1, CloseKept DEF Exit, disk
  <1>8. CASE Restart
    <2>1. runs' = runs + 1 /\ runs > 0
      BY <1>8 DEF Restart, CloseInv
    <2> QED BY <1>1, <2>1 DEF CloseInv
  <1> QED BY <1>2, <1>3, <1>4, <1>5, <1>6, <1>7, <1>8
       DEF Next, Handlers, Flusher, Main, ShutdownTimeout, Die

\* A process that ran to its orderly end lost, at the close, fewer events than
\* a batch holds, and only the newest, for any capacities.
THEOREM StopsLoseLittle == Spec => []OrderlyStopLosesLessThanABatch
  <1>1. Spec => []OrderInv
    BY OrderInit, OrderStep, PTL DEF Spec
  <1>2. Spec => []Ended
    BY EndedInit, EndedStep, PTL DEF Spec
  <1>3. Init => CloseInv
    BY DEF Init, CloseInv, Losses
  <1>4. CloseInv => OrderlyStopLosesLessThanABatch
    <2> SUFFICES ASSUME CloseInv, runs = 1
                 PROVE  /\ Cardinality(lost["close"]) < BatchMax
                        /\ \A e \in lost["close"], f \in Stored : added[f] < added[e]
      BY DEF OrderlyStopLosesLessThanABatch
    <2>1. CASE flusher = "done"
      BY <2>1 DEF CloseInv
    <2>2. CASE flusher # "done"
      <3>1. lost["close"] = {} /\ Cardinality({}) = 0
        BY <2>2, FS_EmptySet DEF CloseInv
      <3> QED BY <3>1, BoundsAssumption
    <2> QED BY <2>1, <2>2
  <1> QED BY <1>1, <1>2, <1>3, <1>4, CloseStep, PTL DEF Spec
=============================================================================
