-------------------------- MODULE BruteforceProofs --------------------------
(***************************************************************************)
(* Theorems about Bruteforce, for every set of keys and requests, every    *)
(* admissible configuration and every bound on the clock.                  *)
(***************************************************************************)
EXTENDS Bruteforce, FiniteSetTheorems, TLAPS

-----------------------------------------------------------------------------
(* Maps keep the types of their keys and values. *)

LEMMA EmptyMap == \A K, V : MapOf(Empty, K, V)
  BY DEF Empty, MapOf

LEMMA PutMap ==
  ASSUME NEW K, NEW V, NEW m, MapOf(m, K, V), NEW k \in K, NEW v \in V
  PROVE  MapOf(Put(m, k, v), K, V)
  BY DEF Put, MapOf

LEMMA DropMap ==
  ASSUME NEW K, NEW V, NEW m, MapOf(m, K, V), NEW k
  PROVE  MapOf(Drop(m, k), K, V)
  BY DEF Drop, MapOf

-----------------------------------------------------------------------------
(* What the helpers on trackers return *)

LEMMA WindowType ==
  ASSUME cfg \in Settings, Effective(cfg)
  PROVE  Window \in Nat /\ Window > cfg.BackoffMaxMinutes
  <1>1. /\ cfg.WindowMinutes \in Nat \ {0} /\ cfg.BackoffMaxMinutes \in Nat \ {0}
    BY DEF Settings, Effective
  <1>2. \A w, m \in Nat \ {0} : w * 2 * m \in Nat /\ w * 2 * m > m
    OBVIOUS
  <1> QED BY <1>1, <1>2 DEF Window

LEMMA LockoutType ==
  ASSUME cfg \in Settings, NEW step
  PROVE  ComputeLockout(step) \in 0 .. cfg.BackoffMaxMinutes
  <1> DEFINE lockout == cfg.BackoffBase * 2 ^ step
  <1>1. cfg.BackoffMaxMinutes \in 0 .. cfg.BackoffMaxMinutes
    BY DEF Settings
  <1>2. ComputeLockout(step) = IF lockout \in 0 .. cfg.BackoffMaxMinutes
                               THEN lockout ELSE cfg.BackoffMaxMinutes
    BY DEF ComputeLockout
  <1> HIDE DEF lockout
  <1> QED BY <1>1, <1>2

LEMMA CleanType ==
  ASSUME NEW t \in Tracker
  PROVE  /\ Clean(t) \in Tracker
         /\ Clean(t).lastSeen = t.lastSeen
         /\ Clean(t).lockoutUntil \in {0, t.lockoutUntil}
         /\ \/ Clean(t) = t
            \/ /\ now - t.lastSeen > Window
               /\ Clean(t).failures = 0 /\ Clean(t).backoffStep = 0
               /\ Clean(t).lockoutUntil = 0
  BY DEF Clean, Tracker

LEMMA CleanMap ==
  ASSUME NEW K, NEW m, MapOf(m, K, Tracker)
  PROVE  /\ MapOf(CleanAll(m), K, Tracker)
         /\ \A k : MapOf(CleanKey(m, k), K, Tracker)
  BY CleanType DEF CleanAll, CleanKey, MapOf

LEMMA StruckType ==
  ASSUME TypeOK, NEW t \in Tracker
  PROVE  /\ Struck(t) \in Tracker
         /\ Struck(t).lastSeen = now
         /\ Struck(t).failures = t.failures + 1
         /\ Struck(t).lockoutUntil = t.lockoutUntil
              \/ Struck(t).lockoutUntil \in now .. now + cfg.BackoffMaxMinutes
  <1>1. /\ t.failures \in Nat /\ t.lockoutUntil \in Nat
        /\ t.backoffStep \in Nat /\ t.lastSeen \in Nat
    BY DEF Tracker
  <1>2. now \in Nat /\ cfg.MaxAttempts \in Nat /\ cfg.BackoffMaxMinutes \in Nat
    BY DEF TypeOK, Settings
  <1>3. ComputeLockout(t.backoffStep) \in 0 .. cfg.BackoffMaxMinutes
    BY LockoutType DEF TypeOK
  <1> DEFINE d == ComputeLockout(t.backoffStep)
  <1>4. now + d \in Nat /\ now + d \in now .. now + cfg.BackoffMaxMinutes
    BY <1>2, <1>3
  <1> HIDE DEF d
  <1>5. Struck(t) = [failures     |-> t.failures + 1,
                     lastSeen     |-> now,
                     lockoutUntil |-> IF Crosses(t) THEN now + d
                                                    ELSE t.lockoutUntil,
                     backoffStep  |-> IF Crosses(t) THEN t.backoffStep + 1
                                                    ELSE t.backoffStep]
    BY DEF Struck, d
  <1> QED BY <1>1, <1>2, <1>4, <1>5 DEF Tracker

LEMMA GetOrCreateType ==
  ASSUME NEW K, NEW m, MapOf(m, K, Tracker), NEW k, now \in Nat
  PROVE  GetOrCreate(m, k) \in Tracker
  BY DEF GetOrCreate, NewTracker, Tracker, MapOf

-----------------------------------------------------------------------------
(* Type correctness *)

LEMMA TypeInit == Init => TypeOK
  BY SettingsAssumption, EmptyMap DEF Init, TypeOK

LEMMA MergedType ==
  ASSUME cfg \in Settings, Effective(cfg), NEW c \in Settings
  PROVE  Merged(c) \in Settings /\ Effective(Merged(c))
  BY DEF Merged, Given, Settings, Effective

LEMMA TypeNext == TypeOK /\ [Next]_vars => TypeOK'
  <1> SUFFICES ASSUME TypeOK, [Next]_vars PROVE TypeOK'
    OBVIOUS
  <1> USE DEF TypeOK
  <1>1. ASSUME NEW ip \in IPs, RefusedByIP(ip) PROVE TypeOK'
    BY <1>1, CleanMap DEF RefusedByIP
  <1>2. ASSUME NEW ip \in IPs, NEW user \in Users, RefusedByUser(ip, user)
        PROVE  TypeOK'
    BY <1>2, CleanMap DEF RefusedByUser
  <1>3. ASSUME NEW r \in Requests, NEW ip \in IPs, NEW user \in Users,
               Admit(r, ip, user)
        PROVE  TypeOK'
    <2>1. [ip |-> ip, user |-> user, at |-> now] \in Attempt
      BY DEF Attempt
    <2> QED BY <1>3, <2>1, CleanMap, PutMap DEF Admit
  <1>4. ASSUME NEW r \in Requests, LoginFails(r) PROVE TypeOK'
    <2> DEFINE ip == attempt[r].ip  user == attempt[r].user
    <2>1. /\ r \in DOMAIN attempt
          /\ byIP' = Put(byIP, ip, Struck(GetOrCreate(byIP, ip)))
          /\ byUser' = Put(byUser, user, Struck(GetOrCreate(byUser, user)))
          /\ attempt' = Drop(attempt, r) /\ UNCHANGED <<now, cfg>>
      BY <1>4 DEF LoginFails
    <2>2. ip \in IPs /\ user \in Users
      BY <2>1 DEF Attempt, MapOf
    <2>3. /\ Struck(GetOrCreate(byIP, ip)) \in Tracker
          /\ Struck(GetOrCreate(byUser, user)) \in Tracker
      BY GetOrCreateType, StruckType
    <2> HIDE DEF ip, user
    <2> QED BY <2>1, <2>2, <2>3, PutMap, DropMap
  <1>5. ASSUME NEW r \in Requests, LoginSucceeds(r) PROVE TypeOK'
    BY <1>5, DropMap DEF LoginSucceeds
  <1>6. ASSUME GetState PROVE TypeOK'
    BY <1>6, CleanMap DEF GetState
  <1>7. ASSUME NEW c \in Updates, UpdateConfig(c) PROVE TypeOK'
    BY <1>7, MergedType, SettingsAssumption DEF UpdateConfig
  <1>8. ASSUME NEW ip \in IPs, ResetByIP(ip) PROVE TypeOK'
    BY <1>8, DropMap DEF ResetByIP
  <1>9. ASSUME NEW user \in Users, ResetByUsername(user) PROVE TypeOK'
    BY <1>9, DropMap DEF ResetByUsername
  <1>10. ASSUME ResetAll PROVE TypeOK'
    BY <1>10, EmptyMap DEF ResetAll
  <1>11. ASSUME Tick PROVE TypeOK'
    BY <1>11 DEF Tick
  <1>12. ASSUME UNCHANGED vars PROVE TypeOK'
    BY <1>12 DEF vars
  <1> QED BY <1>1, <1>2, <1>3, <1>4, <1>5, <1>6, <1>7, <1>8, <1>9, <1>10,
             <1>11, <1>12 DEF Next, Login, Administer

\* The maps, the settings and the requests in progress stay well formed; in
\* particular no update of the settings ever makes one of them zero.
THEOREM TypeCorrect == Spec => []TypeOK
  BY TypeInit, TypeNext, PTL DEF Spec

-----------------------------------------------------------------------------
(* What a step does to one tracker: nothing, clean, or one failure *)

Steps(m, n) ==
    \A k \in DOMAIN n :
       \/ k \in DOMAIN m /\ n[k] = m[k]
       \/ k \in DOMAIN m /\ n[k] = Clean(m[k]) /\ UNCHANGED <<now, cfg>>
       \/ n[k] = Struck(GetOrCreate(m, k)) /\ UNCHANGED <<now, cfg>>

LEMMA CleanSteps ==
  ASSUME UNCHANGED <<now, cfg>>, NEW m
  PROVE  Steps(m, CleanAll(m)) /\ \A k : Steps(m, CleanKey(m, k))
  BY DEF Steps, CleanAll, CleanKey

LEMMA DropSteps == \A m, k : Steps(m, Drop(m, k)) /\ Steps(m, Empty)
  BY DEF Steps, Drop, Empty

LEMMA StaySteps == ASSUME NEW m, NEW n, n = m PROVE Steps(m, n)
  BY DEF Steps

LEMMA PutSteps ==
  ASSUME UNCHANGED <<now, cfg>>, NEW m, NEW k
  PROVE  Steps(m, Put(m, k, Struck(GetOrCreate(m, k))))
  BY DEF Steps, Put

LEMMA TrackerSteps ==
  [Next]_vars => Steps(byIP, byIP') /\ Steps(byUser, byUser')
  <1> SUFFICES ASSUME [Next]_vars PROVE Steps(byIP, byIP') /\ Steps(byUser, byUser')
    OBVIOUS
  <1>1. CASE Login
    <2>1. ASSUME NEW ip \in IPs, RefusedByIP(ip)
          PROVE  Steps(byIP, byIP') /\ Steps(byUser, byUser')
      BY <2>1, CleanSteps, StaySteps DEF RefusedByIP
    <2>2. ASSUME NEW ip \in IPs, NEW user \in Users, RefusedByUser(ip, user)
          PROVE  Steps(byIP, byIP') /\ Steps(byUser, byUser')
      BY <2>2, CleanSteps DEF RefusedByUser
    <2>3. ASSUME NEW r, NEW ip \in IPs, NEW user \in Users, Admit(r, ip, user)
          PROVE  Steps(byIP, byIP') /\ Steps(byUser, byUser')
      BY <2>3, CleanSteps DEF Admit
    <2>4. ASSUME NEW r, LoginFails(r)
          PROVE  Steps(byIP, byIP') /\ Steps(byUser, byUser')
      BY <2>4, PutSteps DEF LoginFails
    <2>5. ASSUME NEW r, LoginSucceeds(r)
          PROVE  Steps(byIP, byIP') /\ Steps(byUser, byUser')
      BY <2>5, DropSteps DEF LoginSucceeds
    <2> QED BY <1>1, <2>1, <2>2, <2>3, <2>4, <2>5 DEF Login
  <1>2. CASE Administer
    <2>1. CASE GetState
      BY <2>1, CleanSteps DEF GetState
    <2>2. ASSUME NEW c \in Updates, UpdateConfig(c)
          PROVE  Steps(byIP, byIP') /\ Steps(byUser, byUser')
      BY <2>2, DropSteps, StaySteps DEF UpdateConfig
    <2>3. ASSUME NEW ip \in IPs, ResetByIP(ip)
          PROVE  Steps(byIP, byIP') /\ Steps(byUser, byUser')
      BY <2>3, DropSteps, StaySteps DEF ResetByIP
    <2>4. ASSUME NEW user \in Users, ResetByUsername(user)
          PROVE  Steps(byIP, byIP') /\ Steps(byUser, byUser')
      BY <2>4, DropSteps, StaySteps DEF ResetByUsername
    <2>5. CASE ResetAll
      <3>1. byIP' = Empty /\ byUser' = Empty
        BY <2>5 DEF ResetAll
      <3> QED BY <3>1, DropSteps
    <2> QED BY <1>2, <2>1, <2>2, <2>3, <2>4, <2>5 DEF Administer
  <1>3. CASE UNCHANGED <<byIP, byUser>>
    BY <1>3, StaySteps
  <1> QED BY <1>1, <1>2, <1>3 DEF Next, Tick, vars

LEMMA ClockMoves == TypeOK /\ [Next]_vars => now' \in Nat /\ now <= now'
  <1>1. [Next]_vars => now' = now \/ now' = now + 1
    BY DEF Next, Login, RefusedByIP, RefusedByUser, Admit, LoginFails,
           LoginSucceeds, Administer, GetState, UpdateConfig, ResetByIP,
           ResetByUsername, ResetAll, Tick, vars
  <1>2. TypeOK => now \in Nat
    BY DEF TypeOK
  <1> QED BY <1>1, <1>2

LEMMA SettingsMove == [Next]_vars => cfg' = cfg \/ \E c \in Updates : cfg' = Merged(c)
  BY DEF Next, Login, RefusedByIP, RefusedByUser, Admit, LoginFails,
         LoginSucceeds, Administer, GetState, UpdateConfig, ResetByIP,
         ResetByUsername, ResetAll, Tick, vars

-----------------------------------------------------------------------------
(* The lock of a key is never longer than a configured maximum *)

\* A failure can only lock within the current maximum, which is one of Caps,
\* counted from a lastSeen that is not in the future.
CapOK(t) == t.lastSeen <= now /\ WithinCap(t)

CapInv == /\ cfg.BackoffMaxMinutes \in Caps
          /\ \A k \in DOMAIN byIP : CapOK(byIP[k])
          /\ \A k \in DOMAIN byUser : CapOK(byUser[k])

LEMMA CapsType == Caps \subseteq Nat
  BY SettingsAssumption DEF Caps, Settings

LEMMA CapStruck ==
  ASSUME TypeOK, cfg.BackoffMaxMinutes \in Caps, NEW t \in Tracker, CapOK(t)
  PROVE  CapOK(Struck(t))
  <1>1. PICK c \in Caps : t.lockoutUntil <= t.lastSeen + c
    BY DEF CapOK, WithinCap
  <1>2. /\ c \in Nat /\ now \in Nat /\ t.lastSeen \in Nat /\ t.lockoutUntil \in Nat
        /\ t.lastSeen <= now /\ cfg.BackoffMaxMinutes \in Nat
    BY CapsType DEF TypeOK, Tracker, CapOK, Settings
  <1>3. /\ Struck(t).lastSeen = now
        /\ \/ Struck(t).lockoutUntil = t.lockoutUntil
           \/ Struck(t).lockoutUntil \in now .. now + cfg.BackoffMaxMinutes
    BY StruckType
  <1>4. CASE Struck(t).lockoutUntil = t.lockoutUntil
    BY <1>1, <1>2, <1>3, <1>4 DEF CapOK, WithinCap
  <1>5. CASE Struck(t).lockoutUntil \in now .. now + cfg.BackoffMaxMinutes
    BY <1>2, <1>3, <1>5 DEF CapOK, WithinCap
  <1> QED BY <1>3, <1>4, <1>5

LEMMA CapClean ==
  ASSUME TypeOK, NEW t \in Tracker, CapOK(t) PROVE CapOK(Clean(t))
  <1>1. PICK c \in Caps : t.lockoutUntil <= t.lastSeen + c
    BY DEF CapOK, WithinCap
  <1>2. c \in Nat /\ t.lastSeen \in Nat
    BY CapsType DEF Tracker
  <1>3. Clean(t).lastSeen = t.lastSeen /\ Clean(t).lockoutUntil \in {0, t.lockoutUntil}
    BY CleanType
  <1> QED BY <1>1, <1>2, <1>3 DEF CapOK, WithinCap

LEMMA CapMap ==
  ASSUME TypeOK, [Next]_vars, cfg.BackoffMaxMinutes \in Caps, NEW K,
         NEW m, MapOf(m, K, Tracker), \A k \in DOMAIN m : CapOK(m[k]),
         NEW n, Steps(m, n), NEW k \in DOMAIN n
  PROVE  n[k].lastSeen <= now' /\ WithinCap(n[k])
  <1>1. now \in Nat /\ now' \in Nat /\ now <= now'
    BY ClockMoves DEF TypeOK
  <1>2. CASE k \in DOMAIN m /\ n[k] = m[k]
    <2>1. m[k] \in Tracker /\ CapOK(m[k])
      BY <1>2 DEF MapOf
    <2> QED BY <2>1, <1>1, <1>2 DEF CapOK, Tracker
  <1>3. CASE k \in DOMAIN m /\ n[k] = Clean(m[k]) /\ UNCHANGED <<now, cfg>>
    <2>1. m[k] \in Tracker /\ CapOK(m[k])
      BY <1>3 DEF MapOf
    <2>2. CapOK(Clean(m[k]))
      BY <2>1, CapClean
    <2> QED BY <2>2, <1>3 DEF CapOK
  <1>4. CASE n[k] = Struck(GetOrCreate(m, k)) /\ UNCHANGED <<now, cfg>>
    <2>1. GetOrCreate(m, k) \in Tracker
      BY <1>1, GetOrCreateType
    <2>2. CapOK(GetOrCreate(m, k))
      <3>1. CASE k \in DOMAIN m
        BY <3>1 DEF GetOrCreate
      <3>2. CASE k \notin DOMAIN m
        <4>1. GetOrCreate(m, k) = NewTracker
          BY <3>2 DEF GetOrCreate
        <4>2. NewTracker.lockoutUntil = 0 /\ NewTracker.lastSeen = now
          BY DEF NewTracker
        <4>3. now <= now /\ 0 <= now + cfg.BackoffMaxMinutes
          BY <1>1 DEF TypeOK, Settings
        <4> QED BY <4>1, <4>2, <4>3 DEF CapOK, WithinCap
      <3> QED BY <3>1, <3>2
    <2>3. CapOK(Struck(GetOrCreate(m, k)))
      BY <2>1, <2>2, CapStruck
    <2> QED BY <2>3, <1>4 DEF CapOK
  <1> QED BY <1>2, <1>3, <1>4 DEF Steps

LEMMA CapNext == TypeOK /\ CapInv /\ [Next]_vars => CapInv'
  <1> SUFFICES ASSUME TypeOK, CapInv, [Next]_vars PROVE CapInv'
    OBVIOUS
  <1>1. cfg'.BackoffMaxMinutes \in Caps
    <2>1. CASE cfg' = cfg
      BY <2>1 DEF CapInv
    <2>2. ASSUME NEW c \in Updates, cfg' = Merged(c)
          PROVE  cfg'.BackoffMaxMinutes \in Caps
      <3>1. cfg'.BackoffMaxMinutes
              = IF c.BackoffMaxMinutes > 0 THEN c.BackoffMaxMinutes
                                           ELSE cfg.BackoffMaxMinutes
        BY <2>2 DEF Merged, Given
      <3> QED BY <3>1 DEF CapInv, Caps
    <2> QED BY <2>1, <2>2, SettingsMove
  <1>2. \A k \in DOMAIN byIP' : byIP'[k].lastSeen <= now' /\ WithinCap(byIP'[k])
    BY TrackerSteps, CapMap DEF TypeOK, CapInv
  <1>3. \A k \in DOMAIN byUser' : byUser'[k].lastSeen <= now' /\ WithinCap(byUser'[k])
    BY TrackerSteps, CapMap DEF TypeOK, CapInv
  <1> QED BY <1>1, <1>2, <1>3 DEF CapInv, CapOK, WithinCap

LEMMA CapInvariant == Spec => [](TypeOK /\ CapInv)
  <1>1. Init => CapInv
    BY DEF Init, CapInv, Caps, Empty
  <1> QED BY <1>1, TypeInit, TypeNext, CapNext, PTL DEF Spec

\* computeLockout caps every lock, whatever the backoff step and however the
\* settings change: no key stays locked longer than one of the maxima.
THEOREM LocksAreBounded == Spec => []LockWithinCap
  <1>1. CapInv => LockWithinCap
    BY DEF CapInv, CapOK, LockWithinCap
  <1> QED BY <1>1, CapInvariant, PTL

-----------------------------------------------------------------------------
(* Reading the limiter never releases a running lock *)

FixedCap == \A c \in Updates : c.BackoffMaxMinutes = 0

\* The window is WindowMinutes * 2 * BackoffMaxMinutes, more than the longest
\* lock, so a tracker old enough to be forgotten is no longer locked - as long
\* as the maximum is not changed under it.
THEOREM CleanReleasesNothing == ASSUME FixedCap PROVE Spec => []IdleIsUnlocked
  <1> DEFINE CapStays == cfg.BackoffMaxMinutes = InitCfg.BackoffMaxMinutes
  <1>1. Init => CapStays
    BY DEF Init
  <1>2. CapStays /\ [Next]_vars => CapStays'
    <2> SUFFICES ASSUME CapStays, [Next]_vars PROVE CapStays'
      OBVIOUS
    <2>1. ASSUME NEW c \in Updates, cfg' = Merged(c) PROVE CapStays'
      <3>1. c.BackoffMaxMinutes = 0
        BY FixedCap DEF FixedCap
      <3> QED BY <2>1, <3>1 DEF Merged, Given
    <2> QED BY <2>1, SettingsMove
  <1>3. Caps = {InitCfg.BackoffMaxMinutes}
    BY FixedCap DEF FixedCap, Caps
  <1>4. ASSUME TypeOK, CapInv, CapStays PROVE IdleIsUnlocked
    <2>1. Window \in Nat /\ Window > InitCfg.BackoffMaxMinutes
      BY <1>4, WindowType DEF TypeOK
    <2>2. ASSUME NEW t \in Tracker, CapOK(t) PROVE UnlockedWhenIdle(t)
      <3>1. t.lockoutUntil <= t.lastSeen + InitCfg.BackoffMaxMinutes
        BY <1>3, <2>2 DEF CapOK, WithinCap
      <3>2. /\ t.lockoutUntil \in Nat /\ t.lastSeen \in Nat /\ now \in Nat
            /\ InitCfg.BackoffMaxMinutes \in Nat
        BY <1>4, SettingsAssumption DEF Tracker, TypeOK, Settings
      <3> QED BY <2>1, <3>1, <3>2 DEF UnlockedWhenIdle
    <2> QED BY <1>4, <2>2 DEF IdleIsUnlocked, CapInv, TypeOK, MapOf
  <1> HIDE DEF CapStays
  <1>5. Spec => []CapStays
    BY <1>1, <1>2, PTL DEF Spec
  <1> QED BY <1>4, <1>5, CapInvariant, PTL

-----------------------------------------------------------------------------
(* The backoff counts every failure beyond the threshold *)

FixedThreshold == \A c \in Updates : c.MaxAttempts = 0

Tracks(t) == t.backoffStep = StepOf(t.failures)

LEMMA TracksStruck ==
  ASSUME TypeOK, NEW t \in Tracker, Tracks(t) PROVE Tracks(Struck(t))
  <1>1. /\ Struck(t).failures = t.failures + 1
        /\ Struck(t).backoffStep = IF t.failures + 1 >= cfg.MaxAttempts
                                   THEN t.backoffStep + 1 ELSE t.backoffStep
    BY DEF Struck, Crosses
  <1>2. t.failures \in Nat /\ t.backoffStep \in Nat /\ cfg.MaxAttempts \in Nat
    BY DEF Tracker, TypeOK, Settings
  <1> QED BY <1>1, <1>2 DEF Tracks, StepOf

LEMMA TracksZero ==
  ASSUME TypeOK, NEW t, t.failures = 0, t.backoffStep = 0 PROVE Tracks(t)
  BY DEF Tracks, StepOf, TypeOK, Settings, Effective

LEMMA TracksMap ==
  ASSUME TypeOK, NEW K, NEW m, MapOf(m, K, Tracker), \A k \in DOMAIN m : Tracks(m[k]),
         NEW n, Steps(m, n), NEW k \in DOMAIN n
  PROVE  Tracks(n[k])
  <1>1. CASE k \in DOMAIN m /\ n[k] = m[k]
    BY <1>1
  <1>2. CASE k \in DOMAIN m /\ n[k] = Clean(m[k])
    <2>1. m[k] \in Tracker /\ Tracks(m[k])
      BY <1>2 DEF MapOf
    <2> QED BY <1>2, <2>1, CleanType, TracksZero
  <1>3. CASE n[k] = Struck(GetOrCreate(m, k))
    <2>1. GetOrCreate(m, k) \in Tracker
      BY GetOrCreateType DEF TypeOK
    <2>2. Tracks(GetOrCreate(m, k))
      <3>1. CASE k \in DOMAIN m
        BY <3>1 DEF GetOrCreate
      <3>2. CASE k \notin DOMAIN m
        <4>1. NewTracker.failures = 0 /\ NewTracker.backoffStep = 0
          BY DEF NewTracker
        <4> QED BY <3>2, <4>1, TracksZero DEF GetOrCreate
      <3> QED BY <3>1, <3>2
    <2> QED BY <1>3, <2>1, <2>2, TracksStruck
  <1> QED BY <1>1, <1>2, <1>3 DEF Steps

\* RecordFailure takes one backoff step for each failure from the threshold on,
\* and clean forgets failures and steps together, so concurrent requests can
\* neither skip a step nor take one twice.
THEOREM BackoffIsExact == ASSUME FixedThreshold PROVE Spec => []BackoffTracksFailures
  <1> DEFINE Inv == BackoffTracksFailures
  <1>1. Init => Inv
    BY DEF Init, BackoffTracksFailures, Empty
  <1>2. TypeOK /\ Inv /\ [Next]_vars => Inv'
    <2> SUFFICES ASSUME TypeOK, Inv, [Next]_vars PROVE Inv'
      OBVIOUS
    <2>1. cfg'.MaxAttempts = cfg.MaxAttempts
      <3>1. ASSUME NEW c \in Updates, cfg' = Merged(c)
            PROVE  cfg'.MaxAttempts = cfg.MaxAttempts
        <4>1. c.MaxAttempts = 0
          BY FixedThreshold DEF FixedThreshold
        <4> QED BY <3>1, <4>1 DEF Merged, Given
      <3> QED BY <3>1, SettingsMove
    <2>2. /\ \A k \in DOMAIN byIP' : Tracks(byIP'[k])
          /\ \A k \in DOMAIN byUser' : Tracks(byUser'[k])
      BY TrackerSteps, TracksMap DEF TypeOK, BackoffTracksFailures, Tracks
    <2> QED BY <2>1, <2>2 DEF BackoffTracksFailures, Tracks, StepOf
  <1> HIDE DEF Inv
  <1>3. Inv => BackoffTracksFailures
    BY DEF Inv
  <1> QED BY <1>1, <1>2, <1>3, TypeCorrect, PTL DEF Spec

-----------------------------------------------------------------------------
(* Nobody is admitted on a locked key *)

\* A request in progress either was there before, or has just seen its two
\* trackers unlocked.
LEMMA AttemptSteps ==
  ASSUME TypeOK, [Next]_vars, NEW r \in DOMAIN attempt'
  PROVE  \/ r \in DOMAIN attempt /\ attempt'[r] = attempt[r]
         \/ /\ attempt'[r].at = now'
            /\ ~Locked(byIP, attempt[r].ip)'
            /\ ~Locked(byUser, attempt[r].user)'
  <1> DEFINE Goal == \/ r \in DOMAIN attempt /\ attempt'[r] = attempt[r]
                     \/ /\ attempt'[r].at = now'
                        /\ ~Locked(byIP, attempt[r].ip)'
                        /\ ~Locked(byUser, attempt[r].user)'
  <1>1. CASE attempt' = attempt
    BY <1>1
  <1>2. ASSUME NEW q, attempt' = Drop(attempt, q) PROVE Goal
    BY <1>2 DEF Drop
  <1>3. ASSUME NEW q \in Requests, NEW ip \in IPs, NEW user \in Users,
               Admit(q, ip, user)
        PROVE  Goal
    <2>1. attempt' = Put(attempt, q, [ip |-> ip, user |-> user, at |-> now])
          /\ now' = now
      BY <1>3 DEF Admit
    <2>2. CASE r = q
      <3>1. attempt'[r] = [ip |-> ip, user |-> user, at |-> now]
        BY <2>1, <2>2 DEF Put
      <3> QED BY <3>1, <2>1, <1>3 DEF Admit, Locked
    <2>3. CASE r # q
      BY <2>1, <2>3 DEF Put
    <2> QED BY <2>2, <2>3
  <1> HIDE DEF Goal
  <1>4. \/ attempt' = attempt
        \/ \E q : attempt' = Drop(attempt, q)
        \/ \E q \in Requests, ip \in IPs, user \in Users : Admit(q, ip, user)
    BY DEF Next, Login, RefusedByIP, RefusedByUser, LoginFails, LoginSucceeds,
           Administer, GetState, UpdateConfig, ResetByIP, ResetByUsername,
           ResetAll, Tick, vars
  <1>5. CASE \E q : attempt' = Drop(attempt, q)
    BY <1>2, <1>5 DEF Goal
  <1>6. CASE \E q \in Requests, ip \in IPs, user \in Users : Admit(q, ip, user)
    BY <1>3, <1>6 DEF Goal
  <1> QED BY <1>1, <1>4, <1>5, <1>6 DEF Goal

AdmittedBefore(m, k, at) == Locked(m, k) => at <= m[k].lastSeen

LEMMA AdmittedOld ==
  ASSUME TypeOK, [Next]_vars, NEW K, NEW m, MapOf(m, K, Tracker), NEW n, Steps(m, n),
         NEW k, NEW at \in Nat, at <= now, AdmittedBefore(m, k, at),
         k \in DOMAIN n, now' < n[k].lockoutUntil
  PROVE  at <= n[k].lastSeen
  <1>1. now \in Nat /\ now' \in Nat /\ now <= now'
    BY ClockMoves DEF TypeOK
  <1>2. CASE k \in DOMAIN m /\ n[k] = m[k]
    <2>1. m[k] \in Tracker
      BY <1>2 DEF MapOf
    <2>2. Locked(m, k)
      BY <1>1, <1>2, <2>1 DEF Locked, Tracker
    <2> QED BY <1>2, <2>2 DEF AdmittedBefore
  <1>3. CASE k \in DOMAIN m /\ n[k] = Clean(m[k])
    <2>1. m[k] \in Tracker
      BY <1>3 DEF MapOf
    <2>2. n[k].lastSeen = m[k].lastSeen /\ n[k].lockoutUntil \in {0, m[k].lockoutUntil}
      BY <1>3, <2>1, CleanType
    <2>3. Locked(m, k)
      BY <1>1, <1>3, <2>1, <2>2 DEF Locked, Tracker
    <2> QED BY <2>2, <2>3 DEF AdmittedBefore
  <1>4. CASE n[k] = Struck(GetOrCreate(m, k))
    <2>1. GetOrCreate(m, k) \in Tracker
      BY <1>1, GetOrCreateType
    <2> QED BY <1>4, <2>1, StruckType
  <1> QED BY <1>2, <1>3, <1>4 DEF Steps

AdmitInv == \A r \in DOMAIN attempt :
               /\ attempt[r].at <= now
               /\ AdmittedBefore(byIP, attempt[r].ip, attempt[r].at)
               /\ AdmittedBefore(byUser, attempt[r].user, attempt[r].at)

\* Check admits only while both trackers are unlocked, and every lock dates
\* itself by lastSeen, so a request running on a locked key is older than the
\* lock: concurrency lets stragglers finish, it admits nobody.
THEOREM NobodyIsAdmittedLocked == Spec => []LockedAdmitsNobody
  <1>1. Init => AdmitInv
    BY DEF Init, AdmitInv, Empty
  <1>2. TypeOK /\ AdmitInv /\ [Next]_vars => AdmitInv'
    <2> SUFFICES ASSUME TypeOK, AdmitInv, [Next]_vars, NEW r \in DOMAIN attempt'
                 PROVE  /\ attempt'[r].at <= now'
                        /\ AdmittedBefore(byIP, attempt[r].ip, attempt[r].at)'
                        /\ AdmittedBefore(byUser, attempt[r].user, attempt[r].at)'
      BY DEF AdmitInv
    <2>1. now \in Nat /\ now' \in Nat /\ now <= now'
      BY ClockMoves DEF TypeOK
    <2>2. CASE r \in DOMAIN attempt /\ attempt'[r] = attempt[r]
      <3>1. attempt[r].at \in Nat /\ attempt[r].at <= now
        BY <2>2 DEF AdmitInv, TypeOK, MapOf, Attempt
      <3>2. /\ AdmittedBefore(byIP, attempt[r].ip, attempt[r].at)
            /\ AdmittedBefore(byUser, attempt[r].user, attempt[r].at)
        BY <2>2 DEF AdmitInv
      <3>3. /\ MapOf(byIP, IPs, Tracker) /\ MapOf(byUser, Users, Tracker)
            /\ Steps(byIP, byIP') /\ Steps(byUser, byUser')
        BY TrackerSteps DEF TypeOK
      <3>4. AdmittedBefore(byIP, attempt[r].ip, attempt[r].at)'
        BY <2>2, <3>1, <3>2, <3>3, AdmittedOld DEF AdmittedBefore, Locked
      <3>5. AdmittedBefore(byUser, attempt[r].user, attempt[r].at)'
        BY <2>2, <3>1, <3>2, <3>3, AdmittedOld DEF AdmittedBefore, Locked
      <3> QED BY <2>1, <2>2, <3>1, <3>4, <3>5
    <2>3. CASE /\ attempt'[r].at = now'
               /\ ~Locked(byIP, attempt[r].ip)'
               /\ ~Locked(byUser, attempt[r].user)'
      BY <2>1, <2>3 DEF AdmittedBefore
    <2> QED BY <2>2, <2>3, AttemptSteps
  <1>3. AdmitInv => LockedAdmitsNobody
    BY DEF AdmitInv, AdmittedBefore, LockedAdmitsNobody
  <1> QED BY <1>1, <1>2, <1>3, TypeCorrect, PTL DEF Spec

-----------------------------------------------------------------------------
(* The backoff grows *)

\* The provers know of powers of two that they count subsets.
LEMMA PowersGrow ==
  ASSUME NEW n \in Nat
  PROVE  2 ^ n \in Nat /\ 1 <= 2 ^ n /\ 2 ^ (n + 1) \in Nat /\ 2 ^ n <= 2 ^ (n + 1)
  <1> DEFINE S == 1 .. n
             T == 1 .. n + 1
  <1>1. IsFiniteSet(S) /\ Cardinality(S) = n /\ IsFiniteSet(T) /\ Cardinality(T) = n + 1
    <2>1. \A m \in Nat : IsFiniteSet(1 .. m) /\ Cardinality(1 .. m) = m
      BY FS_Interval
    <2>2. n + 1 \in Nat
      OBVIOUS
    <2> QED BY <2>1, <2>2
  <1>2. S \subseteq T
    OBVIOUS
  <1> HIDE DEF S, T
  <1>3. /\ IsFiniteSet(SUBSET S) /\ Cardinality(SUBSET S) = 2 ^ n
        /\ IsFiniteSet(SUBSET T) /\ Cardinality(SUBSET T) = 2 ^ (n + 1)
    BY <1>1, FS_SUBSET, Zenon
  <1>4. Cardinality(SUBSET S) \in Nat /\ Cardinality(SUBSET T) \in Nat
    BY <1>3, FS_CardinalityType
  <1>5. Cardinality(SUBSET S) <= Cardinality(SUBSET T)
    <2>1. SUBSET S \in SUBSET (SUBSET T)
      BY <1>2
    <2> HIDE DEF S, T
    <2> QED BY <1>3, <2>1, FS_Subset, Zenon
  <1>6. Cardinality(SUBSET S) # 0
    <2>1. SUBSET S # {}
      BY {} \in SUBSET S
    <2> QED BY <1>3, <2>1, FS_EmptySet
  <1> QED BY <1>3, <1>4, <1>5, <1>6

\* A lock is never of no length, and the next is never shorter.
LEMMA LockoutGrows ==
  ASSUME cfg \in Settings, Effective(cfg), NEW step \in Nat
  PROVE  /\ ComputeLockout(step) \in 1 .. cfg.BackoffMaxMinutes
         /\ ComputeLockout(step + 1) \in 1 .. cfg.BackoffMaxMinutes
         /\ ComputeLockout(step) <= ComputeLockout(step + 1)
  <1> DEFINE b == cfg.BackoffBase
             m == cfg.BackoffMaxMinutes
             p == 2 ^ step
             q == 2 ^ (step + 1)
  <1>1. b \in Nat /\ m \in Nat /\ b >= 1 /\ m >= 1
    BY DEF Settings, Effective
  <1>2. p \in Nat /\ q \in Nat /\ 1 <= p /\ p <= q
    BY PowersGrow
  <1>3. /\ ComputeLockout(step) = IF b * p \in 0 .. m THEN b * p ELSE m
        /\ ComputeLockout(step + 1) = IF b * q \in 0 .. m THEN b * q ELSE m
    BY DEF ComputeLockout
  <1> HIDE DEF b, m, p, q
  <1>4. b * p \in Nat /\ b * q \in Nat /\ 1 <= b * p /\ b * p <= b * q
    <2>1. \A x, y, z \in Nat : x >= 1 /\ y >= 1 => x * y \in Nat /\ 1 <= x * y
      OBVIOUS
    <2>2. \A x, y, z \in Nat : y <= z => x * y <= x * z
      OBVIOUS
    <2> QED BY <1>1, <1>2, <2>1, <2>2
  <1> QED BY <1>1, <1>3, <1>4 DEF m

-----------------------------------------------------------------------------
(* A lock ends by time, by an administrator or by a straggler's success *)

\* Neither a failure nor a cleaning ends a lock before its time; only dropping
\* the tracker does.
LEMMA OnlyDroppingUnlocks ==
  ASSUME TypeOK, [Next]_vars, NEW K, NEW m, MapOf(m, K, Tracker), NEW n, Steps(m, n),
         \A k \in DOMAIN m : UnlockedWhenIdle(m[k]),
         NEW k, Locked(m, k), k \in DOMAIN n, now' < m[k].lockoutUntil
  PROVE  now' < n[k].lockoutUntil
  <1>1. k \in DOMAIN m /\ now < m[k].lockoutUntil /\ m[k] \in Tracker
    BY DEF Locked, MapOf
  <1>2. CASE n[k] = m[k]
    BY <1>2
  <1>3. CASE n[k] = Clean(m[k])
    <2>1. ~(now - m[k].lastSeen > Window)
      BY <1>1, ClockMoves DEF UnlockedWhenIdle, TypeOK, Tracker
    <2> QED BY <1>1, <1>3, <2>1, CleanType
  <1>4. CASE n[k] = Struck(GetOrCreate(m, k)) /\ UNCHANGED <<now, cfg>>
    <2>1. n[k] = Struck(m[k]) /\ m[k].backoffStep \in Nat
      BY <1>1, <1>4 DEF GetOrCreate, Tracker
    <2>2. ComputeLockout(m[k].backoffStep) \in 1 .. cfg.BackoffMaxMinutes
      BY <2>1, LockoutGrows DEF TypeOK
    <2>3. n[k].lockoutUntil = m[k].lockoutUntil
          \/ n[k].lockoutUntil = now + ComputeLockout(m[k].backoffStep)
      BY <2>1 DEF Struck
    <2>4. now \in Nat /\ cfg.BackoffMaxMinutes \in Nat
      BY DEF TypeOK, Settings
    <2> QED BY <1>4, <2>2, <2>3, <2>4
  <1> QED BY <1>1, <1>2, <1>3, <1>4 DEF Steps

\* Who drops a tracker.
LEMMA WhoDrops ==
  ASSUME [Next]_vars
  PROVE  /\ \A ip \in DOMAIN byIP : ip \notin DOMAIN byIP' =>
                \/ ResetAll \/ ResetByIP(ip)
                \/ \E r \in DOMAIN attempt : LoginSucceeds(r) /\ attempt[r].ip = ip
         /\ \A user \in DOMAIN byUser : user \notin DOMAIN byUser' =>
                \/ ResetAll \/ ResetByUsername(user)
                \/ \E r \in DOMAIN attempt : LoginSucceeds(r) /\ attempt[r].user = user
  <1> DEFINE Goal ==
        /\ \A ip \in DOMAIN byIP : ip \notin DOMAIN byIP' =>
              \/ ResetAll \/ ResetByIP(ip)
              \/ \E r \in DOMAIN attempt : LoginSucceeds(r) /\ attempt[r].ip = ip
        /\ \A user \in DOMAIN byUser : user \notin DOMAIN byUser' =>
              \/ ResetAll \/ ResetByUsername(user)
              \/ \E r \in DOMAIN attempt : LoginSucceeds(r) /\ attempt[r].user = user
  <1>1. ASSUME NEW ip \in IPs, RefusedByIP(ip) PROVE Goal
    BY <1>1 DEF RefusedByIP, CleanKey
  <1>2. ASSUME NEW ip \in IPs, NEW user \in Users, RefusedByUser(ip, user) PROVE Goal
    BY <1>2 DEF RefusedByUser, CleanKey
  <1>3. ASSUME NEW r, NEW ip \in IPs, NEW user \in Users, Admit(r, ip, user) PROVE Goal
    BY <1>3 DEF Admit, CleanKey
  <1>4. ASSUME NEW r, LoginFails(r) PROVE Goal
    BY <1>4 DEF LoginFails, Put
  <1>5. ASSUME NEW r, LoginSucceeds(r) PROVE Goal
    <2>1. r \in DOMAIN attempt /\ byIP' = Drop(byIP, attempt[r].ip)
          /\ byUser' = Drop(byUser, attempt[r].user)
      BY <1>5 DEF LoginSucceeds
    <2>2. /\ \A ip \in DOMAIN byIP : ip \notin DOMAIN byIP' => attempt[r].ip = ip
          /\ \A user \in DOMAIN byUser : user \notin DOMAIN byUser' => attempt[r].user = user
      BY <2>1 DEF Drop
    <2> QED BY <1>5, <2>1, <2>2
  <1>6. CASE GetState
    BY <1>6 DEF GetState, CleanAll
  <1>7. ASSUME NEW ip \in IPs, ResetByIP(ip) PROVE Goal
    <2>1. byIP' = Drop(byIP, ip) /\ byUser' = byUser
      BY <1>7 DEF ResetByIP
    <2>2. \A k \in DOMAIN byIP : k \notin DOMAIN byIP' => k = ip
      BY <2>1 DEF Drop
    <2> QED BY <1>7, <2>1, <2>2
  <1>8. ASSUME NEW user \in Users, ResetByUsername(user) PROVE Goal
    <2>1. byUser' = Drop(byUser, user) /\ byIP' = byIP
      BY <1>8 DEF ResetByUsername
    <2>2. \A k \in DOMAIN byUser : k \notin DOMAIN byUser' => k = user
      BY <2>1 DEF Drop
    <2> QED BY <1>8, <2>1, <2>2
  <1>9. CASE UNCHANGED <<byIP, byUser>>
    BY <1>9
  <1>10. UNCHANGED vars \/ Tick \/ (\E c \in Updates : UpdateConfig(c)) => UNCHANGED <<byIP, byUser>>
    BY DEF vars, Tick, UpdateConfig
  <1> HIDE DEF Goal
  <1>11. Goal
    BY <1>1, <1>2, <1>3, <1>4, <1>5, <1>6, <1>7, <1>8, <1>9, <1>10 DEF Next, Login, Administer, Goal
  <1> QED BY <1>11 DEF Goal

\* While the cap is left alone - the window may change - nothing but time, an
\* administrator or the success of a request admitted before the lock ends it:
\* no failure, refusal or listing does, for any number of keys and requests.
THEOREM LocksEndLegitimately == ASSUME FixedCap PROVE Spec => LockEndsLegitimately
  <1> DEFINE Legitimate ==
        /\ \A ip \in IPs :
             Locked(byIP, ip) /\ ~Locked(byIP, ip)'
               => \/ now' >= byIP[ip].lockoutUntil
                  \/ ResetAll \/ ResetByIP(ip)
                  \/ \E r \in DOMAIN attempt :
                        /\ LoginSucceeds(r) /\ attempt[r].ip = ip
                        /\ attempt[r].at <= byIP[ip].lastSeen
        /\ \A user \in Users :
             Locked(byUser, user) /\ ~Locked(byUser, user)'
               => \/ now' >= byUser[user].lockoutUntil
                  \/ ResetAll \/ ResetByUsername(user)
                  \/ \E r \in DOMAIN attempt :
                        /\ LoginSucceeds(r) /\ attempt[r].user = user
                        /\ attempt[r].at <= byUser[user].lastSeen
  <1>1. ASSUME TypeOK, IdleIsUnlocked, LockedAdmitsNobody, [Next]_vars PROVE Legitimate
    <2>0. /\ MapOf(byIP, IPs, Tracker) /\ MapOf(byUser, Users, Tracker)
          /\ Steps(byIP, byIP') /\ Steps(byUser, byUser') /\ now' \in Nat
      BY <1>1, TrackerSteps, ClockMoves DEF TypeOK
    <2>1. ASSUME NEW ip \in IPs, Locked(byIP, ip), ~Locked(byIP, ip)', ~(now' >= byIP[ip].lockoutUntil)
          PROVE  \/ ResetAll \/ ResetByIP(ip)
                 \/ \E r \in DOMAIN attempt :
                       /\ LoginSucceeds(r) /\ attempt[r].ip = ip
                       /\ attempt[r].at <= byIP[ip].lastSeen
      <3>1. ip \in DOMAIN byIP /\ now' < byIP[ip].lockoutUntil
        BY <2>0, <2>1 DEF Locked, MapOf, Tracker
      <3>2. ip \notin DOMAIN byIP'
        BY <1>1, <2>0, <2>1, <3>1, OnlyDroppingUnlocks DEF Locked, IdleIsUnlocked
      <3>3. \A r \in DOMAIN attempt : attempt[r].ip = ip => attempt[r].at <= byIP[ip].lastSeen
        BY <1>1, <2>1 DEF LockedAdmitsNobody
      <3> QED BY <1>1, <3>1, <3>2, <3>3, WhoDrops
    <2>2. ASSUME NEW user \in Users, Locked(byUser, user), ~Locked(byUser, user)',
                 ~(now' >= byUser[user].lockoutUntil)
          PROVE  \/ ResetAll \/ ResetByUsername(user)
                 \/ \E r \in DOMAIN attempt :
                       /\ LoginSucceeds(r) /\ attempt[r].user = user
                       /\ attempt[r].at <= byUser[user].lastSeen
      <3>1. user \in DOMAIN byUser /\ now' < byUser[user].lockoutUntil
        BY <2>0, <2>2 DEF Locked, MapOf, Tracker
      <3>2. user \notin DOMAIN byUser'
        BY <1>1, <2>0, <2>2, <3>1, OnlyDroppingUnlocks DEF Locked, IdleIsUnlocked
      <3>3. \A r \in DOMAIN attempt : attempt[r].user = user => attempt[r].at <= byUser[user].lastSeen
        BY <1>1, <2>2 DEF LockedAdmitsNobody
      <3> QED BY <1>1, <3>1, <3>2, <3>3, WhoDrops
    <2> QED BY <2>1, <2>2
  <1>2. Spec => []IdleIsUnlocked
    BY CleanReleasesNothing, FixedCap
  <1>3. TypeOK /\ IdleIsUnlocked /\ LockedAdmitsNobody /\ [Next]_vars => [Legitimate]_vars
    BY <1>1
  <1> QED BY <1>2, <1>3, TypeCorrect, NobodyIsAdmittedLocked, PTL DEF Spec, LockEndsLegitimately, Legitimate

-----------------------------------------------------------------------------
(* Every lock is at least as long as the last *)

FixedBase == \A c \in Updates : c.BackoffBase = 0

\* A tracker that was ever locked has reached the threshold, and its last lock
\* was no longer than the next will be.
Level(t) == t.lockoutUntil > 0 => t.failures >= cfg.MaxAttempts
                                  /\ LockLength(t) <= ComputeLockout(t.backoffStep)

LevelInv == /\ \A k \in DOMAIN byIP : Level(byIP[k])
            /\ \A k \in DOMAIN byUser : Level(byUser[k])

\* What a failure does to the lock of a tracker past the threshold, or not.
LEMMA StruckLock ==
  ASSUME TypeOK, NEW t \in Tracker, Level(t)
  PROVE  /\ Level(Struck(t))
         /\ t.lockoutUntil > 0 => LockLength(Struck(t)) >= LockLength(t)
  <1> DEFINE s == t.backoffStep
             l == ComputeLockout(s)
             next == ComputeLockout(s + 1)
  <1>1. /\ t.failures \in Nat /\ s \in Nat /\ t.lockoutUntil \in Nat /\ t.lastSeen \in Nat
        /\ now \in Nat /\ cfg.MaxAttempts \in Nat /\ cfg.BackoffMaxMinutes \in Nat
    BY DEF Tracker, TypeOK, Settings
  <1>2. l \in Nat /\ next \in Nat /\ l <= next
    BY <1>1, LockoutGrows DEF TypeOK
  <1> HIDE DEF l, next
  <1>3. CASE Crosses(t)
    <2>1. /\ Struck(t).failures = t.failures + 1 /\ Struck(t).lastSeen = now
          /\ Struck(t).lockoutUntil = now + l /\ Struck(t).backoffStep = s + 1
      BY <1>3 DEF Struck, l
    <2>2. LockLength(Struck(t)) = l
      BY <1>1, <1>2, <2>1 DEF LockLength
    <2>3. Level(Struck(t))
      BY <1>1, <1>2, <1>3, <2>1, <2>2 DEF Level, Crosses, next
    <2>4. t.lockoutUntil > 0 => LockLength(t) <= l
      BY DEF Level, l
    <2> QED BY <1>1, <1>2, <2>2, <2>3, <2>4 DEF LockLength
  <1>4. CASE ~Crosses(t)
    <2>1. Struck(t).lockoutUntil = t.lockoutUntil
      BY <1>4 DEF Struck
    <2>2. ~(t.lockoutUntil > 0)
      BY <1>1, <1>4 DEF Level, Crosses
    <2> QED BY <2>1, <2>2 DEF Level
  <1> QED BY <1>3, <1>4

LEMMA LevelMap ==
  ASSUME TypeOK, NEW K, NEW m, MapOf(m, K, Tracker), \A k \in DOMAIN m : Level(m[k]),
         NEW n, Steps(m, n), NEW k \in DOMAIN n
  PROVE  /\ Level(n[k])
         /\ (k \in DOMAIN m /\ m[k].lockoutUntil > 0 /\ n[k].lastSeen > m[k].lastSeen)
               => LockLength(n[k]) >= LockLength(m[k])
  <1>1. CASE k \in DOMAIN m /\ n[k] = m[k]
    <2>1. m[k].lastSeen \in Nat
      BY <1>1 DEF MapOf, Tracker
    <2> QED BY <1>1, <2>1
  <1>2. CASE k \in DOMAIN m /\ n[k] = Clean(m[k])
    <2>1. m[k] \in Tracker /\ m[k].lastSeen \in Nat
      BY <1>2 DEF MapOf, Tracker
    <2>2. n[k].lastSeen = m[k].lastSeen /\ (n[k] = m[k] \/ n[k].lockoutUntil = 0)
      BY <1>2, <2>1, CleanType
    <2> QED BY <1>2, <2>1, <2>2 DEF Level
  <1>3. CASE n[k] = Struck(GetOrCreate(m, k))
    <2>1. CASE k \in DOMAIN m
      <3>1. n[k] = Struck(m[k]) /\ m[k] \in Tracker /\ Level(m[k])
        BY <1>3, <2>1 DEF GetOrCreate, MapOf
      <3> QED BY <3>1, StruckLock
    <2>2. CASE k \notin DOMAIN m
      <3>1. n[k] = Struck(NewTracker) /\ NewTracker \in Tracker
        BY <1>3, <2>2, GetOrCreateType DEF GetOrCreate, TypeOK
      <3>2. Level(NewTracker)
        BY DEF Level, NewTracker
      <3> QED BY <2>2, <3>1, <3>2, StruckLock
    <2> QED BY <2>1, <2>2
  <1> QED BY <1>1, <1>2, <1>3 DEF Steps

\* While base, cap and threshold are left alone - the window may change - a key
\* locked again without having been reset or forgotten is locked for at least as
\* long as before, for any base and cap and however high the step gets.
THEOREM BackoffEscalates ==
  ASSUME FixedCap, FixedBase, FixedThreshold
  PROVE  Spec => LocksEscalate
  <1>1. Init => LevelInv
    BY DEF Init, LevelInv, Empty
  <1>2. ASSUME TypeOK, LevelInv, [Next]_vars
        PROVE  LevelInv' /\ Escalates(byIP, byIP') /\ Escalates(byUser, byUser')
    <2>1. /\ cfg'.MaxAttempts = cfg.MaxAttempts /\ cfg'.BackoffBase = cfg.BackoffBase
          /\ cfg'.BackoffMaxMinutes = cfg.BackoffMaxMinutes
      <3>1. ASSUME NEW c \in Updates, cfg' = Merged(c)
            PROVE  /\ cfg'.MaxAttempts = cfg.MaxAttempts /\ cfg'.BackoffBase = cfg.BackoffBase
                   /\ cfg'.BackoffMaxMinutes = cfg.BackoffMaxMinutes
        <4>1. c.MaxAttempts = 0 /\ c.BackoffBase = 0 /\ c.BackoffMaxMinutes = 0
          BY FixedCap, FixedBase, FixedThreshold DEF FixedCap, FixedBase, FixedThreshold
        <4> QED BY <3>1, <4>1 DEF Merged, Given
      <3> QED BY <1>2, <3>1, SettingsMove
    <2>2. /\ MapOf(byIP, IPs, Tracker) /\ MapOf(byUser, Users, Tracker)
          /\ Steps(byIP, byIP') /\ Steps(byUser, byUser')
      BY <1>2, TrackerSteps DEF TypeOK
    <2>3. /\ \A k \in DOMAIN byIP' : Level(byIP'[k])
          /\ \A k \in DOMAIN byUser' : Level(byUser'[k])
      BY <1>2, <2>2, LevelMap DEF LevelInv
    <2>4. LevelInv'
      BY <2>1, <2>3 DEF LevelInv, Level, ComputeLockout
    <2>5. Escalates(byIP, byIP') /\ Escalates(byUser, byUser')
      BY <1>2, <2>2, LevelMap DEF LevelInv, Escalates
    <2> QED BY <2>4, <2>5
  <1>3. TypeOK /\ LevelInv /\ [Next]_vars
          => LevelInv' /\ [Escalates(byIP, byIP') /\ Escalates(byUser, byUser')]_vars
    BY <1>2
  <1> QED BY <1>1, <1>3, TypeCorrect, PTL DEF Spec, LocksEscalate

-----------------------------------------------------------------------------
(* The limiter implements the abstract gate *)

LEMMA LockedCleaned ==
  ASSUME now \in Nat, NEW t, now < Clean(t).lockoutUntil
  PROVE  now < t.lockoutUntil
  BY DEF Clean

\* Cleaning locks nothing.
LEMMA CleanUnlocks ==
  ASSUME now \in Nat, NEW m
  PROVE  /\ LockedKeys(CleanAll(m)) \subseteq LockedKeys(m)
         /\ \A k : LockedKeys(CleanKey(m, k)) \subseteq LockedKeys(m)
  BY LockedCleaned DEF LockedKeys, Locked, CleanAll, CleanKey

LEMMA DropUnlocks ==
  ASSUME NEW m, NEW k PROVE LockedKeys(Drop(m, k)) = LockedKeys(m) \ {k}
  BY DEF LockedKeys, Locked, Drop

Requested == [r \in DOMAIN attempt |-> [ip |-> attempt[r].ip, user |-> attempt[r].user]]

LEMMA GateLetsIn ==
  ASSUME TypeOK, NEW r \in Requests, NEW ip \in IPs, NEW user \in Users,
         Admit(r, ip, user)
  PROVE  Gate!LetIn(r, ip, user)
  <1>1. /\ r \notin DOMAIN attempt /\ UNCHANGED now
        /\ byIP' = CleanKey(byIP, ip) /\ byUser' = CleanKey(byUser, user)
        /\ ~Locked(CleanKey(byIP, ip), ip) /\ ~Locked(CleanKey(byUser, user), user)
        /\ attempt' = Put(attempt, r, [ip |-> ip, user |-> user, at |-> now])
    BY DEF Admit
  <1>2. LockedKeys(byIP)' = LockedKeys(CleanKey(byIP, ip))
    BY <1>1 DEF LockedKeys, Locked
  <1>3. LockedKeys(byUser)' = LockedKeys(CleanKey(byUser, user))
    BY <1>1 DEF LockedKeys, Locked
  <1>4. LockedKeys(byIP)' \subseteq LockedKeys(byIP) \ {ip}
    BY <1>1, <1>2, CleanUnlocks DEF LockedKeys, TypeOK
  <1>5. LockedKeys(byUser)' \subseteq LockedKeys(byUser) \ {user}
    BY <1>1, <1>3, CleanUnlocks DEF LockedKeys, TypeOK
  <1>6. Requested' = [q \in DOMAIN Requested \cup {r} |->
                        IF q = r THEN [ip |-> ip, user |-> user] ELSE Requested[q]]
    BY <1>1 DEF Requested, Put
  <1> QED BY <1>1, <1>4, <1>5, <1>6 DEF Gate!LetIn, Requested

LEMMA GateConcludes ==
  ASSUME TypeOK, NEW r \in Requests, LoginFails(r) \/ LoginSucceeds(r)
  PROVE  Gate!Conclude(r)
  <1> DEFINE ip == attempt[r].ip  user == attempt[r].user
  <1>1. /\ r \in DOMAIN attempt /\ UNCHANGED now /\ attempt' = Drop(attempt, r)
        /\ \/ byIP' = Drop(byIP, ip) \/ \E t : byIP' = Put(byIP, ip, t)
        /\ \/ byUser' = Drop(byUser, user) \/ \E t : byUser' = Put(byUser, user, t)
    BY DEF LoginFails, LoginSucceeds
  <1>2. LockedKeys(byIP)' \ {ip} = LockedKeys(byIP) \ {ip}
    BY <1>1 DEF LockedKeys, Locked, Drop, Put
  <1>3. LockedKeys(byUser)' \ {user} = LockedKeys(byUser) \ {user}
    BY <1>1 DEF LockedKeys, Locked, Drop, Put
  <1>4. Requested' = [q \in DOMAIN Requested \ {r} |-> Requested[q]]
    BY <1>1 DEF Requested, Drop
  <1>5. Requested[r].ip = ip /\ Requested[r].user = user
    BY <1>1 DEF Requested
  <1> QED BY <1>1, <1>2, <1>3, <1>4, <1>5 DEF Gate!Conclude, Requested

LEMMA GateReleases ==
  ASSUME TypeOK, [Next]_vars, UNCHANGED attempt,
         \/ Administer
         \/ Tick
         \/ UNCHANGED vars
         \/ \E ip \in IPs : RefusedByIP(ip)
         \/ \E ip \in IPs, user \in Users : RefusedByUser(ip, user)
  PROVE  Gate!Release
  <1> SUFFICES /\ LockedKeys(byIP)' \subseteq LockedKeys(byIP)
               /\ LockedKeys(byUser)' \subseteq LockedKeys(byUser)
    BY DEF Gate!Release
  <1>0. now \in Nat
    BY DEF TypeOK
  <1> DEFINE Less(m, n) == \/ n = m \/ n = CleanAll(m) \/ n = Empty
                           \/ \E k : n = CleanKey(m, k) \/ n = Drop(m, k)
  <1>1. ASSUME UNCHANGED now, NEW m, NEW n, Less(m, n)
        PROVE  LockedKeys(n) \subseteq LockedKeys(m)
    <2>1. LockedKeys(Empty) = {}
      BY DEF LockedKeys, Empty
    <2> QED BY <1>0, <1>1, <2>1, CleanUnlocks, DropUnlocks
  <1>2. ASSUME UNCHANGED now, Less(byIP, byIP'), Less(byUser, byUser')
        PROVE  /\ LockedKeys(byIP)' \subseteq LockedKeys(byIP)
               /\ LockedKeys(byUser)' \subseteq LockedKeys(byUser)
    <2>1. LockedKeys(byIP)' = LockedKeys(byIP') /\ LockedKeys(byUser)' = LockedKeys(byUser')
      BY <1>2 DEF LockedKeys, Locked
    <2> QED BY <1>1, <1>2, <2>1
  <1>3. CASE UNCHANGED <<now, byIP, byUser>>
    BY <1>2, <1>3
  <1>4. CASE UNCHANGED now /\ ~UNCHANGED <<byIP, byUser>>
    <2>1. Less(byIP, byIP') /\ Less(byUser, byUser')
      BY <1>4 DEF Administer, GetState, UpdateConfig, ResetByIP, ResetByUsername,
                  ResetAll, RefusedByIP, RefusedByUser, Tick, vars
    <2> QED BY <1>2, <1>4, <2>1
  <1>5. CASE Tick
    <2>1. now' = now + 1 /\ UNCHANGED <<byIP, byUser>>
      BY <1>5 DEF Tick
    <2>2. \A t \in Tracker : now' < t.lockoutUntil => now < t.lockoutUntil
      BY <1>0, <2>1 DEF Tracker
    <2> QED BY <2>1, <2>2 DEF LockedKeys, Locked, TypeOK, MapOf
  <1> QED BY <1>3, <1>4, <1>5
     DEF Administer, GetState, UpdateConfig, ResetByIP, ResetByUsername, ResetAll,
         RefusedByIP, RefusedByUser, Tick, vars

\* The limiter, with its counters, windows and settings, is a login gate: it
\* admits nobody on a locked key, and a key becomes locked only through the
\* verdict on a request for that key.
THEOREM ImplementsLoginGate == Spec => ImplementsGate
  <1>1. Init => Gate!GateInit
    BY DEF Init, Empty, Gate!GateInit, LockedKeys
  <1>2. TypeOK /\ [Next]_vars => [Gate!GateNext]_Gate!gateVars
    <2> SUFFICES ASSUME TypeOK, [Next]_vars PROVE Gate!GateNext
      OBVIOUS
    <2>1. ASSUME NEW r \in Requests, NEW ip \in IPs, NEW user \in Users,
                 Admit(r, ip, user)
          PROVE  Gate!GateNext
      BY <2>1, GateLetsIn DEF Gate!GateNext
    <2>2. ASSUME NEW r \in Requests, LoginFails(r) \/ LoginSucceeds(r)
          PROVE  Gate!GateNext
      BY <2>2, GateConcludes DEF Gate!GateNext
    <2>3. ASSUME \/ Administer \/ Tick \/ UNCHANGED vars
                 \/ \E ip \in IPs : RefusedByIP(ip)
                 \/ \E ip \in IPs, user \in Users : RefusedByUser(ip, user)
          PROVE  Gate!GateNext
      <3>1. UNCHANGED attempt
        BY <2>3 DEF Administer, GetState, UpdateConfig, ResetByIP, ResetByUsername,
                    ResetAll, RefusedByIP, RefusedByUser, Tick, vars
      <3> QED BY <2>3, <3>1, GateReleases DEF Gate!GateNext
    <2> QED BY <2>1, <2>2, <2>3 DEF Next, Login
  <1> QED BY <1>1, <1>2, TypeCorrect, PTL DEF Spec, ImplementsGate, Gate!GateSpec
=============================================================================
