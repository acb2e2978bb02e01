----------------------------- MODULE Bruteforce -----------------------------
(***************************************************************************)
(* internal/auth/bruteforce.go: the login rate limiter, and the three      *)
(* moments at which auth.Login uses it: Check before the credentials are   *)
(* looked at, RecordFailure or Reset when the verdict is known.  Between   *)
(* them the handler holds no lock, so other requests, the administrator    *)
(* and the clock move.                                                     *)
(*                                                                         *)
(* One tick is a minute: lockouts and the forgetting window are whole      *)
(* minutes.  Definitions named ...Variant are plausible slips of the code, *)
(* used only to show that the properties can fail; no behaviour of Spec    *)
(* uses them.                                                              *)
(***************************************************************************)
EXTENDS Integers, GoMaps

CONSTANTS IPs,          \* client addresses
          Users,        \* usernames that are tried, existing or not
          Requests,     \* concurrent executions of the Login handler
          InitCfg,      \* the settings the process starts with
          Updates,      \* bodies of PUT brute-force config, 0 = not given
          MaxTime       \* bound on the clock

VARIABLES now,          \* time.Now(), in minutes
          byIP, byUser, \* the two maps from key to attemptTracker
          cfg,          \* LoginRateConfig, guarded by the same mutex
          attempt       \* requests between Check and the verdict

vars == <<now, byIP, byUser, cfg, attempt>>

-----------------------------------------------------------------------------
(* Settings *)

Settings == [MaxAttempts : Nat, WindowMinutes : Nat,
             BackoffBase : Nat, BackoffMaxMinutes : Nat]

Effective(c) == /\ c.MaxAttempts > 0 /\ c.WindowMinutes > 0
                /\ c.BackoffBase > 0 /\ c.BackoffMaxMinutes > 0

\* NewBruteforce replaces every setting that is not positive, so a process
\* never starts with another configuration.
ASSUME SettingsAssumption == /\ InitCfg \in Settings
                             /\ Effective(InitCfg)
                             /\ Updates \subseteq Settings

ASSUME TimeAssumption == MaxTime \in Nat

Given(new, old) == IF new > 0 THEN new ELSE old

MergedVariant(c) == c

Merged(c) == [MaxAttempts       |-> Given(c.MaxAttempts, cfg.MaxAttempts),
              WindowMinutes     |-> Given(c.WindowMinutes, cfg.WindowMinutes),
              BackoffBase       |-> Given(c.BackoffBase, cfg.BackoffBase),
              BackoffMaxMinutes |-> Given(c.BackoffMaxMinutes,
                                          cfg.BackoffMaxMinutes)]

-----------------------------------------------------------------------------
(* Trackers.  lockoutUntil = 0 is the zero time.Time: before every now. *)

Tracker == [failures : Nat, lockoutUntil : Nat, backoffStep : Nat, lastSeen : Nat]

\* A request that passed Check at time `at` and has no verdict yet.
Attempt == [ip : IPs, user : Users, at : Nat]

NewTracker == [failures |-> 0, lockoutUntil |-> 0, backoffStep |-> 0, lastSeen |-> now]

GetOrCreate(m, k) == IF k \in DOMAIN m THEN m[k] ELSE NewTracker

Window == cfg.WindowMinutes * 2 * cfg.BackoffMaxMinutes

CleanVariant(t) == IF now >= t.lockoutUntil THEN [t EXCEPT !.backoffStep = 0] ELSE t

Clean(t) == IF now - t.lastSeen > Window
            THEN [failures |-> 0, lockoutUntil |-> 0, backoffStep |-> 0,
                  lastSeen |-> t.lastSeen]
            ELSE t

CleanKey(m, k) == [x \in DOMAIN m |-> IF x = k THEN Clean(m[x]) ELSE m[x]]

CleanAll(m) == [x \in DOMAIN m |-> Clean(m[x])]

Locked(m, k) == k \in DOMAIN m /\ now < m[k].lockoutUntil

ComputeLockoutVariant(step) == cfg.BackoffBase * 2 ^ step

\* min(base * 2^step, max), said so that its range is evident.
ComputeLockout(step) ==
    LET lockout == cfg.BackoffBase * 2 ^ step
    IN  IF lockout \in 0 .. cfg.BackoffMaxMinutes THEN lockout
                                                  ELSE cfg.BackoffMaxMinutes

Crosses(t) == t.failures + 1 >= cfg.MaxAttempts

StruckVariant(t) ==
    [failures     |-> t.failures + 1,
     lastSeen     |-> now,
     lockoutUntil |-> IF Crosses(t) THEN now + ComputeLockout(t.backoffStep)
                                    ELSE t.lockoutUntil,
     backoffStep  |-> t.backoffStep + 1]

StruckLateVariant(t) ==
    [failures     |-> t.failures + 1,
     lastSeen     |-> t.lastSeen,
     lockoutUntil |-> IF Crosses(t) THEN now + ComputeLockout(t.backoffStep)
                                    ELSE t.lockoutUntil,
     backoffStep  |-> IF Crosses(t) THEN t.backoffStep + 1 ELSE t.backoffStep]

Struck(t) ==
    [failures     |-> t.failures + 1,
     lastSeen     |-> now,
     lockoutUntil |-> IF Crosses(t) THEN now + ComputeLockout(t.backoffStep)
                                    ELSE t.lockoutUntil,
     backoffStep  |-> IF Crosses(t) THEN t.backoffStep + 1 ELSE t.backoffStep]

-----------------------------------------------------------------------------
(* The Login handler's use of the limiter *)

\* Check: the IP's tracker is cleaned and tested first; the username's is
\* neither cleaned nor tested when the IP is locked.
RefusedByIP(ip) ==
    /\ byIP' = CleanKey(byIP, ip)
    /\ Locked(byIP', ip)
    /\ UNCHANGED <<now, byUser, cfg, attempt>>

RefusedByUser(ip, user) ==
    /\ byIP' = CleanKey(byIP, ip)
    /\ ~Locked(byIP', ip)
    /\ byUser' = CleanKey(byUser, user)
    /\ Locked(byUser', user)
    /\ UNCHANGED <<now, cfg, attempt>>

AdmitVariant(r, ip, user) ==
    /\ r \notin DOMAIN attempt
    /\ byIP' = CleanKey(byIP, ip)
    /\ ~Locked(byIP', ip)
    /\ byUser' = CleanKey(byUser, user)
    /\ attempt' = Put(attempt, r, [ip |-> ip, user |-> user, at |-> now])
    /\ UNCHANGED <<now, cfg>>

Admit(r, ip, user) ==
    /\ r \notin DOMAIN attempt
    /\ byIP' = CleanKey(byIP, ip)
    /\ ~Locked(byIP', ip)
    /\ byUser' = CleanKey(byUser, user)
    /\ ~Locked(byUser', user)
    /\ attempt' = Put(attempt, r, [ip |-> ip, user |-> user, at |-> now])
    /\ UNCHANGED <<now, cfg>>

\* RecordFailure: counts whatever happened since Check; nothing is cleaned.
LoginFails(r) ==
    /\ r \in DOMAIN attempt
    /\ LET ip == attempt[r].ip  user == attempt[r].user
       IN  /\ byIP' = Put(byIP, ip, Struck(GetOrCreate(byIP, ip)))
           /\ byUser' = Put(byUser, user, Struck(GetOrCreate(byUser, user)))
    /\ attempt' = Drop(attempt, r)
    /\ UNCHANGED <<now, cfg>>

\* Reset: a success forgets both trackers.
LoginSucceeds(r) ==
    /\ r \in DOMAIN attempt
    /\ byIP' = Drop(byIP, attempt[r].ip)
    /\ byUser' = Drop(byUser, attempt[r].user)
    /\ attempt' = Drop(attempt, r)
    /\ UNCHANGED <<now, cfg>>

-----------------------------------------------------------------------------
(* The administrator *)

\* GetState cleans every tracker before it lists them.
GetState ==
    /\ byIP' = CleanAll(byIP)
    /\ byUser' = CleanAll(byUser)
    /\ UNCHANGED <<now, cfg, attempt>>

UpdateConfig(c) ==
    /\ cfg' = Merged(c)
    /\ UNCHANGED <<now, byIP, byUser, attempt>>

ResetByIP(ip) ==
    /\ byIP' = Drop(byIP, ip)
    /\ UNCHANGED <<now, byUser, cfg, attempt>>

ResetByUsername(user) ==
    /\ byUser' = Drop(byUser, user)
    /\ UNCHANGED <<now, byIP, cfg, attempt>>

ResetAll ==
    /\ byIP' = Empty
    /\ byUser' = Empty
    /\ UNCHANGED <<now, cfg, attempt>>

Tick ==
    /\ now < MaxTime
    /\ now' = now + 1
    /\ UNCHANGED <<byIP, byUser, cfg, attempt>>

-----------------------------------------------------------------------------
Init ==
    /\ now = 1
    /\ byIP = Empty
    /\ byUser = Empty
    /\ cfg = InitCfg
    /\ attempt = Empty

Login ==
    \/ \E ip \in IPs : RefusedByIP(ip)
    \/ \E ip \in IPs, user \in Users : RefusedByUser(ip, user)
    \/ \E r \in Requests, ip \in IPs, user \in Users : Admit(r, ip, user)
    \/ \E r \in Requests : LoginFails(r)
    \/ \E r \in Requests : LoginSucceeds(r)

Administer ==
    \/ GetState
    \/ \E c \in Updates : UpdateConfig(c)
    \/ \E ip \in IPs : ResetByIP(ip)
    \/ \E user \in Users : ResetByUsername(user)
    \/ ResetAll

Next == Login \/ Administer \/ Tick

Spec == Init /\ [][Next]_vars

-----------------------------------------------------------------------------
(* Properties *)

\* Every map holds well-formed trackers of known keys, the settings stay
\* positive and the clock stays in range.
TypeOK ==
    /\ now \in Nat
    /\ MapOf(byIP, IPs, Tracker)
    /\ MapOf(byUser, Users, Tracker)
    /\ cfg \in Settings /\ Effective(cfg)
    /\ MapOf(attempt, Requests, Attempt)

\* A key that is locked admits nobody: whatever still runs on it passed Check
\* before the failure that imposed the lock (bruteforce.go Check, both tests).
LockedAdmitsNobody ==
    \A r \in DOMAIN attempt :
       /\ Locked(byIP, attempt[r].ip)
             => attempt[r].at <= byIP[attempt[r].ip].lastSeen
       /\ Locked(byUser, attempt[r].user)
             => attempt[r].at <= byUser[attempt[r].user].lastSeen

Caps == {InitCfg.BackoffMaxMinutes}
          \cup {c.BackoffMaxMinutes : c \in {u \in Updates : u.BackoffMaxMinutes > 0}}

WithinCap(t) == \E c \in Caps : t.lockoutUntil <= t.lastSeen + c

\* No backoff step, however high a burst of concurrent failures drives it,
\* locks a key for longer than a configured maximum (computeLockout).
LockWithinCap == /\ \A k \in DOMAIN byIP : WithinCap(byIP[k])
                 /\ \A k \in DOMAIN byUser : WithinCap(byUser[k])

UnlockedWhenIdle(t) == now - t.lastSeen > Window => t.lockoutUntil <= now

\* While the cap is left alone, the forgetting window is long enough: clean
\* only ever resets trackers whose lock is over, so no read of the limiter
\* (Check, GetState) releases a lock (clean, computeLockout).
IdleIsUnlocked == /\ \A k \in DOMAIN byIP : UnlockedWhenIdle(byIP[k])
                  /\ \A k \in DOMAIN byUser : UnlockedWhenIdle(byUser[k])

StepOf(failures) == IF failures < cfg.MaxAttempts THEN 0
                                                  ELSE failures - cfg.MaxAttempts + 1

\* While MaxAttempts is left alone, the exponent of the backoff is the number
\* of failures beyond the threshold: one step per failure, none forgotten and
\* none counted twice, whatever the order of concurrent requests
\* (RecordFailure, clean).
BackoffTracksFailures ==
    /\ \A k \in DOMAIN byIP : byIP[k].backoffStep = StepOf(byIP[k].failures)
    /\ \A k \in DOMAIN byUser : byUser[k].backoffStep = StepOf(byUser[k].failures)

\* While cap and window are left alone, a lock ends by its time, by an
\* administrator, or by the success of a request that passed Check before the
\* lock was imposed - never by a failure, a refusal or a listing.
LockEndsLegitimately ==
    [][/\ \A ip \in IPs :
            Locked(byIP, ip) /\ ~Locked(byIP, ip)'
              => \/ now' >= byIP[ip].lockoutUntil
                 \/ ResetAll \/ ResetByIP(ip)
                 \/ \E r \in DOMAIN attempt :
                       /\ LoginSucceeds(r) /\ attempt[r].ip = ip
                       /\ attempt[r].at <= byIP[ip].lastSeen
       /\ \A user \in Users :
            Locked(byUser, user) /\ ~Locked(byUser, user)'
              => \/ now' >= byUser[user].lockoutUntil
                 \/ ResetAll \/ ResetByUsername(user)
                 \/ \E r \in DOMAIN attempt :
                       /\ LoginSucceeds(r) /\ attempt[r].user = user
                       /\ attempt[r].at <= byUser[user].lastSeen]_vars

LockLength(t) == t.lockoutUntil - t.lastSeen

Escalates(m, n) == \A k \in DOMAIN m \cap DOMAIN n :
                      m[k].lockoutUntil > 0 /\ n[k].lastSeen > m[k].lastSeen
                         => LockLength(n[k]) >= LockLength(m[k])

\* While the settings of the backoff are left alone, a failure on a key that
\* was locked before and neither reset nor forgotten locks it again, for at
\* least as long as the last time (RecordFailure, computeLockout).
LocksEscalate == [][Escalates(byIP, byIP') /\ Escalates(byUser, byUser')]_vars

-----------------------------------------------------------------------------
(* The abstract specification *)

LockedKeys(m) == {k \in DOMAIN m : Locked(m, k)}

Gate == INSTANCE LoginGate
          WITH lockedIPs <- LockedKeys(byIP), lockedUsers <- LockedKeys(byUser),
               admitted <- [r \in DOMAIN attempt |->
                              [ip |-> attempt[r].ip, user |-> attempt[r].user]]

\* The limiter is a login gate: nobody is admitted on a locked key, and locks
\* come only from verdicts on admitted requests.
ImplementsGate == Gate!GateSpec
=============================================================================
