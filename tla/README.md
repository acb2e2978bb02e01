# WeBridge in TLA+

WeBridge is a web portal written in Go: users sign in, paste a link of a file
transfer service, and the server resolves it and streams the file to them. This
directory holds TLA+ specifications of its concurrent parts, configurations
that model-check them with TLC, and theorems about them checked by TLAPS. Paths
below are relative to `src/`.

## 1. Inventory

| Component | State | Operations | Hard behaviour | What makes it correct |
|---|---|---|---|---|
| Login limiter (`internal/auth/bruteforce.go`) | two maps, by IP and by username, from key to failures, lock end, backoff step, last failure; the settings | `Check`, `RecordFailure`, `Reset`, `GetState`, `UpdateConfig`, `ResetBy...`, `ResetAll` | `Check` and the verdict are two critical sections around a slow verification; locks expire lazily; settings change under a history | a locked key admits nobody; locks are bounded, escalate, and end only by time, a success or an administrator |
| Accounts, groups, sessions (`auth.go`, `admin.go`) | users, groups, sessions; sessions expire | `Login`, `Logout`, `RequireAuth`, `RequirePerm`, create/update/delete of users and groups | one mutex, held for single sections: a login is up to six of them, an administration request three | an administrator always remains; sessions die with their account; members only of groups that exist |
| LDAP and IMAP sign-in (`ldap.go`, `imap.go`) | settings in memory and in override files | `ldapAuth`, `imapAuth`, `provisionLDAP`, `provisionIMAP`, `UpdateLDAP`, `UpdateIMAP` | accounts change while a directory answers; settings change between the steps of one login | no account has both a password and a directory; provisioning never takes an account that is not its own |
| Settings persistence (`admin.go` 52-90, 317-413) | settings in memory, override files, `config.yaml` | `UpdateLDAP`, `UpdateIMAP`, `saveLDAP`, `saveIMAP`, `syncConfigYAML`, `New`, `Load` | truncating writes of two files, crash between or inside them, panic with the mutex held | after a restart the settings are the last ones acknowledged, or the ones before |
| Audit log and store (`internal/audit`) | ring in memory, bounded channel, the flusher's batch, the SQLite table; counters | `AddEvent`, `flusher`, `drain`, `Close`, `Purge`, `Query`, `Count`, `GetMetrics`, export | asynchronous batches, full channel, failing transactions, shutdown, crash | events in order and at most once, none lost without a cause, no send on a closed channel, a stop that ends |
| Process (`cmd/server/main.go`) | the HTTP server, signals | start, serve, `Shutdown`, exit | shutdown racing handlers, time-out, `os.Exit` skipping deferred calls | no handler outlives the store |
| Downloads (`internal/handlers/download.go`) | semaphore of download slots, active counter | `ServeHTTP`, `InfoHandler`, `RecentHandler` | wait of 30 s for a slot, clients that leave, failures after the headers | slots are never leaked or exceeded; every attempt is audited once |
| Providers (`internal/providers`) | registry; a cookie jar per request | `ResolveProvider`, `Resolve`, `Stream` | retries against a cancelled context, redirects between link forms | the service a link belongs to answers; only a bad link gets 400; retries are bounded, and every request ends |
| Middleware (`internal/middleware`) | token buckets per address; access-log file of the day | `RateLimiter`, `AccessLog`, `ValidateURL`, `SecurityHeaders` | lazily created shared objects | one line per request that was served; one bucket per address |
| Configuration (`internal/config`) | none after start | `Load`, `applyEnv` | none (sequential) | precedence environment > file > default |
| Web client (`internal/handlers/app.js`) | the page's variables: current URL, file information, page of the audit table | event handlers and `fetch` callbacks | answers out of order, input changed while waiting, one automatic retry | what is downloaded is what was shown |
| UI, health, deployment | none | serve files and constants | none | - |

Interactions: every route but login, logout, health and the UI passes
`RequireAuth`, most also `RequirePerm`. `Login` calls the limiter twice (before
verification and with the verdict) and the audit log; the administration
handlers change the maps `Login` reads; every handler reports to the audit log;
`main` owns the order in which server and store stop.

The hazards this leads to are listed, at their lines, in `PROJECT.json`.

## 2. Modules

| Module | Models | Checked by | Proved in |
|---|---|---|---|
| `GoMaps` | Go's map operations | - | |
| `LoginGate` | abstract: what the limiter promises | as property of `Bruteforce` | |
| `Bruteforce` | `bruteforce.go` and its use in `Login` | `MCBruteforce` | `BruteforceProofs` |
| `Accounts` | `auth.go`, `admin.go`, `ldap.go`, `imap.go` | `MCAccounts` | `AccountsProofs` |
| `AuditTrail` | abstract: what the audit store promises | as property of `AuditStore` | |
| `AuditStore` | `audit.go`, `store.go`, life cycle of `main.go` | `MCAuditStore` | `AuditStoreProofs` |
| `Downloads` | `download.go`, the stream of `providers.go` | `MCDownloads` | `DownloadsProofs` |
| `Settings` | `UpdateLDAP`, `UpdateIMAP` and the files they write (`admin.go`), `New` (`auth.go`), `Load` (`config.go`) | `MCSettings` | `SettingsProofs` |
| `Middleware` | `ratelimit.go`, `security.go`, `accesslog.go`, their chain in `main.go` | `MCMiddleware` | `MiddlewareProofs` |
| `Links` | `registry.go`, `Resolve` of the five services, the status of its failures (`download.go`) | `MCLinks` | `LinksProofs` |
| `AuditQuery` | reading: `store.go`, `audit.go`, `RecentHandler`, the log view of `app.js` | `MCAuditQuery` | `AuditQueryProofs` |

In every module one action is one critical section of the code, or one step of
a goroutine between two points where others may run. Definitions whose name
ends in `Variant` are plausible slips of the definition they precede; no
specification uses them, they serve to show that each property can fail.

### Bruteforce

`byIP` and `byUser` are the two maps, `cfg` the settings, `now` the clock in
minutes (all durations of the code are whole minutes), `attempt` the logins
between `Check` and their verdict. `RefusedByIP`, `RefusedByUser` and `Admit`
are the three outcomes of `Check`, `LoginFails` is `RecordFailure`,
`LoginSucceeds` is `Reset`; the administrator's `GetState` is an action too,
since it cleans trackers as it lists them. `UpdateConfig` merges field by
field, ignoring values that are not positive, as the code does; the constructor's
defaults are not repeated, `InitCfg` is what they leave.

`LoginGate` has two sets of locked keys and the admitted requests, and no
clock: a request is let in only if its keys are not locked, a verdict may change
only the two keys of its request, anything else may only release.

### Accounts

`users`, `groups`, `sessions` are the maps of `Service`. A login is a record
of where its handler stands: `flags` (about to read which directories are
enabled), `ldap` (waiting for LDAP), `domain` and `imap` (about to check the
domain, waiting for IMAP), `accepted` (about to create the session). Passwords
and the answers of directories are nondeterministic. An administration request
passes `Authenticate` (RequireAuth), `Authorize` (RequirePerm) and one handler
action, each its own critical section. `Restart` returns to the accounts of
`config.yaml`, with any of the configured directory settings. The refusals of a
handler (404, 409, 400) change nothing and are one action, `Refuse`.

`created`, `deleted` and `late` are history, read by properties only: whether an
account of that name was created, or deleted, since a login saw it, and whether
a session was made after its account was deleted.

### AuditStore

`stage` is the main goroutine: serving, in `Server.Shutdown`, in `Store.Close`,
stopped or dead. A handler is the event it will report (`inFlight`); `AddEvent`
appends to the ring and sends without blocking, atomically, because the log's
mutex spans both. The flusher alternates between `Receive`, `Tick` and `Drain`,
and `Return`s when the channel is closed and empty. A transaction is one step;
it may fail as a whole or lose single rows (the errors of `INSERT` are ignored).
`Exit` empties the memory; `Restart` opens the same table and purges it.
`Purge` may remove any rows: the times of events are not in this model.
`OpenStore` failing, with the log falling back to memory alone, is not modelled.

`AuditTrail` has a queue and a table: events enter the queue once, are written
from its front in order, except for those that fail, may be lost with the
process, and rows may expire.

### Downloads

A request is a download (`Gets`) or a check (`Checks`); `phase` is where its
handler stands: waiting for a slot, resolving, then inside `Stream` (`fetching` an
answer, in `backoff`, `copying`), then leaving it (`streamed`, `logging`,
`returning`). `slots` and `waiting` are the channel `sem`: Go hands a released
place to the handler that has waited longest, which is why `Return` moves it on in
the same step. `Leave` is a client that goes away at any moment, which cancels the
request's context; `Cancelled` says where the code looks at it. Sizes are small
numbers: the size the service announced, the length of what it then sends, whether
its answer states that, whether an answer that does not still tells its end apart from
a broken connection (`endTold`: a chunked one does, and the connection may break
between its last byte and its end), and the `Content-Length` headers that result, from
which a client decides whether it has the whole file (`LooksComplete`; two different
headers are refused). The status and content of answers, and the links, are not
data: an answer is passed on whatever it is. Panics in a handler are not modelled.
The size may be the sum of several files of which the service then sends only the
first (`transfernow.go:132`, `wesendit.go:130`): sizes and lengths are independent.

### Settings

`mem` is what `Service` holds, `override` the two JSON files, `yaml` config.yaml as
far as its two sections go. An update runs with the mutex held, so `pc` is the place
of the one update under way: `saving` after the settings in memory are changed,
`override` and `yaml` between the truncation of a file and its writing, `sync`
between the two files. Each access has an action that succeeds and one that fails
(answered with 500, with the new settings left in memory), and `Kill` may end the
process at any of them. A JSON file cut short never parses; a YAML file cut short
may (`Cut`): as nothing, as a document without the sections, or with a part of them.
`Start` is `config.Load` and `New`; in `StartUnread`, a fault, overrides that are there
cannot be read, and are passed over as if they were not (`unread` remembers which). `stuck` is the handler that panicked on the nil
map and keeps the mutex. `Repair` is an operator who puts the delivered config.yaml
back. Of the settings, the server and the bind password are kept; `acked` and
`tried` remember what was acknowledged last and what was attempted since.

### Middleware

A request passes `Arrive` (limiter, then URL check), is `serving` in the handlers,
then reports to the access log, which reads `w.ch` without a lock (`Serve`) before
it makes the channel (`MakeChannel`), so that several first requests may each make
one. `channels` are all that were made; w.ch is the last. A goroutine evaluates
`range w.ch` when it gets to run (`StartFlusher`), not when it is started, so it may
empty a later channel than its own. `writeLine` is `OpenFails`, `OpenSucceeds`,
`WriteLine` or `WriteFails`; it closes the old file before it opens the new one, and
leaves the closed one in place when it cannot. A write that fails is noticed by
nobody, and may leave a piece of the line in the file, on which the next line follows. A unit of time is one token of the limiter.

Requests that the limiter or the URL check refuses reach neither the security
headers nor the access log, which `main.go` puts further in. A private address
written as an IPv6 literal is not recognised, since the host is cut at its first
colon. At shutdown nobody waits for the goroutine: lines still queued then are lost.

### Links

One request with one link, for every link of the forms the code tells apart. The
registry gives it to a service (`ResolveProvider`: by host, or by the suffix of the
host, in the order of a Go map), whose `ParseURL` takes it or not; a short link is
followed (`Follow`) to a page that is parsed in turn. Services are asked once, SendGB
three times, and answer as they please. `Fail` is the order in which ServeHTTP and
InfoHandler look at the words of the error.

### AuditQuery

`table` is the SQLite table; `Format` and `Before` are how a time is stored and how
the database compares it: the text of RFC 3339 with nanoseconds, whose trailing zeros
are left out, so that within a second a time without a fraction sorts before or after
the others by what ends it, `Z` or an offset. The time is local: a row, and a bound of
a window, each have the offset from UTC of their moment, which changes with the season
and with the zone the process is started in, so that the same local time may come
twice. `EventsHandler` is two queries with rows coming in between; their errors are
answered with 200, as the rows read so far (`WithRows`) and a total of 0 (`WithTotal`). The log view has at most one request of `LoadMoreAudit` under way,
but `LoadAuditData` may overlap with anything; answers arrive in any order.

## 3. Runs

Bounds are set so that the interesting case occurs; each property has been seen
to fail under a change of the model (`mutants` in `PROJECT.json`).

| Run | Bounds | Shows |
|---|---|---|
| `BruteforceFixed.cfg` | 1 address, 2 names, 2 concurrent logins, 6 minutes, threshold and cap small enough for a lock, an escalation and forgetting | `LockedAdmitsNobody`, `IdleIsUnlocked`, `BackoffTracksFailures`, `LockEndsLegitimately`, `LocksEscalate` |
| `BruteforceReconfigured.cfg` | 1 address, 1 name, 2 logins, 4 minutes, updates with zeros | `TypeOK`, `LockWithinCap`, `ImplementsGate` while the settings change |
| `AccountsLocal.cfg` | 2 names, 1 administrator at first, directories off, 2 administration requests and 1 login at once; the built-in groups may be deleted and made again | `TypeOK`, `AdminExists`, `SessionsDieWithAccount`, `MembershipResolves` |
| `AccountsDirectories.cfg` | 2 names, both directories enabled, auto-provisioning switched on and off; 1 administration request and 1 login at once | `CredentialMatchesSource`, `LastAdminFallsToLogin`, `OverwritesAreRaces` |
| `AuditLifecycle.cfg` | 4 events, ring, channel and batch of 2, SQLite failing, one restart, kills; fairness | `TypeOK`, `NoSendOnClosedChannel`, `RowsFollowCalls`, `EveryEventAccounted`, `OrderlyStopLosesLessThanABatch`, `ImplementsTrail`, `WaitingIsWritten`, `StopEnds` |
| `DownloadsSlots.cfg` | 2 downloads and 1 check for 1 slot, 2 retries, a file that is too large, one that fits, one of unknown size, answers as long as announced and longer, whose end is told or not | `SlotsAreExact`, `LoggedOnce`, `KnownSizeExposesCuts`, `OneAnswerPerReply` |
| `DownloadsLive.cfg` | the same requests and slot, one size, fairness | `LeaverEnds`, `RetriesEnd` |
| `Settings.cfg` | 2 servers to enter besides the default and the delivered one, 3 updates, 2 faults (an access that fails, a start that cannot read overrides, a kill), 3 starts; config.yaml delivered with both sections, with none, empty or missing | `AcknowledgedSurvives`, `OneFaultLosesNothing`, `StoredPasswordIsKept`, `FaultFreeSavesAgree` |
| `Middleware.cfg` | 3 requests of one address, a bucket and a channel of 1, 2 units of time, 1 change of day, 2 files that cannot be opened or writes that fail; fairness | `RateHolds`, `OnlyRacesAndFaultsLoseLines`, `QueuedLinesLeave` |
| `Links.cfg` | every link: 2 schemes or none, every registered host, another site and a subdomain of each, 5 ways to write the end, every path; short links that lead to both full forms, to a short link, to no transfer; fairness | `BadRequestBlamesTheLink`, `EveryLinkIsAnswered` |
| `AuditQuery.cfg` | 3 rows at a fraction of a second, a full second and a fraction of that, each in UTC or an offset of one second east of it; pages of 1 row, 2 loads, 1 filter, any query failing | `ReadsFollowLocalTime`, `ScrollingMissesNothing` |
| `AuditRecent.cfg` | the same with the users ann and joanna | `RecentIsOwn`, violated: see below |

Two names are enough for the account races: each is between one login and one
administrator over one account, with one more account to hold or lose the role of
administrator. A capacity of 2 lets the channel and the batch be empty, partly
filled and full; with 4 events the channel overflows while the batch holds one.
Two downloads for one slot are one that holds it and one that waits. Three updates
are one that is acknowledged, one that goes wrong and one after it; two faults exceed
the one the properties allow for, which `AcknowledgedSurvives` survives. Three
requests are two that race for the channel and one whose line finds it full; the limiter's
addresses do not touch each other, so one is enough. Three rows let one come
in before, between and after what a page of one row shows; an offset of a second does to
seconds what the hour of summer time does to a log. One filter is in the run because
a page with another than its view's promises nothing (`clean`); in the theorem there is any.

Fairness is assumed in the two `LiveSpec`s, in `Middleware` and in `Links`. In `AuditStore` the flusher goroutine runs (its
ticker fires every second and Go's scheduler is fair), `Shutdown` ends because its
context does after 30 seconds, and `Close` goes on once the flusher is done.
No handler is obliged to report and nobody is obliged to stop the process. In
`Downloads` the timers of the wait and of the backoff fire and handlers go on, but
a service need never answer (`request_timeout` may be 0): only a cancelled context
ends such a wait. In `Middleware` a goroutine that can go on does, and so does a
request that has been answered and only reports; nothing makes clients come or
handlers return. In `Links` calls end, because each has the time-out of the HTTP client
(`request_timeout`, 30 seconds by default; set to 0 they need not), and the handler goes
on after them. The
other properties are safety properties and need none. Deadlock is checked in the
account and limiter runs; the others say `CHECK_DEADLOCK FALSE`
because a stopped process stays stopped, and requests end.

What the properties of the newer modules amount to:

- `Settings`: settings that were acknowledged stay in their override file through any
  faults and restarts as long as their directory is not updated again, and every start
  that can read the file brings them back. A start that cannot says nothing and takes
  config.yaml's section, or the defaults; the next one may be right again. One fault brings nothing older back: a torn override falls back to
  config.yaml, which has the last acknowledged settings, provided there is a
  config.yaml. Two faults may.
- `Downloads`: a download logged as an error may be whole all the same: if the service
  states no length, and its connection breaks after the last byte but before the end of
  the answer, everything has been passed on by then.
- `Middleware`: without the race for the first channel, a line is in exactly one
  place until it is in exactly one file, never one older than its request, unless the
  channel was full or a file failed, where each failure costs one line: with a warning
  if the file could not be opened, without a word if it could not be written. With
  the race, lines may wait in a channel that has no reader.
- `Links`: a 400 is for the link, except that `www.wesendit.com` is registered
  (`wesendit.go:36`, README.md:159) but refused by the service's own check
  (`wesendit.go:65`), and that a short link without TLS gets it for the page it leads
  to. Every request is answered, except when we.tl keeps answering a short link
  itself, without leading elsewhere: `parseURL` then recurses for as long as the
  client stays, holding a download slot.
- `AuditQuery`: order and windows follow local time, to the second and not within it.
  While the offset from UTC stays that is time itself; where it changed, they are wrong by the
  difference: the hour that comes twice in autumn reads as one, its events mixed, and a
  table kept over a change of `TZ` has its old rows out of place. Scrolling misses
  nothing even so, as long as no load overlaps with another request and the filter
  stays, and whatever pages an error cuts short; but the view ends early if a count
  fails. A row may be shown twice: offsets of pages move as rows come in.

### Disagreements between code and documentation

`AuditRecent.cfg` - "Current user's last downloads" (`README.md:148`): the name
is looked up as a pattern (`download.go:224`, `store.go:173-174`), so that ann is
also shown joanna's downloads. TLC finds `RecentIsOwn` violated.

Others were met while modelling; each is the modelled behaviour, and a property that
does hold says how far it goes:

- "returns current config and active locks" (`bruteforce.go:124`): the list has every
  key with a failure, locked or not (`bruteforce.go:134`).
- "Cannot demote/delete the last admin" (`admin.go:165,199`): a directory login in
  progress overwrites the account of an administrator created or promoted meanwhile
  (`ldap.go:72`), possibly the last. `LastAdminFallsToLogin` says that nothing else can.
- Fallbacks apply "to users previously JIT-provisioned from that source"
  (`auth.go:204-205`): either source is accepted for both directories.
- "Close waits for buffered events to flush" (`store.go:139`): the flusher returns
  without its last batch (`store.go:92-94`). `OrderlyStopLosesLessThanABatch` is what holds.
- "nil on success or client disconnect" (`providers.go:40`): a connection the service
  resets reads like a client hanging up, and a truncated download counts as a success.
- "Call on startup and daily" (`store.go:146`): `Purge` is only called on startup.

## 4. Proofs

Every invariant and every action property that holds in a run is also a theorem:
TLC has seen it on the instances above, TLAPS proves it for every value of the
constants that meets the modules' `ASSUME`s (positive settings and capacities,
well-formed inputs) and for any bounds. Where a theorem assumes more, it says so.

- `BruteforceProofs`: `TypeCorrect`; `LocksAreBounded` and `BackoffIsExact`, inductive
  over the trackers, the latter while the threshold is fixed (`FixedThreshold`: no
  update changes it); `CleanReleasesNothing`, which rests on a lock never reaching
  further than the cap from the last failure, and so never past the forgetting window;
  `NobodyIsAdmittedLocked`; `LocksEndLegitimately`, for a fixed cap (`FixedCap`), whose
  hard case is that a failure during a lock may only prolong it; and `BackoffEscalates`,
  for fixed cap, base and threshold, which needs that a tracker once locked is past the
  threshold, its last lock no longer than its step would give, and that `base * 2^step`, capped, grows with the step. The powers of two
  are those of the library's theorem on the number of subsets, since nothing can be proved
  by induction over the exponent. A changed cap or threshold does break these
  properties, which is why the assumptions are there. `ImplementsLoginGate` maps every step
  to a step of the gate or a stutter.
- `AccountsProofs`: `TypeCorrect`, by one lemma per group of handlers, and
  `CredentialsMatchSources`. `MembershipsResolve` and `SessionsDie` are inductive
  together with the types; `OnlyRacesOverwrite` adds that whoever asks a directory about a
  name finds no local account of that name, or one created meanwhile
  (`AskedIsExternal`). `OnlyLoginsTakeTheLastAdmin` assumes that config.yaml has an
  administrator (`ConfiguredAdmin`; without one there is none at start), and
  `AdminStays` also that no settings enable a directory (`DirectoriesOff`: then no login
  ever asks one), since a directory login may overwrite the last administrator.
- `AuditStoreProofs`: `TypeCorrect`, strengthened by the finiteness of the events
  reported so far (their place is a cardinality); `NobodySendsOnClosed`, strengthened
  to say that a closed channel belongs to a main goroutine past `Shutdown`: without
  that, a request accepted after the close would break the induction.
  `EventsAreWrittenInOrder` proves `RowsFollowCalls`: its invariant takes the queue
  apart into batch and channel, orders rows, batch and channel pairwise, and adds
  that no place is given twice. `StoreImplementsTrail` needs it, to know that an
  event is reported once, and that a process that has ended holds nothing, so that
  a restart changes only the rows. `EventsAreAccountedFor` needs the same order, since an
  event given up must not be waiting a second time; `StopsLoseLittle` follows the
  last batch from the close of the channel to the end of the process.
- `DownloadsProofs`: one inductive invariant says, phase by phase, what a request
  has: its log, its answer, what of it was passed on, and the lengths it announced;
  and that slots and queue are what the phases say. Counting the holders of slots is
  the rest: a step adds one, takes one away, or hands a slot to the first who waits.
- `SettingsProofs`: `TypeCorrect`, and `AcknowledgedSettingsSurvive`, which proves
  `AcknowledgedSurvives` for any number of updates, faults and restarts, overrides that
  cannot be read included. Its invariant
  adds that between the first access to an override file and the end of the update the
  directory has an attempt on record, so that its file may differ from what was
  acknowledged only then, and that before the acknowledgement the file already says
  what is in memory. `SavesAgree` describes both files at each place an update may be at;
  `OneFaultIsSurvived` adds that no override is older than the last acknowledged
  settings, and that config.yaml backs every directory until the first fault, and after
  it the one whose override it tore, except while an update is rewriting them
  (`BackedByYAML`); `PasswordStays` adds that no attempt drops an acknowledged password.
- `MiddlewareProofs`: `RateIsLimited` adds the tokens left in a bucket to the requests let
  in since any one of them: together they never exceed a full bucket and what was
  earned since. `OnlyRacesAndFaultsLose` needs that no line is twice in a queue or whole in the log,
  that the day of each file is known, where each line is by the state of its
  request, and that the lines lost to faults are as many as the faults; all of it while
  there is at most one channel.
- `LinksProofs`: `LinksAreBlamedRightly` has no loop to follow: its invariant says that the
  request is for a link, that resolving goes on with the given link or the page it led
  to, and that nothing is answered meanwhile. No host is registered by two services,
  so that the order of a Go map does not matter for a listed link.
- `AuditQueryProofs`: text is ordered strictly and totally, by the first place where
  two differ, and the texts of two times are the same only if the times are, whatever
  their offsets (`FormatApart`: where the shorter fraction ends, the other goes on with a
  dot or a digit, which no offset begins with); so the
  rows in order are numbered by how many are newer (`Ordered`), and a page has the numbers
  from its offset on (`Paged`). `WindowsFollowLocalTime` follows from the first element alone, the
  local second.
  For `ScrollingIsComplete` the view has every row numbered below its length, of those
  that were there when it was loaded (`Covers`). That survives rows coming in, because
  numbers only grow; a page continues it, because its offset is the length of the view;
  a page cut short is only a shorter one; and a page that reaches the total, counted
  after it was read, has all. The invariant says the same of a page under way that has
  no other beside it, and that there is one request for more at a time (`OneMore`), so that
  only a load can overlap. As in the model, no two rows
  have the same nanosecond, and no event is in second 0, which the code reads as
  "no bound".

Some facts about natural numbers that are usually proved by induction come from
set-theoretic ones: that a set of numbers has a least one is the library's theorem that
`<` is well-founded, applied to a set.

Only model-checked: `WaitingIsWritten`, `StopEnds`, `LeaverEnds`, `RetriesEnd`,
`QueuedLinesLeave` and `EveryLinkIsAnswered`, which are liveness properties (out of
the prover's reach, as is `ENABLED`), and the violation of `RecentIsOwn`.

## 5. Not modelled

- The page's check and download of a link, with its overlapping requests and its
  retries, and rendering: of the web client only the log view is modelled.
- Metrics and the CSV export, which read once and change nothing; reading from the ring
  when there is no database, which ignores offsets and windows and counts nothing.
- Overflow of lockout durations; passwords and hashes; wire protocols of the directories;
  HTML and CSS; environment variables and most defaults (one sequential pass at start);
  container files; static pages and the health check, which have no state.
- Unlocked reads: `verify` reads the map of users, and `ListUsers` encodes slices,
  without the mutex. `Accounts` treats them as atomic, since what Go does in a race on
  a map is not limited to stale values.
- Several files in one transfer; names of files; cookies; what services' answers
  contain.
- Two processes on the same files.

## 6. Plan

1. Proofs: the order in which waiting downloads get their slots, as an abstract queue that
   `Downloads` implements; the two files of `Settings` as an implementation of settings
   that change in one step or not at all; what `RecentIsOwn` does promise when no name occurs in
   another; what a second channel of the access log may lose at most.
2. `WebClient`: check, password and download of a link, answers out of order.
3. Composition of `Bruteforce` and `Accounts` at `Login`.
