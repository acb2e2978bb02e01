------------------------------ MODULE Settings ------------------------------
(***************************************************************************)
(* How the directory settings outlive the process: New in auth.go,         *)
(* UpdateLDAP, UpdateIMAP, saveLDAP, saveIMAP and syncConfigYAML in        *)
(* admin.go, Load in config.go.  An update changes the settings in memory, *)
(* rewrites the directory's own override file, then rewrites config.yaml   *)
(* with the settings of both directories, all with the mutex held.         *)
(*                                                                         *)
(* A step is one access to a file.  os.WriteFile truncates, then writes:   *)
(* two steps.  A fault is an access that fails, or a process killed in the *)
(* middle of an update.  Of the settings only what the properties tell     *)
(* apart is kept: the server and the bind password.                        *)
(***************************************************************************)
EXTENDS Naturals

CONSTANTS
    Servers,      \* what an administrator may enter
    NoServer,     \* the built-in default
    YAMLServer,   \* what config.yaml says at first
    MaxUpdates, MaxFaults, MaxStarts    \* bounds

ASSUME SettingsAssumption ==
    /\ NoServer \notin Servers /\ YAMLServer \notin Servers
    /\ NoServer # YAMLServer
    /\ MaxUpdates \in Nat /\ MaxFaults \in Nat /\ MaxStarts \in Nat

Dirs == {"ldap", "imap"}

\* The settings of one directory.  For IMAP no password is stored.
Value   == [server : Servers \cup {NoServer, YAMLServer}, password : BOOLEAN]
Default == [server |-> NoServer, password |-> FALSE]
Written == [server |-> YAMLServer, password |-> FALSE]

\* An override file.  JSON cut short never parses.
Absent == [kind |-> "absent"]
Torn   == [kind |-> "torn"]
Whole(v)  == [kind |-> "whole", value |-> v]
Override  == {Absent, Torn} \cup {Whole(v) : v \in Value}

\* config.yaml: its two sections, each of which may be missing.  Empty reads
\* as a document without sections, but not as a map.
Empty == [kind |-> "empty"]
Sections(s) == [kind |-> "map", ldap |-> s["ldap"], imap |-> s["imap"]]
ConfigFile  == {Absent, Torn, Empty}
                 \cup {Sections(s) : s \in [Dirs -> Override \ {Torn}]}

\* config.yaml as it is delivered: with a section for each directory, with
\* neither, empty, or not there at all.
Original ==
    {Absent, Empty, Sections([d \in Dirs |-> Whole(Written)]),
     Sections([d \in Dirs |-> Absent])}

VARIABLES
    delivered,    \* config.yaml before the first start
    pc,           \* the process, and the update that holds the mutex
    dir,          \* the directory that update is for
    mem,          \* ldapCfg, imapCfg
    unread,       \* history: the directories not updated since a start that
                  \*   could not read their override file
    override,     \* ldap-settings.json, imap-settings.json
    yaml,         \* config.yaml
    updates, faults, starts,
    acked,        \* history: the value last acknowledged, or Absent
    tried         \* history: the values tried since then

files == <<override, yaml>>
vars  == <<delivered, pc, dir, mem, unread, files, updates, faults, starts, acked, tried>>

\* down; idle: nobody holds the mutex; saving: the settings in memory are
\* changed; override, yaml: the file is truncated; sync: the override is
\* written; stuck: the handler panicked and took the mutex with it.
PCs == {"down", "idle", "saving", "override", "sync", "yaml", "stuck"}

Init ==
    /\ delivered \in Original /\ yaml = delivered
    /\ override = [d \in Dirs |-> Absent]
    /\ pc = "down" /\ dir = "ldap" /\ mem = [d \in Dirs |-> Default]
    /\ unread = {}
    /\ updates = 0 /\ faults = 0 /\ starts = 0
    /\ acked = [d \in Dirs |-> Absent] /\ tried = [d \in Dirs |-> {}]

-----------------------------------------------------------------------------
(* Starting and stopping *)

\* config.Load: a file that cannot be read or does not parse ends the process; a
\* section that is missing leaves the default.
Loadable == yaml # Torn
Loaded(d) == IF yaml.kind = "map" /\ yaml[d].kind = "whole" THEN yaml[d].value
             ELSE Default

\* A torn override counts as settings.
EffectiveVariant(d) ==
    IF override[d] = Torn THEN Default
    ELSE IF override[d].kind = "whole" THEN override[d].value ELSE Loaded(d)

\* New: the override wins, unless it is missing or does not parse.
Effective(d) == IF override[d].kind = "whole" THEN override[d].value ELSE Loaded(d)

Fault == faults < MaxFaults /\ faults' = faults + 1

\* An override that is there but cannot be read is passed over like one that is
\* missing.  One fault may keep both from being read.
StartWithout(passed) ==
    /\ pc = "down" /\ Loadable /\ starts < MaxStarts
    /\ mem' = [d \in Dirs |-> IF d \in passed THEN Loaded(d) ELSE Effective(d)]
    /\ unread' = passed
    /\ pc' = "idle" /\ starts' = starts + 1
    /\ UNCHANGED <<delivered, dir, files, updates, acked, tried>>

Start == StartWithout({}) /\ UNCHANGED faults
StartUnread == Fault /\ \E passed \in SUBSET Dirs : passed # {} /\ StartWithout(passed)

\* A shutdown waits for the update under way; one that is stuck, until the
\* time-out.
Stop ==
    /\ pc \in {"idle", "stuck"} /\ pc' = "down"
    /\ UNCHANGED <<delivered, dir, mem, unread, files, updates, faults, starts,
                   acked, tried>>

\* What may be left of config.yaml when its writing was cut short.  The sections
\* are in alphabetical order, and the password follows the server.
CutSections(f) ==
    {f, Sections([ldap |-> Absent, imap |-> Absent]),
     Sections([ldap |-> Absent, imap |-> f.imap]),
     Sections([ldap |-> Whole([f.ldap.value EXCEPT !.password = FALSE]),
               imap |-> f.imap])}
Cut(f) == {Empty, Torn} \cup CutSections(f)

\* The operator puts the delivered file back.
Repair ==
    /\ yaml \in {Torn, Empty} /\ pc \in {"down", "idle"}
    /\ yaml' = delivered /\ yaml' # yaml
    /\ UNCHANGED <<delivered, pc, dir, mem, unread, override, updates, faults, starts,
                   acked, tried>>

-----------------------------------------------------------------------------
(* An update *)

\* An empty password is stored like any other.
KeptVariant(d, v) == v

\* An empty password keeps the one in memory.
Kept(d, v) == [v EXCEPT !.password = @ \/ mem[d].password]

\* The handler takes the mutex and changes the settings in memory.
Update(d, v) ==
    /\ pc = "idle" /\ updates < MaxUpdates
    /\ d = "imap" => ~v.password
    /\ mem' = [mem EXCEPT ![d] = Kept(d, v)]
    /\ pc' = "saving" /\ dir' = d /\ updates' = updates + 1
    /\ unread' = unread \ {d}
    /\ tried' = [tried EXCEPT ![d] = @ \cup {mem'[d]}]
    /\ UNCHANGED <<delivered, files, faults, starts, acked>>

\* The mutex is released and the request answered with 500: "saved for this
\* session, but could not persist".
Refuse == pc' = "idle" /\ UNCHANGED <<acked, tried>>

\* The mutex is released and the request answered with 204.
Acknowledge ==
    /\ pc' = "idle"
    /\ acked' = [acked EXCEPT ![dir] = Whole(mem[dir])]
    /\ tried' = [tried EXCEPT ![dir] = {}]

Unmoved == UNCHANGED <<delivered, dir, mem, unread, updates, starts>>

\* A full disk, a directory that cannot be made or a file that cannot be
\* opened, written or read.
OpenOverrideFails ==
    /\ pc = "saving" /\ Fault /\ Refuse /\ Unmoved /\ UNCHANGED files
WriteOverrideFails ==
    /\ pc = "override" /\ Fault /\ Refuse /\ Unmoved /\ UNCHANGED files
OpenYAMLFails ==
    /\ pc = "sync" /\ Fault /\ Refuse /\ Unmoved /\ UNCHANGED files
WriteYAMLFails ==
    /\ pc = "yaml" /\ Fault /\ Refuse /\ Unmoved /\ UNCHANGED override
    /\ yaml' \in Cut(Sections([d \in Dirs |-> Whole(mem[d])]))

OpenOverride ==
    /\ pc = "saving" /\ pc' = "override"
    /\ override' = [override EXCEPT ![dir] = Torn]
    /\ Unmoved /\ UNCHANGED <<yaml, faults, acked, tried>>

\* The other directory's file is written.
WriteOverrideVariant ==
    /\ pc = "override" /\ pc' = "sync"
    /\ override' = [override EXCEPT ![dir] = Whole(mem["ldap"])]
    /\ Unmoved /\ UNCHANGED <<yaml, faults, acked, tried>>

WriteOverride ==
    /\ pc = "override" /\ pc' = "sync"
    /\ override' = [override EXCEPT ![dir] = Whole(mem[dir])]
    /\ Unmoved /\ UNCHANGED <<yaml, faults, acked, tried>>

\* syncConfigYAML, up to the truncation of the file.
NoYAML == /\ pc = "sync" /\ yaml = Absent /\ Acknowledge
          /\ Unmoved /\ UNCHANGED <<files, faults>>
BadYAML == /\ pc = "sync" /\ yaml = Torn /\ Refuse
           /\ Unmoved /\ UNCHANGED <<files, faults>>

\* An empty document leaves the map nil, and assigning to it panics.  Nothing
\* unlocks the mutex then, and net/http keeps the process alive.
AssignToNilMap ==
    /\ pc = "sync" /\ yaml = Empty /\ pc' = "stuck"
    /\ Unmoved /\ UNCHANGED <<files, faults, acked, tried>>

OpenYAML ==
    /\ pc = "sync" /\ yaml.kind = "map"
    /\ pc' = "yaml" /\ yaml' = Empty
    /\ Unmoved /\ UNCHANGED <<override, faults, acked, tried>>

\* Only the section of the directory that was updated is replaced.
WriteYAMLVariant ==
    /\ pc = "yaml" /\ Acknowledge
    /\ yaml' = Sections([d \in Dirs |-> IF d = dir THEN Whole(mem[d]) ELSE Absent])
    /\ Unmoved /\ UNCHANGED <<override, faults>>

WriteYAML ==
    /\ pc = "yaml" /\ Acknowledge
    /\ yaml' = Sections([d \in Dirs |-> Whole(mem[d])])
    /\ Unmoved /\ UNCHANGED <<override, faults>>

\* The process dies in the middle of an update; what it was writing may have
\* reached the disk in part.
Kill ==
    /\ pc \in {"saving", "override", "sync", "yaml"} /\ pc' = "down" /\ Fault
    /\ yaml' \in IF pc = "yaml" THEN Cut(Sections([d \in Dirs |-> Whole(mem[d])]))
                 ELSE {yaml}
    /\ Unmoved /\ UNCHANGED <<override, acked, tried>>

-----------------------------------------------------------------------------

SaveOverride == \/ OpenOverride \/ OpenOverrideFails
                \/ WriteOverride \/ WriteOverrideFails
SyncConfigYAML == \/ NoYAML \/ BadYAML \/ AssignToNilMap \/ OpenYAML
                  \/ OpenYAMLFails \/ WriteYAML \/ WriteYAMLFails

Next ==
    \/ Start \/ StartUnread \/ Stop \/ Kill \/ Repair
    \/ \E d \in Dirs, s \in Servers, p \in BOOLEAN :
         Update(d, [server |-> s, password |-> p])
    \/ SaveOverride \/ SyncConfigYAML

Spec == Init /\ [][Next]_vars
-----------------------------------------------------------------------------
(* Properties *)

\* The variables have their types; a password is never stored for IMAP.
TypeOK ==
    /\ delivered \in Original /\ pc \in PCs /\ dir \in Dirs
    /\ mem \in [Dirs -> Value] /\ ~mem["imap"].password /\ unread \subseteq Dirs
    /\ override \in [Dirs -> Override] /\ yaml \in ConfigFile
    /\ updates \in 0 .. MaxUpdates /\ faults \in 0 .. MaxFaults
    /\ starts \in 0 .. MaxStarts
    /\ acked \in [Dirs -> Override \ {Torn}] /\ tried \in [Dirs -> SUBSET Value]

Running == pc # "down"

\* Settings that were acknowledged, and not tried to change since, are in the
\* directory's own file, whatever happens to config.yaml or to the other
\* directory, and in memory too, across any restarts, unless this start could
\* not read that file (admin.go:317-375, auth.go:90-101).
AcknowledgedSurvives ==
    \A d \in Dirs : (acked[d] # Absent /\ tried[d] = {}) =>
        /\ override[d] = acked[d]
        /\ (Running /\ d \notin unread) => mem[d] = acked[d].value

\* The second copy is worth its trouble: if config.yaml exists, one fault, at
\* whatever moment, brings no directory back to settings from before its last
\* acknowledged ones (admin.go:317-375, auth.go:90-101).
OneFaultLosesNothing ==
    (faults <= 1 /\ delivered # Absent /\ Running) =>
        \A d \in Dirs : acked[d] # Absent =>
            mem[d] \in {acked[d].value} \cup tried[d]

\* admin.go:52-53: "Empty bind_password keeps the stored one": once a password
\* is acknowledged no update clears it, nor does a restart, or one fault.
StoredPasswordIsKept ==
    /\ faults <= 1 /\ delivered # Absent /\ Running
    /\ acked["ldap"] # Absent /\ acked["ldap"].value.password
    => mem["ldap"].password

\* Without faults no update gets stuck, unless config.yaml was delivered empty,
\* and once one is acknowledged both files say what is in memory, so that
\* either may be removed (admin.go:317-375).
FaultFreeSavesAgree ==
    (faults = 0 /\ delivered # Empty) =>
        /\ pc # "stuck"
        /\ (pc = "idle" /\ yaml # Absent /\ (\E d \in Dirs : acked[d] # Absent)) =>
             (\A d \in Dirs : /\ yaml[d] = Whole(mem[d])
                              /\ override[d] \in {Absent, Whole(mem[d])})
=============================================================================
