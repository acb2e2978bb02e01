------------------------------ MODULE Accounts ------------------------------
(***************************************************************************)
(* internal/auth: accounts, groups, sessions and the Login handler with    *)
(* its two directory fallbacks (auth.go, admin.go, ldap.go, imap.go).      *)
(*                                                                         *)
(* The handlers share one mutex, held for single critical sections only: a *)
(* login reads its account, asks a directory, provisions and creates its   *)
(* session in separate sections, and an administrator's request is         *)
(* authenticated, authorised and executed in three.  One action is one     *)
(* critical section.  Passwords and the directories' answers are not data  *)
(* here: each may be right or wrong.  The login limiter is in Bruteforce.  *)
(*                                                                         *)
(* The fields created and deleted of a login, and late of a session, are   *)
(* history: nothing reads them but the properties.  Definitions named      *)
(* ...Variant are plausible slips, used only to test the properties.       *)
(***************************************************************************)
EXTENDS GoMaps

CONSTANTS
    Names,        \* usernames
    GroupNames,   \* names groups may have; "users" and "admin" are built in
    ValidPerms,   \* "download", "audit", "users", "groups"
    Logins,       \* concurrent executions of Login
    Admins,       \* concurrent requests to the administration endpoints
    Tokens,       \* session tokens
    ConfigUsers,  \* accounts of config.yaml: [name -> role]
    LDAPSettings, \* LDAP configurations the process starts with or is given
    IMAPSettings, \* IMAP configurations, likewise
    GroupLists,   \* bodies: lists of groups, as sets
    PermLists     \* bodies: lists of permissions, known or not, as sets

VARIABLES
    users,        \* name -> account
    groups,       \* name -> permissions
    sessions,     \* token -> session
    ldapCfg, imapCfg,
    login,        \* Login handlers between two critical sections
    request       \* administration requests past RequireAuth

vars == <<users, groups, sessions, ldapCfg, imapCfg, login, request>>

-----------------------------------------------------------------------------
(* Data *)

Roles    == {"admin", "user"}
External == {"ldap", "imap"}
Sources  == {"local", ""} \cup External   \* CreateUser leaves "" for local

Account == [hash : BOOLEAN, role : Roles, groups : SUBSET GroupNames,
            source : Sources]

Session == [username : Names, role : Roles, late : BOOLEAN]

LDAPConfig == [enabled : BOOLEAN, defaultGroups : SUBSET GroupNames]
\* allowed: the names whose domain is on the allowlist
IMAPConfig == [enabled : BOOLEAN, defaultGroups : SUBSET GroupNames,
               autoProvision : BOOLEAN, allowed : SUBSET Names]

\* What a login does next; "accepted" has only its session left to create.
Stages == {"flags", "ldap", "domain", "imap", "accepted"}

LoginState == [name : Names, stage : Stages, imapOn : BOOLEAN, role : Roles,
               created : BOOLEAN, deleted : BOOLEAN]

\* may: the permission RequirePerm has granted.
RequestState == [by : Names, may : ValidPerms \cup {"nothing"}]

ASSUME NamesAssumption ==
    /\ {"users", "admin"} \subseteq GroupNames
    /\ {"download", "users", "groups"} \subseteq ValidPerms
    /\ "nothing" \notin ValidPerms

ASSUME InputsAssumption ==
    /\ MapOf(ConfigUsers, Names, Roles)
    /\ LDAPSettings \subseteq LDAPConfig /\ LDAPSettings # {}
    /\ IMAPSettings \subseteq IMAPConfig /\ IMAPSettings # {}
    /\ GroupLists \subseteq SUBSET GroupNames

-----------------------------------------------------------------------------
(* Reading accounts *)

AdminNames == {n \in DOMAIN users : users[n].role = "admin"}

\* adminCount() <= 1 asked about an administrator
IsLastAdmin(name) == AdminNames = {name}

EffectivePerms(name) ==
    IF name \notin DOMAIN users THEN {}
    ELSE IF users[name].role = "admin" THEN ValidPerms
    ELSE UNION {groups[g] : g \in users[name].groups \cap DOMAIN groups}

-----------------------------------------------------------------------------
(* New: what a process starts with.  Accounts made at run time, groups and *)
(* sessions are in memory only; the directory settings survive in their    *)
(* override files when those could be written.                             *)

ConfiguredUsers ==
    [n \in DOMAIN ConfigUsers |->
        [hash |-> TRUE, role |-> ConfigUsers[n], source |-> "local",
         groups |-> IF ConfigUsers[n] = "admin" THEN {} ELSE {"users"}]]

BuiltinGroups == [g \in {"users", "admin"} |->
                     IF g = "admin" THEN ValidPerms ELSE {"download"}]

Init ==
    /\ users = ConfiguredUsers
    /\ groups = BuiltinGroups
    /\ sessions = Empty
    /\ ldapCfg \in LDAPSettings
    /\ imapCfg \in IMAPSettings
    /\ login = Empty
    /\ request = Empty

Restart ==
    /\ users' = ConfiguredUsers
    /\ groups' = BuiltinGroups
    /\ sessions' = Empty
    /\ ldapCfg' \in LDAPSettings
    /\ imapCfg' \in IMAPSettings
    /\ login' = Empty
    /\ request' = Empty

-----------------------------------------------------------------------------
(* Login *)

LoginAt(l, stage) == l \in DOMAIN login /\ login[l].stage = stage

\* The handler goes on to another critical section.
Proceed(l, stage) == login' = [login EXCEPT ![l].stage = stage]

Accept(l, account) ==
    login' = [login EXCEPT ![l].stage = "accepted", ![l].role = account.role]

\* Login fails: RecordFailure (Bruteforce) and 401 or 403.
Reject(l) == login' = Drop(login, l)

Started(name, stage, role) ==
    [name |-> name, stage |-> stage, imapOn |-> FALSE, role |-> role,
     created |-> FALSE, deleted |-> FALSE]

\* verify: the local password is right.
VerifyAccepts(l, name) ==
    /\ l \notin DOMAIN login
    /\ name \in DOMAIN users
    /\ users[name].hash
    /\ login' = Put(login, l, Started(name, "accepted", users[name].role))
    /\ UNCHANGED <<users, groups, sessions, ldapCfg, imapCfg, request>>

\* canFallback, as verify saw the account.  For every other name a wrong
\* password ends the login at once and nothing changes here.
CanFallback(name) == name \in DOMAIN users => users[name].source \in External

VerifyFallsBack(l, name) ==
    /\ l \notin DOMAIN login
    /\ CanFallback(name)
    /\ login' = Put(login, l, Started(name, "flags", "user"))
    /\ UNCHANGED <<users, groups, sessions, ldapCfg, imapCfg, request>>

ReadFlags(l) ==
    /\ LoginAt(l, "flags")
    /\ \/ /\ ldapCfg.enabled
          /\ login' = [login EXCEPT ![l].stage = "ldap",
                                    ![l].imapOn = imapCfg.enabled]
       \/ ~ldapCfg.enabled /\ imapCfg.enabled /\ Proceed(l, "domain")
       \/ ~ldapCfg.enabled /\ ~imapCfg.enabled /\ Reject(l)
    /\ UNCHANGED <<users, groups, sessions, ldapCfg, imapCfg, request>>

LDAPRefuses(l) ==
    /\ LoginAt(l, "ldap")
    /\ IF login[l].imapOn THEN Proceed(l, "domain") ELSE Reject(l)
    /\ UNCHANGED <<users, groups, sessions, ldapCfg, imapCfg, request>>

Provisioned(source, defaultGroups) ==
    [hash |-> FALSE, role |-> "user", source |-> source, groups |-> defaultGroups]

HasSource(name, source) == name \in DOMAIN users /\ users[name].source = source

\* Account `source` of name is there already, or is written over whatever is.
ProvisionKeeps(l, source) ==
    /\ HasSource(login[l].name, source)
    /\ Accept(l, users[login[l].name])
    /\ UNCHANGED users

ProvisionWrites(l, source, defaultGroups) ==
    LET account == Provisioned(source, defaultGroups)
    IN  /\ ~HasSource(login[l].name, source)
        /\ users' = Put(users, login[l].name, account)
        /\ Accept(l, account)

\* ldapAuth's answer and provisionLDAP
LDAPAccepts(l) ==
    /\ LoginAt(l, "ldap")
    /\ \/ ProvisionKeeps(l, "ldap")
       \/ ProvisionWrites(l, "ldap", ldapCfg.defaultGroups)
    /\ UNCHANGED <<groups, sessions, ldapCfg, imapCfg, request>>

\* imapDomainAllowed
CheckDomain(l) ==
    /\ LoginAt(l, "domain")
    /\ IF login[l].name \in imapCfg.allowed THEN Proceed(l, "imap") ELSE Reject(l)
    /\ UNCHANGED <<users, groups, sessions, ldapCfg, imapCfg, request>>

IMAPRefuses(l) ==
    /\ LoginAt(l, "imap")
    /\ Reject(l)
    /\ UNCHANGED <<users, groups, sessions, ldapCfg, imapCfg, request>>

\* Re-provisions an account that is the directory's own already.
IMAPAcceptsVariant(l) ==
    /\ LoginAt(l, "imap")
    /\ LET account == Provisioned("imap", imapCfg.defaultGroups)
       IN  /\ users' = Put(users, login[l].name, account)
           /\ Accept(l, account)
    /\ UNCHANGED <<groups, sessions, ldapCfg, imapCfg, request>>

\* imapAuth's answer and provisionIMAP; errPendingApproval rejects the login.
IMAPAccepts(l) ==
    /\ LoginAt(l, "imap")
    /\ \/ ProvisionKeeps(l, "imap")
       \/ /\ imapCfg.autoProvision
          /\ ProvisionWrites(l, "imap", imapCfg.defaultGroups)
       \/ /\ ~imapCfg.autoProvision /\ ~HasSource(login[l].name, "imap")
          /\ Reject(l)
          /\ UNCHANGED users
    /\ UNCHANGED <<groups, sessions, ldapCfg, imapCfg, request>>

\* Reset (Bruteforce), then a session with the role the login saw.
CreateSession(l, t) ==
    /\ LoginAt(l, "accepted")
    /\ t \notin DOMAIN sessions
    /\ sessions' = Put(sessions, t, [username |-> login[l].name,
                                     role |-> login[l].role,
                                     late |-> login[l].deleted])
    /\ login' = Drop(login, l)
    /\ UNCHANGED <<users, groups, ldapCfg, imapCfg, request>>

-----------------------------------------------------------------------------
(* Sessions *)

Logout(t) ==
    /\ t \in DOMAIN sessions
    /\ sessions' = Drop(sessions, t)
    /\ UNCHANGED <<users, groups, ldapCfg, imapCfg, login, request>>

\* RequireAuth on a session past its expiry; the clock is left out, any
\* session may be.
SessionExpires(t) == Logout(t)

Authenticate(a, t) ==
    /\ a \notin DOMAIN request
    /\ t \in DOMAIN sessions
    /\ request' = Put(request, a, [by |-> sessions[t].username, may |-> "nothing"])
    /\ UNCHANGED <<users, groups, sessions, ldapCfg, imapCfg, login>>

\* RequirePerm: the permissions of the moment, not those of the session.
Authorize(a, p) ==
    /\ a \in DOMAIN request
    /\ request[a].may = "nothing"
    /\ p \in EffectivePerms(request[a].by)
    /\ request' = [request EXCEPT ![a].may = p]
    /\ UNCHANGED <<users, groups, sessions, ldapCfg, imapCfg, login>>

\* 403, or one of the early returns of the handlers (400, 404, 409).
Refuse(a) ==
    /\ a \in DOMAIN request
    /\ request' = Drop(request, a)
    /\ UNCHANGED <<users, groups, sessions, ldapCfg, imapCfg, login>>

-----------------------------------------------------------------------------
(* Administration *)

Served(a, perm) == /\ a \in DOMAIN request
                   /\ request[a].may = perm
                   /\ request' = Drop(request, a)

NoteCreated(name) ==
    login' = [l \in DOMAIN login |->
                IF login[l].name = name THEN [login[l] EXCEPT !.created = TRUE]
                                        ELSE login[l]]

NoteDeleted(name) ==
    login' = [l \in DOMAIN login |->
                IF login[l].name = name THEN [login[l] EXCEPT !.deleted = TRUE]
                                        ELSE login[l]]

CreateUser(a, name, role) ==
    /\ Served(a, "users")
    /\ name \notin DOMAIN users
    /\ users' = Put(users, name,
                    [hash |-> TRUE, role |-> role, source |-> "",
                     groups |-> IF role = "admin" THEN {} ELSE {"users"}])
    /\ NoteCreated(name)
    /\ UNCHANGED <<groups, sessions, ldapCfg, imapCfg>>

UpdateUserVariant(a, name, role, password, list) ==
    /\ Served(a, "users")
    /\ name \in DOMAIN users
    /\ list = users[name].groups \/ list \subseteq DOMAIN groups
    /\ role # "admin" => ~IsLastAdmin(name)
    /\ users' = [users EXCEPT ![name].role = role, ![name].groups = list,
                              ![name].hash = @ \/ password]
    /\ UNCHANGED <<groups, sessions, ldapCfg, imapCfg, login>>

\* A field the body leaves out keeps its value: `role` and `list` then are the
\* account's own.
UpdateUser(a, name, role, password, list) ==
    /\ Served(a, "users")
    /\ name \in DOMAIN users
    /\ password => users[name].source \notin External
    /\ list = users[name].groups \/ list \subseteq DOMAIN groups
    /\ role # "admin" => ~IsLastAdmin(name)
    /\ users' = [users EXCEPT ![name].role = role, ![name].groups = list,
                              ![name].hash = @ \/ password]
    /\ UNCHANGED <<groups, sessions, ldapCfg, imapCfg, login>>

DeleteUserVariant(a, name) ==
    /\ Served(a, "users")
    /\ name \in DOMAIN users
    /\ users' = Drop(users, name)
    /\ sessions' = [t \in {s \in DOMAIN sessions : sessions[s].username # name}
                        |-> sessions[t]]
    /\ NoteDeleted(name)
    /\ UNCHANGED <<groups, ldapCfg, imapCfg>>

DeleteUserKeepsSessionsVariant(a, name) ==
    /\ Served(a, "users")
    /\ name \in DOMAIN users
    /\ ~IsLastAdmin(name)
    /\ users' = Drop(users, name)
    /\ NoteDeleted(name)
    /\ UNCHANGED <<groups, sessions, ldapCfg, imapCfg>>

DeleteUser(a, name) ==
    /\ Served(a, "users")
    /\ name \in DOMAIN users
    /\ ~IsLastAdmin(name)
    /\ users' = Drop(users, name)
    /\ sessions' = [t \in {s \in DOMAIN sessions : sessions[s].username # name}
                        |-> sessions[t]]
    /\ NoteDeleted(name)
    /\ UNCHANGED <<groups, ldapCfg, imapCfg>>

CreateGroupVariant(a, g, perms) ==
    /\ Served(a, "groups")
    /\ g \notin DOMAIN groups
    /\ groups' = Put(groups, g, perms)
    /\ UNCHANGED <<users, sessions, ldapCfg, imapCfg, login>>

\* normalizePerms refuses a list with an unknown permission.
CreateGroup(a, g, perms) ==
    /\ Served(a, "groups")
    /\ perms \subseteq ValidPerms
    /\ g \notin DOMAIN groups
    /\ groups' = Put(groups, g, perms)
    /\ UNCHANGED <<users, sessions, ldapCfg, imapCfg, login>>

UpdateGroup(a, g, perms) ==
    /\ Served(a, "groups")
    /\ perms \subseteq ValidPerms
    /\ g \in DOMAIN groups
    /\ groups' = Put(groups, g, perms)
    /\ UNCHANGED <<users, sessions, ldapCfg, imapCfg, login>>

DeleteGroupVariant(a, g) ==
    /\ Served(a, "groups")
    /\ g \in DOMAIN groups
    /\ groups' = Drop(groups, g)
    /\ UNCHANGED <<users, sessions, ldapCfg, imapCfg, login>>

DeleteGroup(a, g) ==
    /\ Served(a, "groups")
    /\ g \in DOMAIN groups
    /\ groups' = Drop(groups, g)
    /\ users' = [n \in DOMAIN users |-> [users[n] EXCEPT !.groups = @ \ {g}]]
    /\ UNCHANGED <<sessions, ldapCfg, imapCfg, login>>

\* What becomes of the files is the business of another component.
UpdateLDAP(a, c) ==
    /\ Served(a, "users")
    /\ ldapCfg' = c
    /\ UNCHANGED <<users, groups, sessions, imapCfg, login>>

UpdateIMAP(a, c) ==
    /\ Served(a, "users")
    /\ imapCfg' = c
    /\ UNCHANGED <<users, groups, sessions, ldapCfg, login>>

-----------------------------------------------------------------------------
Login ==
    \/ \E l \in Logins, name \in Names :
          VerifyAccepts(l, name) \/ VerifyFallsBack(l, name)
    \/ \E l \in Logins :
          \/ ReadFlags(l)
          \/ LDAPAccepts(l) \/ LDAPRefuses(l)
          \/ CheckDomain(l)
          \/ IMAPAccepts(l) \/ IMAPRefuses(l)
    \/ \E l \in Logins, t \in Tokens : CreateSession(l, t)

Guarded ==
    \/ \E a \in Admins, t \in Tokens : Authenticate(a, t)
    \/ \E a \in Admins, p \in ValidPerms : Authorize(a, p)
    \/ \E a \in Admins : Refuse(a)
    \/ \E t \in Tokens : Logout(t) \/ SessionExpires(t)

AdministerUsers ==
    \/ \E a \in Admins, name \in Names, role \in Roles : CreateUser(a, name, role)
    \/ \E a \in Admins, name \in DOMAIN users, role \in Roles, password \in BOOLEAN :
          \E list \in GroupLists \cup {users[name].groups} :
             UpdateUser(a, name, role, password, list)
    \/ \E a \in Admins, name \in Names : DeleteUser(a, name)

AdministerGroups ==
    \/ \E a \in Admins, g \in GroupNames, perms \in PermLists :
          CreateGroup(a, g, perms) \/ UpdateGroup(a, g, perms)
    \/ \E a \in Admins, g \in GroupNames : DeleteGroup(a, g)

AdministerDirectories ==
    \/ \E a \in Admins, c \in LDAPSettings : UpdateLDAP(a, c)
    \/ \E a \in Admins, c \in IMAPSettings : UpdateIMAP(a, c)

Next == \/ Login \/ Guarded \/ AdministerUsers \/ AdministerGroups
        \/ AdministerDirectories \/ Restart

Spec == Init /\ [][Next]_vars

-----------------------------------------------------------------------------
(* Properties *)

\* Accounts, groups, sessions, settings and requests stay well formed.
TypeOK ==
    /\ MapOf(users, Names, Account)
    /\ MapOf(groups, GroupNames, SUBSET ValidPerms)
    /\ MapOf(sessions, Tokens, Session)
    /\ ldapCfg \in LDAPSettings
    /\ imapCfg \in IMAPSettings
    /\ MapOf(login, Logins, LoginState)
    /\ MapOf(request, Admins, RequestState)

\* An account has a local password exactly if it is local: provisioning takes
\* the password away, and UpdateUser never gives one to a directory account
\* ("No password is stored", ldap.go:65, imap.go:76).
CredentialMatchesSource ==
    \A n \in DOMAIN users : users[n].hash <=> users[n].source \notin External

DefaultNames == {"users"} \cup (UNION {c.defaultGroups : c \in LDAPSettings})
                          \cup (UNION {c.defaultGroups : c \in IMAPSettings})

\* Membership in a group that does not exist comes from a default only (of
\* CreateUser, or of a directory): UpdateUser checks, and DeleteGroup removes
\* every membership in the same critical section.
MembershipResolves ==
    \A n \in DOMAIN users : users[n].groups \subseteq DOMAIN groups \cup DefaultNames

\* A session outlives its account only if the account was deleted while the
\* login that made the session was between verify and CreateSession: DeleteUser
\* purges every other one.  Since RequirePerm goes by the name, this is also
\* what keeps a session from passing to a later account of the same name.
SessionsDieWithAccount ==
    /\ \A t \in DOMAIN sessions :
          sessions[t].username \in DOMAIN users \/ sessions[t].late
    /\ \A l \in DOMAIN login :
          LoginAt(l, "accepted") => login[l].name \in DOMAIN users \/ login[l].deleted

\* There is always an administrator (the guards of UpdateUser and DeleteUser,
\* "Cannot demote the last admin", admin.go:165, and "Cannot delete the last
\* admin", admin.go:199).
AdminExists == AdminNames # {}

\* A login replaces an account that is there.
Overwrites(l) ==
    /\ LDAPAccepts(l) \/ IMAPAccepts(l)
    /\ login[l].name \in DOMAIN users
    /\ users'[login[l].name] # users[login[l].name]

\* Neither concurrent administrators nor deletions and demotions in any order
\* remove the last administrator; only a login that overwrites an account does.
LastAdminFallsToLogin ==
    [][AdminExists /\ ~AdminExists' => \E l \in DOMAIN login : Overwrites(l)]_vars

\* A login overwrites a local account only in a race: the account was created
\* after the login had seen that there was none.  An account of the directory
\* that accepts is never overwritten, so what an administrator assigned to it
\* survives its logins; one of the other directory may be.
OverwritesAreRaces ==
    [][\A l \in DOMAIN login :
          Overwrites(l) => \/ login[l].created
                           \/ LDAPAccepts(l) /\ HasSource(login[l].name, "imap")
                           \/ IMAPAccepts(l) /\ HasSource(login[l].name, "ldap")]_vars
=============================================================================
