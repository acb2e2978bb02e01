--------------------------- MODULE AccountsProofs ---------------------------
(***************************************************************************)
(* Theorems about Accounts, for any accounts, groups, settings and any     *)
(* number of concurrent logins and administration requests.                *)
(***************************************************************************)
EXTENDS Accounts, TLAPS

-----------------------------------------------------------------------------
(* Maps keep the types of their keys and values. *)

LEMMA EmptyMap == \A K, V : MapOf(Empty, K, V)
  BY DEF Empty, MapOf

LEMMA PutMap ==
  ASSUME NEW K, NEW V, NEW m, MapOf(m, K, V), NEW k \in K, NEW v \in V
  PROVE  MapOf(Put(m, k, v), K, V)
  BY DEF Put, MapOf

LEMMA DropMap ==
  ASSUME NEW K, NEW V, NEW m, MapOf(m, K, V), NEW k
  PROVE  MapOf(Drop(m, k), K, V)
  BY DEF Drop, MapOf

-----------------------------------------------------------------------------
(* Type correctness *)

LEMMA ConfiguredType ==
  /\ MapOf(ConfiguredUsers, Names, Account)
  /\ MapOf(BuiltinGroups, GroupNames, SUBSET ValidPerms)
  <1>1. MapOf(ConfigUsers, Names, Roles) /\ {"users", "admin"} \subseteq GroupNames
    BY InputsAssumption, NamesAssumption
  <1>2. \A n \in DOMAIN ConfigUsers : ConfiguredUsers[n] \in Account
    BY <1>1 DEF ConfiguredUsers, Account, MapOf, Sources, External, Roles
  <1>3. MapOf(ConfiguredUsers, Names, Account)
    BY <1>1, <1>2 DEF ConfiguredUsers, MapOf
  <1>4. MapOf(BuiltinGroups, GroupNames, SUBSET ValidPerms)
    BY <1>1, NamesAssumption DEF BuiltinGroups, MapOf
  <1> QED BY <1>3, <1>4

LEMMA TypeInit == Init => TypeOK
  BY ConfiguredType, EmptyMap DEF Init, TypeOK

LEMMA ProceedType ==
  ASSUME MapOf(login, Logins, LoginState), NEW l \in DOMAIN login, NEW stage \in Stages,
         Proceed(l, stage)
  PROVE  MapOf(login, Logins, LoginState)'
  BY DEF Proceed, MapOf, LoginState

LEMMA FlagsType ==
  ASSUME MapOf(login, Logins, LoginState), NEW l \in DOMAIN login, NEW b \in BOOLEAN,
         login' = [login EXCEPT ![l].stage = "ldap", ![l].imapOn = b]
  PROVE  MapOf(login, Logins, LoginState)'
  BY DEF MapOf, LoginState, Stages

LEMMA AcceptType ==
  ASSUME MapOf(login, Logins, LoginState), NEW l \in DOMAIN login,
         NEW u \in Account, Accept(l, u)
  PROVE  MapOf(login, Logins, LoginState)'
  BY DEF Accept, MapOf, LoginState, Account, Stages

LEMMA StartedType ==
  ASSUME NEW name \in Names, NEW stage \in Stages, NEW role \in Roles
  PROVE  Started(name, stage, role) \in LoginState
  BY DEF Started, LoginState

LEMMA NoteType ==
  ASSUME MapOf(login, Logins, LoginState), NEW name, NoteCreated(name) \/ NoteDeleted(name)
  PROVE  MapOf(login, Logins, LoginState)'
  <1>1. \A l \in DOMAIN login : login[l] \in LoginState
    BY DEF MapOf
  <1>2. \A p \in LoginState : /\ [p EXCEPT !.created = TRUE] \in LoginState
                              /\ [p EXCEPT !.deleted = TRUE] \in LoginState
    BY DEF LoginState
  <1>3. DOMAIN login' = DOMAIN login /\ \A l \in DOMAIN login' : login'[l] \in LoginState
    <2> HIDE DEF LoginState
    <2> QED BY <1>1, <1>2 DEF NoteCreated, NoteDeleted
  <1> QED BY <1>3 DEF MapOf, NoteCreated, NoteDeleted

LEMMA SettingsType ==
  ASSUME TypeOK
  PROVE  /\ ldapCfg.enabled \in BOOLEAN /\ ldapCfg.defaultGroups \subseteq GroupNames
         /\ imapCfg.enabled \in BOOLEAN /\ imapCfg.defaultGroups \subseteq GroupNames
  BY InputsAssumption DEF TypeOK, LDAPConfig, IMAPConfig

LEMMA ProvisionType ==
  ASSUME TypeOK, NEW l \in Logins, l \in DOMAIN login, NEW source \in External,
         NEW list \in SUBSET GroupNames,
         ProvisionKeeps(l, source) \/ ProvisionWrites(l, source, list)
  PROVE  /\ MapOf(users, Names, Account)'
         /\ MapOf(login, Logins, LoginState)'
  <1>1. login[l].name \in Names /\ MapOf(login, Logins, LoginState) /\ MapOf(users, Names, Account)
    BY DEF TypeOK, MapOf, LoginState
  <1>2. CASE ProvisionKeeps(l, source)
    <2>1. users[login[l].name] \in Account
      BY <1>1, <1>2 DEF ProvisionKeeps, HasSource, MapOf
    <2>2. MapOf(login, Logins, LoginState)'
      BY <1>1, <1>2, <2>1, AcceptType DEF ProvisionKeeps
    <2> QED BY <1>1, <1>2, <2>2 DEF ProvisionKeeps
  <1>3. CASE ProvisionWrites(l, source, list)
    <2>1. Provisioned(source, list) \in Account
      BY DEF Provisioned, Account, Sources, Roles
    <2>2. MapOf(login, Logins, LoginState)'
      BY <1>1, <1>3, <2>1, AcceptType DEF ProvisionWrites
    <2>3. MapOf(users, Names, Account)'
      BY <1>1, <1>3, <2>1, PutMap DEF ProvisionWrites
    <2> QED BY <2>2, <2>3
  <1> QED BY <1>2, <1>3

LEMMA TypeLogin == TypeOK /\ Login => TypeOK'
  <1> SUFFICES ASSUME TypeOK, Login PROVE TypeOK'
    OBVIOUS
  <1> USE DEF TypeOK
  <1>1. ASSUME NEW l \in Logins, NEW name \in Names, VerifyAccepts(l, name) PROVE TypeOK'
    <2>1. users[name].role \in Roles
      BY <1>1 DEF VerifyAccepts, MapOf, Account
    <2>2. Started(name, "accepted", users[name].role) \in LoginState
      BY <2>1, StartedType DEF Stages
    <2> QED BY <1>1, <2>2, PutMap DEF VerifyAccepts
  <1>2. ASSUME NEW l \in Logins, NEW name \in Names, VerifyFallsBack(l, name) PROVE TypeOK'
    <2>1. Started(name, "flags", "user") \in LoginState
      BY StartedType DEF Stages, Roles
    <2> QED BY <1>2, <2>1, PutMap DEF VerifyFallsBack
  <1>3. ASSUME NEW l \in Logins, ReadFlags(l) PROVE TypeOK'
    <2>1. MapOf(login, Logins, LoginState)'
      <3>1. l \in DOMAIN login /\ imapCfg.enabled \in BOOLEAN
        BY <1>3, SettingsType DEF ReadFlags, LoginAt
      <3>2. CASE login' = [login EXCEPT ![l].stage = "ldap", ![l].imapOn = imapCfg.enabled]
        BY <3>1, <3>2, FlagsType
      <3>3. CASE Proceed(l, "domain")
        BY <3>1, <3>3, ProceedType DEF Stages
      <3>4. CASE Reject(l)
        BY <3>4, DropMap DEF Reject
      <3> QED BY <1>3, <3>2, <3>3, <3>4 DEF ReadFlags
    <2> QED BY <1>3, <2>1 DEF ReadFlags
  <1>4. ASSUME NEW l \in Logins, LDAPRefuses(l) PROVE TypeOK'
    <2>1. MapOf(login, Logins, LoginState)'
      <3>1. l \in DOMAIN login /\ (Proceed(l, "domain") \/ Reject(l))
        BY <1>4 DEF LDAPRefuses, LoginAt
      <3>2. CASE Proceed(l, "domain")
        BY <3>1, <3>2, ProceedType DEF Stages
      <3>3. CASE Reject(l)
        BY <3>3, DropMap DEF Reject
      <3> QED BY <3>1, <3>2, <3>3
    <2> QED BY <1>4, <2>1 DEF LDAPRefuses
  <1>5. ASSUME NEW l \in Logins, LDAPAccepts(l) PROVE TypeOK'
    <2>1. MapOf(users, Names, Account)' /\ MapOf(login, Logins, LoginState)'
      BY <1>5, ProvisionType, SettingsType DEF LDAPAccepts, LoginAt, External
    <2> QED BY <1>5, <2>1 DEF LDAPAccepts
  <1>6. ASSUME NEW l \in Logins, CheckDomain(l) PROVE TypeOK'
    <2>1. MapOf(login, Logins, LoginState)'
      <3>1. l \in DOMAIN login /\ (Proceed(l, "imap") \/ Reject(l))
        BY <1>6 DEF CheckDomain, LoginAt
      <3>2. CASE Proceed(l, "imap")
        BY <3>1, <3>2, ProceedType DEF Stages
      <3>3. CASE Reject(l)
        BY <3>3, DropMap DEF Reject
      <3> QED BY <3>1, <3>2, <3>3
    <2> QED BY <1>6, <2>1 DEF CheckDomain
  <1>7. ASSUME NEW l \in Logins, IMAPRefuses(l) PROVE TypeOK'
    BY <1>7, DropMap DEF IMAPRefuses, Reject
  <1>8. ASSUME NEW l \in Logins, IMAPAccepts(l) PROVE TypeOK'
    <2>1. CASE \/ ProvisionKeeps(l, "imap")
               \/ ProvisionWrites(l, "imap", imapCfg.defaultGroups)
      <3>1. MapOf(users, Names, Account)' /\ MapOf(login, Logins, LoginState)'
        BY <1>8, <2>1, ProvisionType, SettingsType DEF IMAPAccepts, LoginAt, External
      <3> QED BY <1>8, <3>1 DEF IMAPAccepts
    <2>2. CASE Reject(l) /\ UNCHANGED users
      BY <1>8, <2>2, DropMap DEF IMAPAccepts, Reject
    <2> QED BY <1>8, <2>1, <2>2 DEF IMAPAccepts
  <1>9. ASSUME NEW l \in Logins, NEW t \in Tokens, CreateSession(l, t) PROVE TypeOK'
    <2>1. [username |-> login[l].name, role |-> login[l].role,
           late |-> login[l].deleted] \in Session
      BY <1>9 DEF CreateSession, LoginAt, MapOf, LoginState, Session
    <2> QED BY <1>9, <2>1, PutMap, DropMap DEF CreateSession
  <1> QED BY <1>1, <1>2, <1>3, <1>4, <1>5, <1>6, <1>7, <1>8, <1>9 DEF Login

LEMMA TypeGuarded == TypeOK /\ Guarded => TypeOK'
  <1> SUFFICES ASSUME TypeOK, Guarded PROVE TypeOK'
    OBVIOUS
  <1> USE DEF TypeOK
  <1>1. ASSUME NEW a \in Admins, NEW t \in Tokens, Authenticate(a, t) PROVE TypeOK'
    <2>1. [by |-> sessions[t].username, may |-> "nothing"] \in RequestState
      BY <1>1 DEF Authenticate, MapOf, Session, RequestState
    <2> QED BY <1>1, <2>1, PutMap DEF Authenticate
  <1>2. ASSUME NEW a \in Admins, NEW p \in ValidPerms, Authorize(a, p) PROVE TypeOK'
    <2>1. MapOf(request, Admins, RequestState)'
      BY <1>2 DEF Authorize, MapOf, RequestState
    <2> QED BY <1>2, <2>1 DEF Authorize
  <1>3. ASSUME NEW a \in Admins, Refuse(a) PROVE TypeOK'
    BY <1>3, DropMap DEF Refuse
  <1>4. ASSUME NEW t \in Tokens, Logout(t) \/ SessionExpires(t) PROVE TypeOK'
    BY <1>4, DropMap DEF SessionExpires, Logout
  <1> QED BY <1>1, <1>2, <1>3, <1>4 DEF Guarded

LEMMA TypeAdminister ==
  TypeOK /\ (AdministerUsers \/ AdministerGroups \/ AdministerDirectories) => TypeOK'
  <1> SUFFICES ASSUME TypeOK, AdministerUsers \/ AdministerGroups \/ AdministerDirectories
               PROVE  TypeOK'
    OBVIOUS
  <1> USE DEF TypeOK
  <1>0. ASSUME NEW a, NEW p, Served(a, p) PROVE MapOf(request, Admins, RequestState)'
    BY <1>0, DropMap DEF Served
  <1>1. ASSUME NEW a, NEW name \in Names, NEW role \in Roles, CreateUser(a, name, role)
        PROVE  TypeOK'
    <2>1. [hash |-> TRUE, role |-> role, source |-> "",
           groups |-> IF role = "admin" THEN {} ELSE {"users"}] \in Account
      BY NamesAssumption DEF Account, Sources
    <2>2. MapOf(users, Names, Account)'
      BY <1>1, <2>1, PutMap DEF CreateUser
    <2>3. MapOf(login, Logins, LoginState)'
      BY <1>1, NoteType DEF CreateUser
    <2> QED BY <1>0, <1>1, <2>2, <2>3 DEF CreateUser
  <1>2. ASSUME NEW a, NEW name \in DOMAIN users, NEW role \in Roles,
               NEW password \in BOOLEAN, NEW list \in GroupLists \cup {users[name].groups},
               UpdateUser(a, name, role, password, list)
        PROVE  TypeOK'
    <2>1. list \subseteq GroupNames
      BY InputsAssumption DEF MapOf, Account
    <2>2. MapOf(users, Names, Account)'
      BY <1>2, <2>1 DEF UpdateUser, MapOf, Account
    <2> QED BY <1>0, <1>2, <2>2 DEF UpdateUser
  <1>3. ASSUME NEW a, NEW name \in Names, DeleteUser(a, name) PROVE TypeOK'
    <2>1. MapOf(users, Names, Account)'
      BY <1>3, DropMap DEF DeleteUser
    <2>2. MapOf(sessions, Tokens, Session)'
      BY <1>3 DEF DeleteUser, MapOf
    <2>3. MapOf(login, Logins, LoginState)'
      BY <1>3, NoteType DEF DeleteUser
    <2> QED BY <1>0, <1>3, <2>1, <2>2, <2>3 DEF DeleteUser
  <1>4. ASSUME NEW a, NEW g \in GroupNames, NEW perms \in PermLists,
               CreateGroup(a, g, perms) \/ UpdateGroup(a, g, perms)
        PROVE  TypeOK'
    <2>1. MapOf(groups, GroupNames, SUBSET ValidPerms)'
      BY <1>4, PutMap DEF CreateGroup, UpdateGroup
    <2>2. MapOf(request, Admins, RequestState)'
      BY <1>0, <1>4 DEF CreateGroup, UpdateGroup
    <2> QED BY <1>4, <2>1, <2>2 DEF CreateGroup, UpdateGroup
  <1>5. ASSUME NEW a, NEW g \in GroupNames, DeleteGroup(a, g) PROVE TypeOK'
    <2>1. MapOf(groups, GroupNames, SUBSET ValidPerms)'
      BY <1>5, DropMap DEF DeleteGroup
    <2>2. MapOf(users, Names, Account)'
      BY <1>5 DEF DeleteGroup, MapOf, Account
    <2> QED BY <1>0, <1>5, <2>1, <2>2 DEF DeleteGroup
  <1>6. ASSUME NEW a, NEW c \in LDAPSettings, UpdateLDAP(a, c) PROVE TypeOK'
    BY <1>0, <1>6 DEF UpdateLDAP
  <1>7. ASSUME NEW a, NEW c \in IMAPSettings, UpdateIMAP(a, c) PROVE TypeOK'
    BY <1>0, <1>7 DEF UpdateIMAP
  <1> QED BY <1>1, <1>2, <1>3, <1>4, <1>5, <1>6, <1>7
             DEF AdministerUsers, AdministerGroups, AdministerDirectories

LEMMA TypeNext == TypeOK /\ [Next]_vars => TypeOK'
  <1>1. TypeOK /\ Restart => TypeOK'
    BY ConfiguredType, EmptyMap DEF Restart, TypeOK
  <1>2. TypeOK /\ UNCHANGED vars => TypeOK'
    BY DEF TypeOK, vars
  <1> QED BY <1>1, <1>2, TypeLogin, TypeGuarded, TypeAdminister DEF Next

\* Every critical section keeps accounts, groups, sessions and the requests in
\* progress well formed, however they interleave.
THEOREM TypeCorrect == Spec => []TypeOK
  BY TypeInit, TypeNext, PTL DEF Spec

-----------------------------------------------------------------------------
(* An account has a local password exactly if it is local *)

Matches(u) == u.hash <=> u.source \notin External

LEMMA ProvisionMatches ==
  ASSUME TypeOK, CredentialMatchesSource, NEW l \in Logins, LDAPAccepts(l) \/ IMAPAccepts(l),
         NEW n \in DOMAIN users'
  PROVE  Matches(users'[n])
  <1>1. CASE users' = users
    BY <1>1 DEF CredentialMatchesSource, Matches
  <1>2. ASSUME NEW source \in External, NEW list, ProvisionWrites(l, source, list)
        PROVE  Matches(users'[n])
    <2>1. users' = Put(users, login[l].name, Provisioned(source, list))
      BY <1>2 DEF ProvisionWrites
    <2>2. Matches(Provisioned(source, list))
      BY DEF Matches, Provisioned
    <2> QED BY <2>1, <2>2 DEF Put, CredentialMatchesSource, Matches
  <1> QED BY <1>1, <1>2 DEF LDAPAccepts, IMAPAccepts, ProvisionKeeps, External

LEMMA UpdateMatches ==
  ASSUME TypeOK, CredentialMatchesSource, NEW a, NEW name \in DOMAIN users, NEW role,
         NEW password \in BOOLEAN, NEW list, UpdateUser(a, name, role, password, list),
         NEW n \in DOMAIN users'
  PROVE  Matches(users'[n])
  <1>1. MapOf(users, Names, Account)
    BY DEF TypeOK
  <1>2. /\ users' = [users EXCEPT ![name].role = role, ![name].groups = list,
                                  ![name].hash = @ \/ password]
        /\ password => users[name].source \notin External
    BY DEF UpdateUser
  <1>3. n \in DOMAIN users
    BY <1>2
  <1>4. CASE n # name
    BY <1>2, <1>3, <1>4 DEF CredentialMatchesSource, Matches
  <1>5. CASE n = name
    <2>1. /\ users'[n].hash = (users[n].hash \/ password)
          /\ users'[n].source = users[n].source
      BY <1>1, <1>2, <1>3, <1>5 DEF MapOf, Account
    <2>2. users[n].hash <=> users[n].source \notin External
      BY <1>3 DEF CredentialMatchesSource
    <2> QED BY <1>2, <1>5, <2>1, <2>2, Zenon DEF Matches
  <1> QED BY <1>4, <1>5

LEMMA CredentialNext == TypeOK /\ CredentialMatchesSource /\ [Next]_vars => CredentialMatchesSource'
  <1> SUFFICES ASSUME TypeOK, CredentialMatchesSource, [Next]_vars, NEW n \in DOMAIN users'
               PROVE  Matches(users'[n])
    BY DEF CredentialMatchesSource, Matches
  <1>1. CASE users' = users
    BY <1>1 DEF CredentialMatchesSource, Matches
  <1>2. ASSUME NEW l \in Logins, LDAPAccepts(l) \/ IMAPAccepts(l) PROVE Matches(users'[n])
    BY <1>2, ProvisionMatches
  <1>3. ASSUME NEW a \in Admins, NEW name \in Names, NEW role \in Roles,
               CreateUser(a, name, role)
        PROVE  Matches(users'[n])
    BY <1>3 DEF CreateUser, Put, CredentialMatchesSource, Matches, External
  <1>4. ASSUME NEW a \in Admins, NEW name \in DOMAIN users, NEW role \in Roles,
               NEW password \in BOOLEAN, NEW list \in GroupLists \cup {users[name].groups},
               UpdateUser(a, name, role, password, list)
        PROVE  Matches(users'[n])
    BY <1>4, UpdateMatches
  <1>5. ASSUME NEW a \in Admins, NEW name \in Names, DeleteUser(a, name)
        PROVE  Matches(users'[n])
    BY <1>5 DEF DeleteUser, Drop, CredentialMatchesSource, Matches
  <1>6. ASSUME NEW a \in Admins, NEW g \in GroupNames, DeleteGroup(a, g)
        PROVE  Matches(users'[n])
    <2>1. users' = [m \in DOMAIN users |-> [users[m] EXCEPT !.groups = @ \ {g}]]
      BY <1>6 DEF DeleteGroup
    <2>2. n \in DOMAIN users /\ users[n] \in Account
      BY <2>1 DEF TypeOK, MapOf
    <2>3. users'[n].hash = users[n].hash /\ users'[n].source = users[n].source
      BY <2>1, <2>2 DEF Account
    <2> QED BY <2>2, <2>3 DEF CredentialMatchesSource, Matches
  <1>7. CASE Restart
    BY <1>7 DEF Restart, ConfiguredUsers, Matches, External
  <1> QED BY <1>1, <1>2, <1>3, <1>4, <1>5, <1>6, <1>7
     DEF Next, Login, VerifyAccepts, VerifyFallsBack, ReadFlags, LDAPRefuses,
         CheckDomain, IMAPRefuses, CreateSession, Guarded, Authenticate, Authorize,
         Refuse, Logout, SessionExpires, AdministerUsers, AdministerGroups,
         CreateGroup, UpdateGroup, AdministerDirectories, UpdateLDAP, UpdateIMAP, vars

\* Directory accounts never hold a local password, local accounts always do:
\* provisioning and UpdateUser agree on it, also when they race for one name.
THEOREM CredentialsMatchSources == Spec => []CredentialMatchesSource
  <1>1. Init => CredentialMatchesSource
    BY DEF Init, CredentialMatchesSource, ConfiguredUsers, External
  <1> QED BY <1>1, CredentialNext, TypeCorrect, PTL DEF Spec

-----------------------------------------------------------------------------
(* Memberships *)

LEMMA DefaultsAreDefaults ==
  ASSUME TypeOK
  PROVE  /\ ldapCfg.defaultGroups \subseteq DefaultNames
         /\ imapCfg.defaultGroups \subseteq DefaultNames
  <1> DEFINE L == {c.defaultGroups : c \in LDAPSettings}
             I == {c.defaultGroups : c \in IMAPSettings}
  <1>1. ldapCfg.defaultGroups \in L /\ imapCfg.defaultGroups \in I
    BY DEF TypeOK
  <1>2. DefaultNames = {"users"} \cup (UNION L) \cup (UNION I)
    BY Zenon DEF DefaultNames
  <1> HIDE DEF L, I
  <1> QED BY <1>1, <1>2

LEMMA MembershipNext == TypeOK /\ MembershipResolves /\ [Next]_vars => MembershipResolves'
  <1> SUFFICES ASSUME TypeOK, MembershipResolves, [Next]_vars, NEW n \in DOMAIN users'
               PROVE  users'[n].groups \subseteq DOMAIN groups' \cup DefaultNames
    BY DEF MembershipResolves
  <1> DEFINE Goal == users'[n].groups \subseteq DOMAIN groups' \cup DefaultNames
  <1>1. CASE users' = users /\ DOMAIN groups \subseteq DOMAIN groups'
    BY <1>1 DEF MembershipResolves
  <1>2. ASSUME NEW l \in Logins, LDAPAccepts(l) \/ IMAPAccepts(l) PROVE Goal
    <2>1. groups' = groups
      BY <1>2 DEF LDAPAccepts, IMAPAccepts
    <2>2. ASSUME NEW source, NEW list \in SUBSET DefaultNames, ProvisionWrites(l, source, list)
          PROVE  Goal
      <3>1. users' = Put(users, login[l].name, Provisioned(source, list))
        BY <2>2 DEF ProvisionWrites
      <3>2. Provisioned(source, list).groups = list
        BY DEF Provisioned
      <3> QED BY <2>1, <3>1, <3>2 DEF Put, MembershipResolves
    <2>3. \/ users' = users
          \/ ProvisionWrites(l, "ldap", ldapCfg.defaultGroups)
          \/ ProvisionWrites(l, "imap", imapCfg.defaultGroups)
      BY <1>2 DEF LDAPAccepts, IMAPAccepts, ProvisionKeeps
    <2> QED BY <1>1, <2>1, <2>2, <2>3, DefaultsAreDefaults
  <1>3. ASSUME NEW a \in Admins, NEW name \in Names, NEW role \in Roles,
               CreateUser(a, name, role)
        PROVE  Goal
    BY <1>3 DEF CreateUser, Put, MembershipResolves, DefaultNames
  <1>4. ASSUME NEW a \in Admins, NEW name \in DOMAIN users, NEW role \in Roles,
               NEW password \in BOOLEAN, NEW list \in GroupLists \cup {users[name].groups},
               UpdateUser(a, name, role, password, list)
        PROVE  Goal
    <2>1. list \subseteq DOMAIN groups \cup DefaultNames /\ groups' = groups
      BY <1>4 DEF UpdateUser, MembershipResolves
    <2>2. users' = [users EXCEPT ![name].role = role, ![name].groups = list,
                                 ![name].hash = @ \/ password]
      BY <1>4 DEF UpdateUser
    <2>3. n \in DOMAIN users /\ users[n] \in Account
      BY <2>2 DEF TypeOK, MapOf
    <2>4. users'[n].groups = IF n = name THEN list ELSE users[n].groups
      BY <2>2, <2>3 DEF Account
    <2> QED BY <2>1, <2>3, <2>4 DEF MembershipResolves
  <1>5. ASSUME NEW a \in Admins, NEW name \in Names, DeleteUser(a, name) PROVE Goal
    BY <1>5 DEF DeleteUser, Drop, MembershipResolves
  <1>6. ASSUME NEW a \in Admins, NEW g \in GroupNames, DeleteGroup(a, g) PROVE Goal
    <2>1. /\ users' = [m \in DOMAIN users |-> [users[m] EXCEPT !.groups = @ \ {g}]]
          /\ groups' = Drop(groups, g)
      BY <1>6 DEF DeleteGroup
    <2>2. n \in DOMAIN users /\ users[n] \in Account
      BY <2>1 DEF TypeOK, MapOf
    <2>3. users'[n].groups = users[n].groups \ {g} /\ DOMAIN groups' = DOMAIN groups \ {g}
      BY <2>1, <2>2 DEF Account, Drop
    <2> QED BY <2>2, <2>3 DEF MembershipResolves
  <1>7. ASSUME NEW a \in Admins, NEW g \in GroupNames, NEW perms \in PermLists,
               CreateGroup(a, g, perms) \/ UpdateGroup(a, g, perms)
        PROVE  Goal
    BY <1>1, <1>7 DEF CreateGroup, UpdateGroup, Put
  <1>8. CASE Restart
    BY <1>8 DEF Restart, ConfiguredUsers, DefaultNames
  <1> QED BY <1>1, <1>2, <1>3, <1>4, <1>5, <1>6, <1>7, <1>8
     DEF Next, Login, VerifyAccepts, VerifyFallsBack, ReadFlags, LDAPRefuses,
         CheckDomain, IMAPRefuses, CreateSession, Guarded, Authenticate, Authorize,
         Refuse, Logout, SessionExpires, AdministerUsers, AdministerGroups,
         AdministerDirectories, UpdateLDAP, UpdateIMAP, vars

\* An account is a member of no group that does not exist, but for the default
\* groups, whatever accounts, groups and settings are changed at the same time:
\* UpdateUser checks and DeleteGroup removes in one critical section.
THEOREM MembershipsResolve == Spec => []MembershipResolves
  <1>1. Init => MembershipResolves
    BY DEF Init, MembershipResolves, ConfiguredUsers, DefaultNames
  <1> QED BY <1>1, MembershipNext, TypeCorrect, PTL DEF Spec

-----------------------------------------------------------------------------
(* Administrators *)

ConfiguredAdmin == \E n \in DOMAIN ConfigUsers : ConfigUsers[n] = "admin"

\* No directory is asked, under any settings.
DirectoriesOff == /\ \A c \in LDAPSettings : ~c.enabled
                  /\ \A c \in IMAPSettings : ~c.enabled

LEMMA OthersKeepAdmin ==
  ASSUME NEW name, name \in AdminNames => ~IsLastAdmin(name), AdminExists,
         \A n \in DOMAIN users : n # name => n \in DOMAIN users' /\ users'[n] = users[n]
  PROVE  AdminExists'
  <1>1. PICK n \in AdminNames : n # name
    BY DEF AdminExists, IsLastAdmin
  <1>2. n \in AdminNames'
    BY <1>1 DEF AdminNames
  <1> QED BY <1>2 DEF AdminExists

LEMMA ConfiguredAdminExists ==
  ASSUME ConfiguredAdmin, NEW m, m = ConfiguredUsers
  PROVE  \E n \in DOMAIN m : m[n].role = "admin"
  BY DEF ConfiguredAdmin, ConfiguredUsers

LEMMA FallsToLogin ==
  ASSUME ConfiguredAdmin, TypeOK, AdminExists, [Next]_vars, ~AdminExists'
  PROVE  \E l \in DOMAIN login : Overwrites(l)
  <1> DEFINE Goal == \E l \in DOMAIN login : Overwrites(l)
  <1>1. users' # users
    BY DEF AdminExists, AdminNames
  <1>2. ASSUME NEW l \in Logins, LDAPAccepts(l) \/ IMAPAccepts(l) PROVE Goal
    <2>1. l \in DOMAIN login
      BY <1>2 DEF LDAPAccepts, IMAPAccepts, LoginAt
    <2>2. PICK n \in DOMAIN users : users[n].role = "admin"
      BY DEF AdminExists, AdminNames
    <2>3. ~(n \in DOMAIN users' /\ users'[n].role = "admin")
      BY DEF AdminExists, AdminNames
    <2>4. PICK account : users' = Put(users, login[l].name, account)
      <3>1. ASSUME NEW source, NEW list, ProvisionWrites(l, source, list)
            PROVE  users' = Put(users, login[l].name, Provisioned(source, list))
        BY <3>1 DEF ProvisionWrites
      <3>2. \/ ProvisionWrites(l, "ldap", ldapCfg.defaultGroups)
            \/ ProvisionWrites(l, "imap", imapCfg.defaultGroups)
        BY <1>1, <1>2 DEF LDAPAccepts, IMAPAccepts, ProvisionKeeps
      <3> QED BY <1>1, <3>1, <3>2
    <2>5. n = login[l].name /\ n \in DOMAIN users' /\ users'[n] # users[n]
      BY <2>2, <2>3, <2>4 DEF Put
    <2>6. Overwrites(l)
      BY <1>2, <2>2, <2>5 DEF Overwrites
    <2> QED BY <2>1, <2>6
  <1>3. ASSUME NEW a \in Admins, NEW name \in Names, NEW role \in Roles,
               CreateUser(a, name, role)
        PROVE  FALSE
    <2>1. name \notin AdminNames
      BY <1>3 DEF CreateUser, AdminNames
    <2>2. \A n \in DOMAIN users : n # name => n \in DOMAIN users' /\ users'[n] = users[n]
      BY <1>3 DEF CreateUser, Put
    <2> QED BY <2>1, <2>2, OthersKeepAdmin
  <1>4. ASSUME NEW a \in Admins, NEW name \in DOMAIN users, NEW role \in Roles,
               NEW password \in BOOLEAN, NEW list \in GroupLists \cup {users[name].groups},
               UpdateUser(a, name, role, password, list)
        PROVE  FALSE
    <2>1. users' = [users EXCEPT ![name].role = role, ![name].groups = list,
                                 ![name].hash = @ \/ password]
      BY <1>4 DEF UpdateUser
    <2>2. \A n \in DOMAIN users : n # name => n \in DOMAIN users' /\ users'[n] = users[n]
      BY <2>1
    <2>3. CASE role # "admin"
      BY <1>4, <2>2, <2>3, OthersKeepAdmin DEF UpdateUser
    <2>4. CASE role = "admin"
      <3>1. users[name] \in Account
        BY DEF TypeOK, MapOf
      <3>2. name \in DOMAIN users' /\ users'[name].role = "admin"
        BY <2>1, <2>4, <3>1 DEF Account
      <3> QED BY <3>2 DEF AdminExists, AdminNames
    <2> QED BY <2>3, <2>4
  <1>5. ASSUME NEW a \in Admins, NEW name \in Names, DeleteUser(a, name) PROVE FALSE
    <2>1. \A n \in DOMAIN users : n # name => n \in DOMAIN users' /\ users'[n] = users[n]
      BY <1>5 DEF DeleteUser, Drop
    <2> QED BY <1>5, <2>1, OthersKeepAdmin DEF DeleteUser
  <1>6. ASSUME NEW a \in Admins, NEW g \in GroupNames, DeleteGroup(a, g) PROVE FALSE
    <2>1. users' = [m \in DOMAIN users |-> [users[m] EXCEPT !.groups = @ \ {g}]]
      BY <1>6 DEF DeleteGroup
    <2>2. PICK n \in DOMAIN users : users[n].role = "admin"
      BY DEF AdminExists, AdminNames
    <2>3. users[n] \in Account
      BY DEF TypeOK, MapOf
    <2>4. n \in DOMAIN users' /\ users'[n].role = "admin"
      BY <2>1, <2>2, <2>3 DEF Account
    <2> QED BY <2>4 DEF AdminExists, AdminNames
  <1>7. CASE Restart
    BY <1>7, ConfiguredAdminExists DEF Restart, AdminExists, AdminNames
  <1> QED BY <1>1, <1>2, <1>3, <1>4, <1>5, <1>6, <1>7
     DEF Next, Login, VerifyAccepts, VerifyFallsBack, ReadFlags, LDAPRefuses,
         CheckDomain, IMAPRefuses, CreateSession, Guarded, Authenticate, Authorize,
         Refuse, Logout, SessionExpires, AdministerUsers, AdministerGroups,
         CreateGroup, UpdateGroup, AdministerDirectories, UpdateLDAP, UpdateIMAP, vars

\* If config.yaml has an administrator, requests of any number of administrators,
\* in any order, never remove the last one: only a login that overwrites an
\* account does (the guards of UpdateUser and DeleteUser, admin.go:165, 199).
THEOREM OnlyLoginsTakeTheLastAdmin ==
  ASSUME ConfiguredAdmin
  PROVE  Spec => LastAdminFallsToLogin
  <1>1. TypeOK /\ [Next]_vars =>
          [AdminExists /\ ~AdminExists' => \E l \in DOMAIN login : Overwrites(l)]_vars
    BY FallsToLogin
  <1> QED BY <1>1, TypeCorrect, PTL DEF Spec, LastAdminFallsToLogin

\* With the directories off no login gets as far as asking one.
NoneAsks == \A l \in DOMAIN login : login[l].stage \in {"flags", "accepted"}

LEMMA NoneAsksNext ==
  ASSUME DirectoriesOff, TypeOK, NoneAsks, [Next]_vars
  PROVE  NoneAsks'
  <1> SUFFICES ASSUME NEW k \in DOMAIN login' PROVE login'[k].stage \in {"flags", "accepted"}
    BY DEF NoneAsks
  <1> DEFINE Goal == login'[k].stage \in {"flags", "accepted"}
  <1>0. ~ldapCfg.enabled /\ ~imapCfg.enabled
    BY DEF DirectoriesOff, TypeOK
  <1>1. CASE login' = login
    BY <1>1 DEF NoneAsks
  <1>2. ASSUME NEW l, NEW name, NEW role, NEW stage \in {"flags", "accepted"},
               login' = Put(login, l, Started(name, stage, role))
        PROVE  Goal
    BY <1>2 DEF Put, Started, NoneAsks
  <1>3. ASSUME NEW l, Reject(l) PROVE Goal
    BY <1>3 DEF Reject, Drop, NoneAsks
  <1>4. ASSUME NEW name, NoteCreated(name) \/ NoteDeleted(name) PROVE Goal
    <2>1. k \in DOMAIN login /\ login[k] \in LoginState
      BY <1>4 DEF NoteCreated, NoteDeleted, TypeOK, MapOf
    <2>2. login'[k].stage = login[k].stage
      BY <1>4, <2>1 DEF NoteCreated, NoteDeleted, LoginState
    <2> QED BY <2>1, <2>2 DEF NoneAsks
  <1>5. ASSUME NEW l \in Logins, NEW name \in Names, VerifyAccepts(l, name) PROVE Goal
    BY <1>2, <1>5 DEF VerifyAccepts
  <1>6. ASSUME NEW l \in Logins, NEW name \in Names, VerifyFallsBack(l, name) PROVE Goal
    BY <1>2, <1>6 DEF VerifyFallsBack
  <1>7. ASSUME NEW l \in Logins, ReadFlags(l) PROVE Goal
    BY <1>0, <1>3, <1>7 DEF ReadFlags
  <1>8. ASSUME NEW l \in Logins,
               LDAPAccepts(l) \/ LDAPRefuses(l) \/ CheckDomain(l) \/ IMAPAccepts(l)
                 \/ IMAPRefuses(l)
        PROVE  FALSE
    BY <1>8 DEF LDAPAccepts, LDAPRefuses, CheckDomain, IMAPAccepts, IMAPRefuses, LoginAt, NoneAsks
  <1>9. ASSUME NEW l \in Logins, NEW t \in Tokens, CreateSession(l, t) PROVE Goal
    BY <1>9 DEF CreateSession, Drop, NoneAsks
  <1>10. CASE Guarded
    BY <1>1, <1>10 DEF Guarded, Authenticate, Authorize, Refuse, Logout, SessionExpires
  <1>11. CASE AdministerUsers
    <2>1. \/ UNCHANGED login
          \/ \E name \in Names : NoteCreated(name) \/ NoteDeleted(name)
      BY <1>11 DEF AdministerUsers, CreateUser, UpdateUser, DeleteUser
    <2> QED BY <1>1, <1>4, <2>1
  <1>12. CASE AdministerGroups
    BY <1>1, <1>12 DEF AdministerGroups, CreateGroup, UpdateGroup, DeleteGroup
  <1>13. CASE AdministerDirectories
    BY <1>1, <1>13 DEF AdministerDirectories, UpdateLDAP, UpdateIMAP
  <1>14. CASE Restart
    BY <1>14 DEF Restart, Empty
  <1>15. CASE UNCHANGED vars
    BY <1>1, <1>15 DEF vars
  <1> QED BY <1>5, <1>6, <1>7, <1>8, <1>9, <1>10, <1>11, <1>12, <1>13, <1>14, <1>15
      DEF Next, Login

\* Without directories there is always an administrator, if config.yaml has one:
\* no interleaving of demotions, deletions, logins and restarts leaves the
\* server without (admin.go:165, 199).
THEOREM AdminStays ==
  ASSUME ConfiguredAdmin, DirectoriesOff
  PROVE  Spec => []AdminExists
  <1>1. Init => AdminExists /\ NoneAsks
    BY ConfiguredAdminExists DEF Init, AdminExists, AdminNames, NoneAsks, Empty
  <1>2. TypeOK /\ NoneAsks /\ [Next]_vars => NoneAsks'
    BY NoneAsksNext
  <1>3. TypeOK /\ NoneAsks /\ AdminExists /\ [Next]_vars => AdminExists'
    BY FallsToLogin DEF Overwrites, LDAPAccepts, IMAPAccepts, LoginAt, NoneAsks
  <1> QED BY <1>1, <1>2, <1>3, TypeCorrect, PTL DEF Spec

-----------------------------------------------------------------------------
(* Sessions *)

\* A login that only has its session left to create, of an account that is
\* there or was deleted meanwhile.
AcceptedHasAccount == \A l \in DOMAIN login :
    LoginAt(l, "accepted") => login[l].name \in DOMAIN users \/ login[l].deleted

SessionHasAccount == \A t \in DOMAIN sessions :
    sessions[t].username \in DOMAIN users \/ sessions[t].late

LEMMA SessionParts == SessionsDieWithAccount <=> SessionHasAccount /\ AcceptedHasAccount
  BY DEF SessionsDieWithAccount, SessionHasAccount, AcceptedHasAccount

\* Steps that remove no account.
LEMMA SessionsKeep ==
  ASSUME SessionHasAccount, DOMAIN users \subseteq DOMAIN users',
         \A t \in DOMAIN sessions' : t \in DOMAIN sessions /\ sessions'[t] = sessions[t]
  PROVE  SessionHasAccount'
  BY DEF SessionHasAccount

LEMMA AcceptedKeep ==
  ASSUME AcceptedHasAccount, DOMAIN users \subseteq DOMAIN users',
         \A k \in DOMAIN login' : LoginAt(k, "accepted")' =>
            \/ login'[k].name \in DOMAIN users'
            \/ k \in DOMAIN login /\ login'[k] = login[k]
  PROVE  AcceptedHasAccount'
  BY DEF AcceptedHasAccount, LoginAt

LEMMA NoteKeeps ==
  ASSUME TypeOK, NEW name, NoteCreated(name) \/ NoteDeleted(name), NEW k \in DOMAIN login'
  PROVE  /\ k \in DOMAIN login /\ login'[k].name = login[k].name
         /\ login'[k].stage = login[k].stage
         /\ NoteDeleted(name) /\ login[k].name = name => login'[k].deleted
         /\ NoteCreated(name) /\ login[k].name = name => login'[k].created
  <1>1. k \in DOMAIN login /\ login[k] \in LoginState
    BY DEF NoteCreated, NoteDeleted, TypeOK, MapOf
  <1> QED BY <1>1 DEF NoteCreated, NoteDeleted, LoginState

\* A login goes on to a stage, and may note whether IMAP is enabled.
Advance(l, stage) ==
    \/ Proceed(l, stage)
    \/ \E b : login' = [login EXCEPT ![l].stage = stage, ![l].imapOn = b]

LEMMA AdvanceKeeps ==
  ASSUME TypeOK, NEW l \in DOMAIN login, NEW stage,
         Advance(l, stage), NEW k \in DOMAIN login'
  PROVE  /\ k \in DOMAIN login /\ login'[k].name = login[k].name
         /\ login'[k].created = login[k].created /\ login'[k].deleted = login[k].deleted
         /\ login'[k].stage = IF k = l THEN stage ELSE login[k].stage
         /\ k # l => login'[k] = login[k]
  <1>1. k \in DOMAIN login /\ login[k] \in LoginState
    BY DEF Advance, Proceed, TypeOK, MapOf
  <1>2. CASE Proceed(l, stage)
    BY <1>1, <1>2 DEF Proceed, LoginState
  <1>3. CASE ~Proceed(l, stage)
    <2>1. PICK b : login' = [login EXCEPT ![l].stage = stage, ![l].imapOn = b]
      BY <1>3 DEF Advance
    <2>2. login' = [login EXCEPT ![l] = [login[l] EXCEPT !.stage = stage, !.imapOn = b]]
      BY <2>1, Zenon
    <2>3. CASE k = l
      <3>1. login'[k] = [login[k] EXCEPT !.stage = stage, !.imapOn = b]
        BY <1>1, <2>2, <2>3
      <3> QED BY <1>1, <2>3, <3>1 DEF LoginState
    <2>4. CASE k # l
      BY <1>1, <2>2, <2>4
    <2> QED BY <2>3, <2>4
  <1> QED BY <1>2, <1>3

LEMMA AcceptKeeps ==
  ASSUME TypeOK, NEW l \in DOMAIN login, NEW account, Accept(l, account), NEW k \in DOMAIN login'
  PROVE  /\ k \in DOMAIN login /\ login'[k].name = login[k].name
         /\ login'[k].stage = IF k = l THEN "accepted" ELSE login[k].stage
         /\ k # l => login'[k] = login[k]
  <1>1. k \in DOMAIN login /\ login[k] \in LoginState
    BY DEF Accept, TypeOK, MapOf
  <1> QED BY <1>1 DEF Accept, LoginState

\* What a directory's answer does: the login keeps its account, writes it, or
\* is rejected.
LEMMA DirectoryAnswer ==
  ASSUME NEW l, LDAPAccepts(l) \/ IMAPAccepts(l)
  PROVE  /\ l \in DOMAIN login /\ UNCHANGED <<groups, sessions, ldapCfg, imapCfg, request>>
         /\ \/ Reject(l) /\ users' = users
            \/ \E account : /\ Accept(l, account)
                            /\ login[l].name \in DOMAIN users' /\ users' = users
            \/ \E source \in External : \E list :
                  LET account == Provisioned(source, list)
                  IN  Accept(l, account) /\ users' = Put(users, login[l].name, account)
  <1>1. l \in DOMAIN login /\ UNCHANGED <<groups, sessions, ldapCfg, imapCfg, request>>
    BY DEF LDAPAccepts, IMAPAccepts, LoginAt
  <1>2. ASSUME NEW source \in External, ProvisionKeeps(l, source)
        PROVE  \E account : /\ Accept(l, account)
                           /\ login[l].name \in DOMAIN users' /\ users' = users
    BY <1>2 DEF ProvisionKeeps, HasSource
  <1>3. ASSUME NEW source \in External, NEW list, ProvisionWrites(l, source, list)
        PROVE  Accept(l, Provisioned(source, list))
               /\ users' = Put(users, login[l].name, Provisioned(source, list))
    BY <1>3 DEF ProvisionWrites
  <1>4. \/ Reject(l) /\ users' = users
        \/ ProvisionKeeps(l, "ldap") \/ ProvisionKeeps(l, "imap")
        \/ ProvisionWrites(l, "ldap", ldapCfg.defaultGroups)
        \/ ProvisionWrites(l, "imap", imapCfg.defaultGroups)
    BY DEF LDAPAccepts, IMAPAccepts
  <1>5. "ldap" \in External /\ "imap" \in External
    BY DEF External
  <1> QED BY <1>1, <1>2, <1>3, <1>4, <1>5

LEMMA SessionsLogin ==
  ASSUME TypeOK, SessionHasAccount, AcceptedHasAccount, Login
  PROVE  SessionHasAccount' /\ AcceptedHasAccount'
  <1>1. ASSUME NEW l \in Logins, NEW name \in Names, VerifyAccepts(l, name) \/ VerifyFallsBack(l, name)
        PROVE  SessionHasAccount' /\ AcceptedHasAccount'
    <2>1. UNCHANGED <<users, sessions>>
      BY <1>1 DEF VerifyAccepts, VerifyFallsBack
    <2>2. ASSUME NEW k \in DOMAIN login', LoginAt(k, "accepted")'
          PROVE  \/ login'[k].name \in DOMAIN users'
                 \/ k \in DOMAIN login /\ login'[k] = login[k]
      BY <1>1, <2>1, <2>2 DEF VerifyAccepts, VerifyFallsBack, Put, Started, LoginAt
    <2> QED BY <2>1, <2>2, SessionsKeep, AcceptedKeep
  <1>2. ASSUME NEW l \in Logins, ReadFlags(l) \/ LDAPRefuses(l) \/ CheckDomain(l) \/ IMAPRefuses(l)
        PROVE  SessionHasAccount' /\ AcceptedHasAccount'
    <2>1. UNCHANGED <<users, sessions>> /\ l \in DOMAIN login
      BY <1>2 DEF ReadFlags, LDAPRefuses, CheckDomain, IMAPRefuses, LoginAt
    <2>2. \/ Reject(l)
          \/ \E stage \in {"ldap", "domain", "imap"} : Advance(l, stage)
      BY <1>2 DEF ReadFlags, LDAPRefuses, CheckDomain, IMAPRefuses, Advance
    <2>3. ASSUME NEW k \in DOMAIN login', LoginAt(k, "accepted")'
          PROVE  k \in DOMAIN login /\ login'[k] = login[k]
      <3>1. CASE Reject(l)
        BY <3>1 DEF Reject, Drop
      <3>2. ASSUME NEW stage \in {"ldap", "domain", "imap"}, Advance(l, stage)
            PROVE  k \in DOMAIN login /\ login'[k] = login[k]
        <4>1. login'[k].stage = "accepted"
          BY <2>3 DEF LoginAt
        <4>2. k # l
          BY <2>1, <2>3, <3>2, <4>1, AdvanceKeeps
        <4> QED BY <2>1, <2>3, <3>2, <4>2, AdvanceKeeps
      <3> QED BY <2>2, <3>1, <3>2
    <2> QED BY <2>1, <2>3, SessionsKeep, AcceptedKeep
  <1>3. ASSUME NEW l \in Logins, LDAPAccepts(l) \/ IMAPAccepts(l)
        PROVE  SessionHasAccount' /\ AcceptedHasAccount'
    <2>1. l \in DOMAIN login /\ sessions' = sessions
      BY <1>3, DirectoryAnswer
    <2>2. CASE Reject(l) /\ users' = users
      BY <2>1, <2>2, SessionsKeep, AcceptedKeep DEF Reject, Drop
    <2>3. ASSUME NEW account, Accept(l, account), login[l].name \in DOMAIN users',
                 DOMAIN users \subseteq DOMAIN users'
          PROVE  SessionHasAccount' /\ AcceptedHasAccount'
      <3>1. ASSUME NEW k \in DOMAIN login'
            PROVE  \/ login'[k].name \in DOMAIN users'
                   \/ k \in DOMAIN login /\ login'[k] = login[k]
        BY <2>1, <2>3, AcceptKeeps
      <3> QED BY <2>1, <2>3, <3>1, SessionsKeep, AcceptedKeep
    <2>4. ASSUME NEW account, users' = Put(users, login[l].name, account)
          PROVE  login[l].name \in DOMAIN users' /\ DOMAIN users \subseteq DOMAIN users'
      BY <2>4 DEF Put
    <2> QED BY <1>3, <2>2, <2>3, <2>4, DirectoryAnswer
  <1>4. ASSUME NEW l \in Logins, NEW t \in Tokens, CreateSession(l, t)
        PROVE  SessionHasAccount' /\ AcceptedHasAccount'
    <2>1. login' = Drop(login, l) /\ users' = users /\ LoginAt(l, "accepted") /\ l \in DOMAIN login
          /\ sessions' = Put(sessions, t, [username |-> login[l].name, role |-> login[l].role,
                                           late |-> login[l].deleted])
      BY <1>4 DEF CreateSession, LoginAt
    <2>2. AcceptedHasAccount'
      BY <2>1, AcceptedKeep DEF Drop
    <2>3. login[l].name \in DOMAIN users \/ login[l].deleted
      BY <2>1 DEF AcceptedHasAccount
    <2>4. SessionHasAccount'
      BY <2>1, <2>3 DEF SessionHasAccount, Put
    <2> QED BY <2>2, <2>4
  <1> QED BY <1>1, <1>2, <1>3, <1>4 DEF Login

LEMMA SessionsNext ==
  ASSUME TypeOK, SessionHasAccount, AcceptedHasAccount, [Next]_vars
  PROVE  SessionHasAccount' /\ AcceptedHasAccount'
  <1>1. CASE Login
    BY <1>1, SessionsLogin
  <1>2. ASSUME users' = users \/ DOMAIN users' = DOMAIN users, UNCHANGED <<sessions, login>>
        PROVE  SessionHasAccount' /\ AcceptedHasAccount'
    BY <1>2 DEF SessionHasAccount, AcceptedHasAccount, LoginAt
  <1>3. CASE Guarded
    <2>1. ASSUME NEW t \in Tokens, Logout(t) \/ SessionExpires(t)
          PROVE  SessionHasAccount' /\ AcceptedHasAccount'
      BY <2>1, SessionsKeep, AcceptedKeep DEF Logout, SessionExpires, Drop
    <2> QED BY <1>2, <1>3, <2>1 DEF Guarded, Authenticate, Authorize, Refuse
  <1>4. ASSUME NEW a \in Admins, NEW name \in Names, NEW role \in Roles,
               CreateUser(a, name, role)
        PROVE  SessionHasAccount' /\ AcceptedHasAccount'
    <2>1. /\ DOMAIN users' = DOMAIN users \cup {name} /\ sessions' = sessions
          /\ NoteCreated(name)
      BY <1>4 DEF CreateUser, Put
    <2>2. SessionHasAccount'
      BY <2>1, SessionsKeep
    <2>3. ASSUME NEW k \in DOMAIN login', LoginAt(k, "accepted")'
          PROVE  login'[k].name \in DOMAIN users' \/ login'[k].deleted
      <3>1. k \in DOMAIN login /\ LoginAt(k, "accepted") /\ login'[k].name = login[k].name
            /\ login'[k].deleted = login[k].deleted
        <4>1. k \in DOMAIN login /\ login[k] \in LoginState
          BY <2>1 DEF NoteCreated, TypeOK, MapOf
        <4> QED BY <2>1, <2>3, <4>1 DEF NoteCreated, LoginAt, LoginState
      <3> QED BY <2>1, <3>1 DEF AcceptedHasAccount
    <2> QED BY <2>2, <2>3 DEF AcceptedHasAccount
  <1>5. ASSUME NEW a \in Admins, NEW name \in DOMAIN users, NEW role \in Roles,
               NEW password \in BOOLEAN, NEW list \in GroupLists \cup {users[name].groups},
               UpdateUser(a, name, role, password, list)
        PROVE  SessionHasAccount' /\ AcceptedHasAccount'
    BY <1>2, <1>5 DEF UpdateUser
  <1>6. ASSUME NEW a \in Admins, NEW name \in Names, DeleteUser(a, name)
        PROVE  SessionHasAccount' /\ AcceptedHasAccount'
    <2>1. /\ DOMAIN users' = DOMAIN users \ {name} /\ NoteDeleted(name)
          /\ sessions' = [t \in {s \in DOMAIN sessions : sessions[s].username # name}
                             |-> sessions[t]]
      BY <1>6 DEF DeleteUser, Drop
    <2>2. SessionHasAccount'
      BY <2>1 DEF SessionHasAccount
    <2>3. ASSUME NEW k \in DOMAIN login', LoginAt(k, "accepted")'
          PROVE  login'[k].name \in DOMAIN users' \/ login'[k].deleted
      <3>1. k \in DOMAIN login /\ LoginAt(k, "accepted") /\ login'[k].name = login[k].name
        BY <2>1, <2>3, NoteKeeps DEF LoginAt
      <3>2. CASE login[k].name = name
        BY <2>1, <3>2, NoteKeeps
      <3>3. CASE login[k].name # name
        <4>1. login'[k] = login[k]
          BY <2>1, <3>1, <3>3 DEF NoteDeleted
        <4> QED BY <2>1, <3>1, <3>3, <4>1 DEF AcceptedHasAccount
      <3> QED BY <3>2, <3>3
    <2> QED BY <2>2, <2>3 DEF AcceptedHasAccount
  <1>7. CASE AdministerGroups \/ AdministerDirectories
    BY <1>2, <1>7 DEF AdministerGroups, CreateGroup, UpdateGroup, DeleteGroup,
       AdministerDirectories, UpdateLDAP, UpdateIMAP
  <1>8. CASE Restart
    BY <1>8 DEF Restart, Empty, SessionHasAccount, AcceptedHasAccount
  <1>9. CASE UNCHANGED vars
    BY <1>2, <1>9 DEF vars
  <1> QED BY <1>1, <1>3, <1>4, <1>5, <1>6, <1>7, <1>8, <1>9 DEF Next, AdministerUsers

\* A session outlives its account only when the account was deleted while the
\* login that made it was between verify and CreateSession, however logins,
\* deletions and provisioning interleave (DeleteUser, admin.go:190-213).
THEOREM SessionsDie == Spec => []SessionsDieWithAccount
  <1>1. Init => SessionHasAccount /\ AcceptedHasAccount
    BY DEF Init, Empty, SessionHasAccount, AcceptedHasAccount
  <1> QED BY <1>1, SessionsNext, SessionParts, TypeCorrect, PTL DEF Spec

-----------------------------------------------------------------------------
(* Overwritten accounts *)

\* While a login asks the directories, an account of its name is a directory's,
\* or was created meanwhile.
AskedIsExternal == \A l \in DOMAIN login :
    login[l].stage # "accepted" /\ login[l].name \in DOMAIN users =>
        users[login[l].name].source \in External \/ login[l].created

\* Steps after which every account is as it was, or a directory's.
LEMMA AskedKeep ==
  ASSUME AskedIsExternal,
         \A n \in DOMAIN users' : \/ users'[n].source \in External
                                  \/ n \in DOMAIN users /\ users'[n].source = users[n].source,
         \A k \in DOMAIN login' : login'[k].stage # "accepted" =>
            /\ k \in DOMAIN login /\ login[k].stage # "accepted"
            /\ login'[k].name = login[k].name /\ login'[k].created = login[k].created
  PROVE  AskedIsExternal'
  BY DEF AskedIsExternal

LEMMA AskedLogin ==
  ASSUME TypeOK, AskedIsExternal, Login
  PROVE  AskedIsExternal'
  <1>1. ASSUME NEW l \in Logins, NEW name \in Names, VerifyAccepts(l, name)
        PROVE  AskedIsExternal'
    BY <1>1 DEF VerifyAccepts, Put, Started, AskedIsExternal
  <1>2. ASSUME NEW l \in Logins, NEW name \in Names, VerifyFallsBack(l, name)
        PROVE  AskedIsExternal'
    BY <1>2 DEF VerifyFallsBack, CanFallback, Put, Started, AskedIsExternal
  <1>3. ASSUME NEW l \in Logins, ReadFlags(l) \/ LDAPRefuses(l) \/ CheckDomain(l) \/ IMAPRefuses(l)
        PROVE  AskedIsExternal'
    <2>1. users' = users /\ l \in DOMAIN login /\ login[l].stage # "accepted"
      BY <1>3 DEF ReadFlags, LDAPRefuses, CheckDomain, IMAPRefuses, LoginAt
    <2>2. \/ Reject(l)
          \/ \E stage \in {"ldap", "domain", "imap"} : Advance(l, stage)
      BY <1>3 DEF ReadFlags, LDAPRefuses, CheckDomain, IMAPRefuses, Advance
    <2>3. ASSUME NEW k \in DOMAIN login', login'[k].stage # "accepted"
          PROVE  /\ k \in DOMAIN login /\ login[k].stage # "accepted"
                 /\ login'[k].name = login[k].name /\ login'[k].created = login[k].created
      <3>1. CASE Reject(l)
        BY <2>3, <3>1 DEF Reject, Drop
      <3>2. CASE ~Reject(l)
        BY <2>1, <2>2, <2>3, <3>2, AdvanceKeeps
      <3> QED BY <3>1, <3>2
    <2> QED BY <2>1, <2>3, AskedKeep
  <1>4. ASSUME NEW l \in Logins, LDAPAccepts(l) \/ IMAPAccepts(l)
        PROVE  AskedIsExternal'
    <2>1. ASSUME NEW n \in DOMAIN users'
          PROVE  \/ users'[n].source \in External
                 \/ n \in DOMAIN users /\ users'[n].source = users[n].source
      <3>1. ASSUME NEW source \in External, NEW list,
                   users' = Put(users, login[l].name, Provisioned(source, list))
            PROVE  \/ users'[n].source \in External
                   \/ n \in DOMAIN users /\ users'[n] = users[n]
        <4>1. Provisioned(source, list).source = source
          BY DEF Provisioned
        <4> QED BY <2>1, <3>1, <4>1 DEF Put
      <3> QED BY <1>4, <2>1, <3>1, DirectoryAnswer
    <2>2. ASSUME NEW k \in DOMAIN login', login'[k].stage # "accepted"
          PROVE  k \in DOMAIN login /\ login'[k] = login[k]
      <3>1. CASE Reject(l)
        BY <2>2, <3>1 DEF Reject, Drop
      <3>2. ASSUME NEW account, Accept(l, account)
            PROVE  k \in DOMAIN login /\ login'[k] = login[k]
        BY <1>4, <2>2, <3>2, AcceptKeeps, DirectoryAnswer
      <3> QED BY <1>4, <3>1, <3>2, DirectoryAnswer
    <2> QED BY <2>1, <2>2, AskedKeep
  <1>5. ASSUME NEW l \in Logins, NEW t \in Tokens, CreateSession(l, t)
        PROVE  AskedIsExternal'
    BY <1>5, AskedKeep DEF CreateSession, Drop
  <1> QED BY <1>1, <1>2, <1>3, <1>4, <1>5 DEF Login

LEMMA AskedNext ==
  ASSUME TypeOK, AskedIsExternal, [Next]_vars
  PROVE  AskedIsExternal'
  <1>1. CASE Login
    BY <1>1, AskedLogin
  <1>2. ASSUME UNCHANGED <<users, login>> PROVE AskedIsExternal'
    BY <1>2 DEF AskedIsExternal
  <1>3. CASE Guarded
    BY <1>2, <1>3 DEF Guarded, Authenticate, Authorize, Refuse, Logout, SessionExpires
  <1>4. ASSUME NEW a \in Admins, NEW name \in Names, NEW role \in Roles,
               CreateUser(a, name, role)
        PROVE  AskedIsExternal'
    <2>1. NoteCreated(name) /\ DOMAIN users' = DOMAIN users \cup {name}
          /\ \A n \in DOMAIN users : n # name => users'[n] = users[n]
      BY <1>4 DEF CreateUser, Put
    <2>2. ASSUME NEW k \in DOMAIN login', login'[k].stage # "accepted",
                 login'[k].name \in DOMAIN users'
          PROVE  users'[login'[k].name].source \in External \/ login'[k].created
      <3>1. CASE login[k].name = name
        BY <2>1, <2>2, <3>1, NoteKeeps
      <3>2. CASE login[k].name # name
        <4>1. k \in DOMAIN login /\ login'[k] = login[k]
          BY <2>1, <2>2, <3>2 DEF NoteCreated
        <4> QED BY <2>1, <2>2, <3>2, <4>1 DEF AskedIsExternal
      <3> QED BY <3>1, <3>2
    <2> QED BY <2>2 DEF AskedIsExternal
  <1>5. ASSUME NEW a \in Admins, NEW name \in DOMAIN users, NEW role \in Roles,
               NEW password \in BOOLEAN, NEW list \in GroupLists \cup {users[name].groups},
               UpdateUser(a, name, role, password, list)
        PROVE  AskedIsExternal'
    <2>1. users' = [users EXCEPT ![name].role = role, ![name].groups = list,
                                 ![name].hash = @ \/ password] /\ login' = login
      BY <1>5 DEF UpdateUser
    <2>2. ASSUME NEW n \in DOMAIN users'
          PROVE  n \in DOMAIN users /\ users'[n].source = users[n].source
      <3>1. n \in DOMAIN users /\ users[n] \in Account
        BY <2>1, <2>2 DEF TypeOK, MapOf
      <3> QED BY <2>1, <3>1 DEF Account
    <2> QED BY <2>1, <2>2, AskedKeep
  <1>6. ASSUME NEW a \in Admins, NEW name \in Names, DeleteUser(a, name)
        PROVE  AskedIsExternal'
    <2>1. users' = Drop(users, name) /\ NoteDeleted(name)
      BY <1>6 DEF DeleteUser
    <2>2. ASSUME NEW k \in DOMAIN login'
          PROVE  /\ k \in DOMAIN login /\ login'[k].stage = login[k].stage
                 /\ login'[k].name = login[k].name /\ login'[k].created = login[k].created
      <3>1. k \in DOMAIN login /\ login[k] \in LoginState
        BY <2>1, <2>2 DEF NoteDeleted, TypeOK, MapOf
      <3> QED BY <2>1, <3>1 DEF NoteDeleted, LoginState
    <2> QED BY <2>1, <2>2, AskedKeep DEF Drop
  <1>7. ASSUME NEW a \in Admins, NEW g \in GroupNames, DeleteGroup(a, g)
        PROVE  AskedIsExternal'
    <2>1. users' = [m \in DOMAIN users |-> [users[m] EXCEPT !.groups = @ \ {g}]] /\ login' = login
      BY <1>7 DEF DeleteGroup
    <2>2. ASSUME NEW n \in DOMAIN users'
          PROVE  n \in DOMAIN users /\ users'[n].source = users[n].source
      <3>1. n \in DOMAIN users /\ users[n] \in Account
        BY <2>1, <2>2 DEF TypeOK, MapOf
      <3> QED BY <2>1, <3>1 DEF Account
    <2> QED BY <2>1, <2>2, AskedKeep
  <1>8. CASE AdministerDirectories
    BY <1>2, <1>8 DEF AdministerDirectories, UpdateLDAP, UpdateIMAP
  <1>9. ASSUME NEW a \in Admins, NEW g \in GroupNames, NEW perms \in PermLists,
               CreateGroup(a, g, perms) \/ UpdateGroup(a, g, perms)
        PROVE  AskedIsExternal'
    BY <1>2, <1>9 DEF CreateGroup, UpdateGroup
  <1>10. CASE Restart
    BY <1>10 DEF Restart, Empty, AskedIsExternal
  <1>11. CASE UNCHANGED vars
    BY <1>2, <1>11 DEF vars
  <1> QED BY <1>1, <1>3, <1>4, <1>5, <1>6, <1>7, <1>8, <1>9, <1>10, <1>11
      DEF Next, AdministerUsers, AdministerGroups

\* A login overwrites a local account only if it was created after the login
\* had seen that there was none; an account of the directory that accepts is
\* never overwritten (provisionLDAP, ldap.go:66-86; provisionIMAP, imap.go:77-101).
THEOREM OnlyRacesOverwrite == Spec => OverwritesAreRaces
  <1>1. AskedIsExternal /\ [Next]_vars =>
          [\A l \in DOMAIN login :
             Overwrites(l) => \/ login[l].created
                              \/ LDAPAccepts(l) /\ HasSource(login[l].name, "imap")
                              \/ IMAPAccepts(l) /\ HasSource(login[l].name, "ldap")]_vars
    <2> SUFFICES ASSUME AskedIsExternal, NEW l \in DOMAIN login, Overwrites(l), ~login[l].created
                 PROVE  \/ LDAPAccepts(l) /\ HasSource(login[l].name, "imap")
                        \/ IMAPAccepts(l) /\ HasSource(login[l].name, "ldap")
      OBVIOUS
    <2>1. login[l].name \in DOMAIN users /\ users' # users
      BY DEF Overwrites
    <2>2. users[login[l].name].source \in External
      BY <2>1 DEF AskedIsExternal, Overwrites, LDAPAccepts, IMAPAccepts, LoginAt
    <2>3. ASSUME NEW source, NEW list, ProvisionWrites(l, source, list)
          PROVE  ~HasSource(login[l].name, source)
      BY <2>3 DEF ProvisionWrites
    <2>4. CASE LDAPAccepts(l)
      BY <2>1, <2>2, <2>3, <2>4 DEF LDAPAccepts, ProvisionKeeps, HasSource, External
    <2>5. CASE IMAPAccepts(l)
      BY <2>1, <2>2, <2>3, <2>5 DEF IMAPAccepts, ProvisionKeeps, HasSource, External
    <2> QED BY <2>4, <2>5 DEF Overwrites
  <1>2. Init => AskedIsExternal
    BY DEF Init, Empty, AskedIsExternal
  <1>3. TypeOK /\ AskedIsExternal /\ [Next]_vars => AskedIsExternal'
    BY AskedNext
  <1> QED BY <1>1, <1>2, <1>3, TypeCorrect, PTL DEF Spec, OverwritesAreRaces
=============================================================================
