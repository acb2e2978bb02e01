SPECIFICATION Spec
CONSTANTS
    l1 = l1  l2 = l2  a1 = a1  a2 = a2  t1 = t1  t2 = t2
    Names = {"root", "alice"}
    GroupNames = {"users", "admin"}
    ValidPerms = {"download", "users", "groups"}
    Logins = {l1}
    Admins = {a1}
    Tokens = {t1}
    ConfigUsers <- Root
    LDAPSettings <- SomeLDAP
    IMAPSettings <- SomeIMAP
    GroupLists = {}
    PermLists = {}
SYMMETRY RequestSymmetry
INVARIANTS CredentialMatchesSource
PROPERTIES LastAdminFallsToLogin OverwritesAreRaces
