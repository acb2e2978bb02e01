SPECIFICATION Spec
CONSTANTS
    l1 = l1  l2 = l2  a1 = a1  a2 = a2  t1 = t1  t2 = t2
    Names = {"root", "alice"}
    GroupNames = {"users", "admin"}
    ValidPerms = {"download", "users", "groups"}
    Logins = {l1}
    Admins = {a1, a2}
    Tokens = {t1}
    ConfigUsers <- Root
    LDAPSettings <- NoLDAP
    IMAPSettings <- NoIMAP
    GroupLists = {{"admin"}}
    PermLists = {{"download"}, {"users", "sudo"}}
SYMMETRY RequestSymmetry
INVARIANTS TypeOK MembershipResolves AdminExists SessionsDieWithAccount
