SPECIFICATION Spec
CONSTANTS
    Names = {"admin", "user"}
    Admin = "admin"
    Sources = {"local", "ldap", "oidc"}
    Secrets = {"s1", "s2"}
    NoSecret = "none"
    Clients = {1, 2}
    Nobody = "nobody"
    Tables <- MCTables
    Cookies <- MCCookies
    Archive <- MCArchive
    MaxRequests = 2
    MaxFaults = 1
INVARIANT
    TypeOK
PROPERTIES
    SourceIsKept
    AnsweredIsDurable
    SeedIsKept
    RedirectsEnd
CHECK_DEADLOCK FALSE
