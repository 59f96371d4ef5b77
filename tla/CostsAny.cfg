SPECIFICATION BothSpec
CONSTANTS
    Session = {s1, s2}
    Sku <- MCSku
    Norm <- MCNorm
    MapsTo <- MCMapsTo
    Day = {1, 2}
    Files <- MCFiles
    NoSku = "nan"
    Blank = Blank
    Null = Null
    MaxActs = 3
    Visitor = {v1, v2}
    Email = {e1, e2}
    Invite = {i1, i2}
    Link = {l1}
    Secret = {p1, p2}
    Modes = {"open", "invite_only"}
    Nobody = Nobody
    Lifetime = {1, 2}
    LinkLifetime = 1
    LastHour = 1
    MaxRequests = 5
SYMMETRY Symmetric
INVARIANTS SurfacesAgree InvitesAreHonest AuditExplainsPasswords
PROPERTIES ImportIsOnce
CHECK_DEADLOCK FALSE
