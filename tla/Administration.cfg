CONSTANTS
    other = other
    third = third
    p1 = p1
    p2 = p2
    h1 = h1
    h2 = h2
    b1 = b1
    b2 = b2
    g1 = g1
    good = good
    slow = slow
    bad = bad
    f1 = f1
    k1 = k1
    mask = mask
    n1 = n1
    s1 = s1
    fa = fa
    fb = fb
    d1 = d1
    plain = plain
    token = token
    proto = proto
    Names = {AdminName, other, third}
    AdminName = AdminName
    Passwords = {p1, p2}
    Ips = {"127.0.0.1"}
    Environments <- MCEnvironments
    Handlers = {h1, h2}
    Boots = {b1, b2}
    None = None
    MaxAttempts = 1
    IpLimit = 2
    Window = 2
    LockTtl = 1
    AccessTtl = 1
    RefreshTtl = 2
    FileTtl = 1
    MaxClock = 2
    MaxIds = 3
    MaxTokens = 6
    Groups = {g1}
    Feeds = {f1}
    Titles = {n1}
    Times = {"23:00", "07:00"}
    Patterns = {good, slow, bad}
    Slow = {slow}
    Malformed = {bad}
    Secrets = {k1}
    EnvKey = EnvKey
    Masked = mask
    SelfIds = {s1}
    Bodies <- MCBodies
    GroupBodies <- MCGroupBodies
    Requesters = {h1, h2}
    Unset = Unset
    Torn = Torn
    Bad = Bad
    Attempts = 2
    MaxCommits = 3
    Requests = {h1, h2}
    Versions = {1, 2}
    Files = {fa, fb}
    Archives <- MCArchives
    MaxOutput = 4
    MaxEvents = 1
    Nil = Nil
    Detectors = {d1}
    Actions = {"mute", "off", "kick"}
    Sites = {"wrapper", "group"}
    Keys = {plain, token, proto}
    SecretKeys = {token}
    UnsafeKeys = {proto}
    Legacy <- MCLegacy
    Missing = Missing
    RefusedFile = RefusedFile
    MaxEntries = 1
SPECIFICATION AdministrationSpec
INVARIANTS OneRefreshPerLogin NextBootAccepts SecretsStayApart MixIsRecoverable NothingSilentlyDropped
PROPERTIES LastAdminStands LoginIsOfItsAccount UpdateIsLocal AppliesWhatItVerified
CHECK_DEADLOCK FALSE
