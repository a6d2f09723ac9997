CONSTANTS
    c1 = c1
    s1 = s1
    s2 = s2
    pub = pub
    priv = priv
    home = home
    away = away
    Calls = {c1}
    NoCall = NoCall
    MaxSockets = 3
    MaxFrames = 3
    MaxAttempts = 2
    FrameLimit = 2
    EventLimit = 1
    Close1009Throws = {TRUE, FALSE}
    Native = Native
    SdkTransports = {s1, s2}
    NoTransport = NoTransport
    FallbackMode = "auto"
    MaxDrops = 3
    MaxEvents = 3
    MaxBuffered = 2
    SdkMaxAttempts = 2
    SdkEventLimit = 2
    SdkCloseMayThrow = TRUE
    MaxSdkMishaps = 4
    PortCalls = {"first", "second"}
    NoCallYet = NoCallYet
    MaxHosts = 2
    MaxClock = 3
    MaxPortErrors = 2
    Fetches = {"download"}
    Hosts = {home, away}
    Addresses = {pub, priv}
    Private = {priv}
    Guards <- MCGuards
    None = None
    MaxRedirects = 2
    MaxChunks = 2
SPECIFICATION ProviderSpec
INVARIANTS RecoveryPending OneLiveSocket ConnectionsAreAllowed CredentialsStayHome
PROPERTIES FreshEventsInOrder NativeIsNotGivenUp DeafnessEnds StatusRecovers EveryFetchEnds
CHECK_DEADLOCK FALSE
