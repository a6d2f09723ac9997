CONSTANTS
    s1 = s1
    s2 = s2
    Native = Native
    SdkTransports = {s1, s2}
    NoTransport = NoTransport
    FallbackMode = "auto"
    MaxDrops = 3
    MaxEvents = 3
    MaxBuffered = 2
SPECIFICATION StandaloneSpec
INVARIANT CallbacksAreSerial
CHECK_DEADLOCK FALSE
