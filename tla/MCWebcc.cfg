SPECIFICATION Spec
CONSTANTS
\* Bytes with the bits on both sides of every cut; one whole group and every
\* remainder after it.
    Bytes = {0, 109, 146, 255}
    Letters = {27, 36}
    Junk = {0, 91, 255}
    MaxBytes = 5
    MaxChars = 8
    QueryKeys <- MCQueryKeys
    QueryValues <- MCQueryValues
    MaxParameters = 3
    Addresses <- MCAddresses
    TargetKeys <- MCTargetKeys
    TargetValues <- MCTargetValues
    MaxAdded = 2
    HeaderNames = {"Connection", "Content-Type"}
    HeaderValues = {"v1", "v2"}
    Sizes = {0, 3}
    MaxHeaders = 2
    MaxParts = 2
    MaxCalls = 2
    Sessions <- MCSessions
    Clients = {"c1", "c2", "c3"}
    Services = {"images", "image"}
    Detail = {"image"}
    BoundUrls = {"/images", "/images/(d+)", "/images/7", "/images/("}
    Paths = {"/images", "/images/7", "/images/(", "/images/(d+)"}
    Captures <- MCCaptures
    MaxBindings = 3
INVARIANTS
    EncodesBits
    DecodesBits
    ToStringIsRead
    TargetArrives
    CallerWins
    BodyAnnounced
    KeptIsFound
    RoutedAsBound
PROPERTIES
    ResendIsSame
\* The inputs of the codecs and of a request's URL are bounded.
CHECK_DEADLOCK FALSE
