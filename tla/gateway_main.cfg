SPECIFICATION FairSpec
CONSTANTS
    h1 = h1
    h2 = h2
    k1 = k1
    k2 = k2
    s1 = s1
    steer1 = steer1
    other1 = other1
    Handlers = {h1, h2}
    Actions = {k1, k2}
    Payloads = {steer1, other1}
    Steers = {steer1}
    Subs = {s1}
    Sub <- OneSub
    None = None
    MaxIdentities = 2
    MaxRequests = 2
    MaxTroubles = 1
INVARIANTS
    TypeOK
    AnswerHolds
    SteeredOnce
    QuietWhenReleased
PROPERTIES
    FullOnlyIfNew
    KeepsPromise
    CloseTakesEffect
    RequestsAnswered
CHECK_DEADLOCK FALSE
