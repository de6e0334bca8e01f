SPECIFICATION FairSpec
CONSTANTS
    web = web
    localhost = localhost
    k1 = k1
    v1 = v1
    v2 = v2
    None = None
    Domains = {web, localhost}
    LocalNames = {localhost}
    SkippedNames = {localhost}
    Literals <- MCLiterals
    AddrBits = 3
    BlockedRanges <- MCRanges
    Answers <- MCAnswers
    Listed <- MCListed
    Extras = {}
    Loads <- MCLoads
    Slots = {k1}
    PreAuth = 1
    IdleTimeout = 1
    MaxLine = 1
    MaxBody = 2
    Versions = {v1, v2}
    Urls <- MCUrls
    MaxFaults = 1
    Horizon = 2
INVARIANT TypeOK
INVARIANT ReadsBounded
INVARIANT DriversReclaimed
INVARIANT OutboundAllowed
INVARIANT ListedStaysBlocked
PROPERTY FullIdleWindow
PROPERTY AnswerIsCurrent
PROPERTY RequestsAnswered
