CONSTANTS
    Threads = {t1, t2}
    BlockRules <- RequestsBlockRules
    Escalation = "auto"
    BlockTTL = 1
    EscalationTTL = 2
    PositiveTTL = 2
    FailureTTL = 1
    Scores = {0, 5}
    UaScores = {2}
    ChallengeScore = 5
    BlockScore = 7
    MaxLag = 1
    Faults = {"redis"}
    Workers = {t1, t2}
    Routes <- RequestsRoutes
    Windows <- RequestsWindows
    Verify <- RequestsVerify
    Second = 3
    MaxTime = 4
    Clients = {"a", "b"}
    Proxies = {"p", "q"}
    Headers <- RequestsHeaders
    Blocked = {"b"}
    Settings <- RequestsSettings
    MaxAge = 3
    Parsers = {t1, t2}
    Lines <- RequestsLines
    Times = {2}
    MaxLines = 2
SYMMETRY Interchangeable
SPECIFICATION RequestsSpec
INVARIANTS StaleBlockChained RdnsHorizon NoLinePassedOver
PROPERTIES LimiterExact GateHolds TrustEarned AddressTrue
