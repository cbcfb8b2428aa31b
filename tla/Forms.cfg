SPECIFICATION MCSpec
CONSTANTS
    login = login
    comment = comment
    Threads = {t1, t2}
    Nonces = {n1}
    Keys = {k1, k2}
    Forms = {login, comment}
    Config <- MCConfig
    Origins <- MCOrigins
    Clients <- MCClients
    Accounts = {a1}
    AccountLimit = 1
    MaxFailures = 2
    MaxStash = 1
    ReplayTTL = 0
    Enabled = TRUE
    ChallengeOnFlag = TRUE
    Raising = {"js_touch"}
    Faults = {"redis"}
    TooFast = 1
    MinFill = 1
    MaxFill = 1
    Grace = 1
    TokenTTL = 2
    IpLimit = 2
    SignupLimit = 2
    FlagThreshold = 4
    BlockThreshold = 10
    Weights <- MCWeights
INVARIANTS TypeOK SpentTokenRefused NoFalseReplay VerdictExplained AlertedOnce
SYMMETRY Symmetry
