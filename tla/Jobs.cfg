CONSTANTS
    Net <- JobsNet
    Requests <- JobsRequests
    Reputations = {}
    Vetted = {}
    HandMade <- JobsHandMade
    Conf <- JobsConf
    Window <- JobsWindow
    ProbeUas <- JobsProbeUas
    SprayIps <- JobsSprayIps
    Runners = {"w1"}
    MaxRows = 2
    MaxEdits = 1
    Runs = {"w1", "w2"}
    Rules <- JobsRules
    Unparsable = {"bad"}
    Validate = TRUE
    NginxFound = TRUE
    MaxChanges = 2
    MaxFaults = 2
    Syncs = {"w1", "w2"}
    Feeds <- JobsFeeds
    Threshold = 50
    Quarantine = TRUE
    FeedLife = 1
    MaxFeedTime = 1
    MaxEvents = 2
SPECIFICATION JobsSpec
INVARIANTS SubnetStaged ProbeRight NoBrokenFileLeft AllowApproved
PROPERTIES PromotionReached EnforcedInTheEnd FeedFollowed
