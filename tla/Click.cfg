SPECIFICATION Spec
CONSTANTS
    Findings = {1, 2}
    Files = {1, 2}
    FileOf <- OwnFile
    Diffs = {d1, d2}
    Requests = {r1}
    NoRequest = NoRequest
    NoFix = NoFix
    NoContent = NoContent
    Invocations = {1}
    Attempts = 2
    MaxDeliveries = 1
    MaxCrashes = 1
    Permitted = {r1}
    RefusesPush = FALSE
    Reviewers = {v1}
    Decisions = {"edited", "rejected"}
    MaxDecisions = 1
    DashboardRequests = {}
    ApiFaults = {"killed"}
    Drafters = {w1}
    Passing = {d1}
    Clears <- ClearsOwn
    MaxDraftsPerFile = 2
    MaxRuns = 0
    DraftFaults = {}
    MaxFetches = 2
    MaxReports = 1
    ClickRequests = {r1}
    Start = "drafted"
    PushKinds = {"apply", "revert"}
    MaxPushes = 1
INVARIANT TypeOK
INVARIANT CommitsAreConfirmed
INVARIANT ClicksLandOnTheirOffer
CHECK_DEADLOCK FALSE
