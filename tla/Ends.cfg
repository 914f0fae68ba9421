SPECIFICATION FairSpec
CONSTANTS
    Findings = {1}
    Files = {1}
    FileOf <- OneFile
    Diffs = {d1}
    Requests = {r1, r2}
    NoRequest = NoRequest
    NoFix = NoFix
    NoContent = NoContent
    Invocations = {1, 2}
    Attempts = 2
    MaxDeliveries = 1
    MaxCrashes = 2
    Permitted = {r2}
    RefusesPush = FALSE
    Reviewers = {v1}
    Decisions = {"approved"}
    MaxDecisions = 0
    DashboardRequests = {r1}
    ApiFaults = {"lost", "ambiguous"}
    Drafters = {w1}
    Passing = {d1}
    Clears <- ClearsOwn
    MaxDraftsPerFile = 2
    MaxRuns = 0
    DraftFaults = {}
    MaxFetches = 1
    MaxReports = 1
    ClickRequests = {r2}
    Start = "approved"
    PushKinds = {"close"}
    MaxPushes = 0
PROPERTY RequestsEnd
CHECK_DEADLOCK FALSE
