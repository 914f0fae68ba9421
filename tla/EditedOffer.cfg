SPECIFICATION Spec
CONSTANTS
    Findings = {1}
    Files = {1}
    FileOf <- OneFile
    Diffs = {d1, d2}
    Requests = {r1}
    NoRequest = NoRequest
    NoFix = NoFix
    NoContent = NoContent
    Invocations = {1}
    Attempts = 2
    MaxDeliveries = 1
    MaxCrashes = 0
    Permitted = {r1}
    RefusesPush = FALSE
    Reviewers = {v1}
    Decisions = {"edited"}
    MaxDecisions = 1
    DashboardRequests = {}
    ApiFaults = {"killed"}
    Drafters = {w1}
    Passing = {d1}
    Clears <- ClearsOwn
    MaxDraftsPerFile = 2
    MaxRuns = 0
    DraftFaults = {}
    MaxFetches = 1
    MaxReports = 1
    ClickRequests = {r1}
    Start = "drafted"
    PushKinds = {"edit"}
    MaxPushes = 0
INVARIANT ClicksLandVerifiedFixes
CHECK_DEADLOCK FALSE
