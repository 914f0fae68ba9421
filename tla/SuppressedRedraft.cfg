SPECIFICATION Spec
CONSTANTS
    Findings = {1}
    Files = {1}
    FileOf <- OneFile
    Diffs = {d1}
    Requests = {r1}
    NoRequest = NoRequest
    NoFix = NoFix
    NoContent = NoContent
    Invocations = {1}
    Attempts = 2
    MaxDeliveries = 1
    MaxCrashes = 0
    Permitted = {}
    RefusesPush = FALSE
    Reviewers = {v1}
    Decisions = {"approved"}
    MaxDecisions = 1
    DashboardRequests = {r1}
    ApiFaults = {}
    Drafters = {w1}
    Passing = {d1}
    Clears <- ClearsOwn
    MaxDraftsPerFile = 2
    MaxRuns = 1
    DraftFaults = {"suppression"}
    MaxFetches = 2
    MaxReports = 0
    ClickRequests = {}
    Start = "drafted"
    PushKinds = {"edit"}
    MaxPushes = 1
INVARIANT EditsSurvive
CHECK_DEADLOCK FALSE
