SPECIFICATION Spec
CONSTANTS
    Findings = {1, 2}
    Files = {1}
    FileOf <- OneFile
    Diffs = {d1}
    Requests = {}
    NoRequest = NoRequest
    NoFix = NoFix
    NoContent = NoContent
    Invocations = {}
    Attempts = 2
    MaxDeliveries = 0
    MaxCrashes = 0
    Permitted = {}
    RefusesPush = FALSE
    Reviewers = {v1}
    Decisions = {"rejected"}
    MaxDecisions = 2
    DashboardRequests = {}
    ApiFaults = {}
    Drafters = {w1}
    Passing = {d1}
    Clears <- ClearsLast
    MaxDraftsPerFile = 2
    MaxRuns = 1
    DraftFaults = {}
    MaxFetches = 1
    MaxReports = 0
    ClickRequests = {}
    Start = "scanned"
    PushKinds = {"edit"}
    MaxPushes = 0
INVARIANT SupersededComesBack
CHECK_DEADLOCK FALSE
