SPECIFICATION Spec
CONSTANTS
    Findings = {1, 2}
    Files = {1}
    FileOf <- OneFile
    Diffs = {d1}
    Requests = {r1}
    NoRequest = NoRequest
    NoFix = NoFix
    NoContent = NoContent
    Invocations = {1}
    Attempts = 2
    MaxDeliveries = 1
    MaxCrashes = 1
    Permitted = {}
    RefusesPush = FALSE
    Reviewers = {v1}
    Decisions = {"approved"}
    MaxDecisions = 0
    DashboardRequests = {r1}
    ApiFaults = {}
    Drafters = {w1}
    Passing = {d1}
    Clears <- ClearsOwn
    MaxDraftsPerFile = 2
    MaxRuns = 0
    DraftFaults = {}
    MaxFetches = 1
    MaxReports = 0
    ClickRequests = {}
    Start = "approved"
    PushKinds = {}
    MaxPushes = 0
INVARIANT HeldWroteNothing
CHECK_DEADLOCK FALSE
