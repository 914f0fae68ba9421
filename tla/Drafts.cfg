SPECIFICATION Spec
CONSTANTS
    Findings = {1, 2, 3}
    Files = {1}
    FileOf <- OneFile
    Diffs = {d1, d2}
    Requests = {}
    NoRequest = NoRequest
    NoFix = NoFix
    NoContent = NoContent
    Invocations = {}
    Attempts = 2
    MaxDeliveries = 0
    MaxCrashes = 0
    Permitted = {}
    RefusesPush = FALSE
    Reviewers = {v1}
    Decisions = {"approved"}
    MaxDecisions = 0
    DashboardRequests = {}
    ApiFaults = {}
    Drafters = {w1}
    Passing = {d1}
    Clears <- ClearsLast
    MaxDraftsPerFile = 2
    MaxRuns = 2
    DraftFaults = {"suppression", "unparsed", "error", "yield", "killed"}
    MaxFetches = 2
    MaxReports = 0
    ClickRequests = {}
    Start = "scanned"
    PushKinds = {"edit"}
    MaxPushes = 1
 
INVARIANT OfferIsWhole
 
CHECK_DEADLOCK FALSE
