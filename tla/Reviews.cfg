SPECIFICATION Spec
CONSTANTS
    Findings = {1, 2}
    Files = {1}
    FileOf <- OneFile
    Diffs = {d1, d2}
    Requests = {r1}
    NoRequest = NoRequest
    NoFix = NoFix
    NoContent = NoContent
    Invocations = {1}
    Attempts = 2
    MaxDeliveries = 1
    MaxCrashes = 0
    Permitted = {}
    RefusesPush = FALSE
    Reviewers = {v1}
    Decisions = {"approved", "edited", "rejected"}
    MaxDecisions = 3
    DashboardRequests = {r1}
    ApiFaults = {}
    Drafters = {w1}
    Passing = {d1}
    Clears <- ClearsOwn
    MaxDraftsPerFile = 2
    MaxRuns = 1
    DraftFaults = {}
    MaxFetches = 1
    MaxReports = 0
    ClickRequests = {}
    Start = "scanned"
    PushKinds = {"edit"}
    MaxPushes = 0
INVARIANT OnlyDecidedLands
INVARIANT ResolvedChainsStand
INVARIANT StoredIsRecorded
CHECK_DEADLOCK FALSE
