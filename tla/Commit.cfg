SPECIFICATION Spec
CONSTANTS
    Findings = {1, 2}
    Files = {1, 2}
    FileOf <- OneFile
    Diffs = {d1}
    Requests = {r1, r2}
    NoRequest = NoRequest
    NoFix = NoFix
    NoContent = NoContent
    Invocations = {1, 2}
    Attempts = 2
    MaxDeliveries = 2
    MaxCrashes = 1
    Permitted = {}
    RefusesPush = TRUE
    Reviewers = {v1}
    Decisions = {"approved"}
    MaxDecisions = 0
    DashboardRequests = {r1, r2}
    ApiFaults = {"killed"}
    Drafters = {w1}
    Passing = {d1}
    Clears <- ClearsOwn
    MaxDraftsPerFile = 2
    MaxRuns = 0
    DraftFaults = {}
    MaxFetches = 1
    MaxReports = 0
    ClickRequests = {}
    Start = "approved"
    PushKinds = {"edit"}
    MaxPushes = 1
INVARIANT NothingReverted
INVARIANT EditsSurvive
INVARIANT OneCommitPerRequest
INVARIANT CommittedIsTrue
INVARIANT MarksAreTrue
PROPERTY EndingsAreFinal
PROPERTY LandingIsAtomic
CHECK_DEADLOCK FALSE
