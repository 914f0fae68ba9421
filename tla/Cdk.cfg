SPECIFICATION CdkFairSpec
CONSTANTS
    bucket = bucket
    queue = queue
    main = main
    side = side
    Findings = {1, 2, 3}
    Paths = {bucket, queue}
    NoPath = NoPath
    PathOf <- OnBucketAndQueue
    Stacks = {main, side}
    StackOf <- StackEach
    Answers <- SomeAnswers
    NoContent = NoContent
    NoDraft = NoDraft
    NoFix = NoFix
    SandboxRuns = {1, 2, 3}
    SandboxFaults = {"off", "hostile", "timeout", "collect"}
    MaxDraftsPerFile = 2
    MaxExecutions = 1
    MaxFaults <- OneFault
    Starts <- SomeStarts
    DraftFaults = {"error", "unparsed", "yield", "killed"}
INVARIANT CdkTypeOK
 
INVARIANT ProposedFilesAreChains
 
INVARIANT CountsAreTrue
INVARIANT BudgetIsKept
INVARIANT OkRunsFinished
 
PROPERTY DraftingEnds
CHECK_DEADLOCK FALSE
