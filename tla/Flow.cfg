SPECIFICATION FlowFairSpec
CONSTANTS
    plain = plain
    source = source
    template = template
    extra = extra
    Files = {plain, source, template, extra}
    MaxChangedFiles = 2
    Templates = {template}
    Origin <- SourceOf
    Histories <- SomeHistories
    Deliveries = {1}
    Sniffed = {extra}
    ToolOf <- RuleTool
    Language <- Languages
    Corpus <- SomeControls
    MaxExecutions = 2
    MaxFaults <- OneFault
    Outcomes = {"fix-proposed", "not-drafted"}
INVARIANT FlowTypeOK
 
 
 
INVARIANT OneReviewEach
INVARIANT WholeIsScanned
INVARIANT FindingsAreScanned
INVARIANT ButtonHasWork
INVARIANT StoresAgree
PROPERTY ReportStands
PROPERTY RescanKeepsRecords
PROPERTY EveryRunIsTold
CHECK_DEADLOCK FALSE
