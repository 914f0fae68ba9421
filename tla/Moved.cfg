SPECIFICATION FlowSpec
CONSTANTS
    plain = plain
    source = source
    template = template
    extra = extra
    Files = {plain, source, template, extra}
    MaxChangedFiles = 2
    Templates = {template}
    Origin <- SourceOf
    Histories <- InsertedAbove
    Deliveries = {1}
    Sniffed = {extra}
    ToolOf <- RuleTool
    Language <- Languages
    Corpus <- SomeControls
    MaxExecutions = 1
    MaxFaults <- NoFault
    Outcomes = {"fix-proposed", "not-drafted"}
CHECK_DEADLOCK FALSE
PROPERTY MovedKeepsItsId
