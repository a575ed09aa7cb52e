SPECIFICATION Spec
CONSTANTS
    r1 = r1
    r2 = r2
    plan_doc = plan_doc
    memo_doc = memo_doc
    rule = rule
    code_list = code_list
    code_value = code_value
    override = override
    layout = layout
    Runs <- TwoRuns
    Keys <- AllKeys
    Documents <- AllDocuments
    Exempt <- AllExempt
    ParserTypes <- Layouts
    ParserOwned <- Owned
    Extractions <- Names
    Proposed <- Proposals
    Links <- Relationships
    Cited <- Citations
    Seeded <- SeededNodes
SYMMETRY RunSymmetry
INVARIANTS
    TypeOK
    OneActiveVersion
    AnswerIsInGraph
    RetryRepairs
PROPERTIES
    ReapprovalAddsNothing
