SPECIFICATION Spec
CONSTANTS
    RecordLength = 12
    Texts <- AllTexts
    Capitals = {"MONTH", "YEAR"}
    Tags = {"RT", "ACDT", "PSC", "CAUSE", "POLICY", "REST", "DATE"}
    Content <- ContentOf
    Documents <- AllDocuments
    Reissues <- LaterDocuments
    Extractions <- AllExtractions
    MaxImports = 3
INVARIANTS
    TypeOK
    ColumnsAccounted
    SectionsRead
    ListsComplete
    RoundTrip
PROPERTIES
    ImportsUncoverNothing
CHECK_DEADLOCK FALSE
