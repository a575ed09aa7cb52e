SPECIFICATION Spec
CONSTANTS
    RecordLength = 12
    Texts <- AllTexts
    Capitals = {"MONTH", "YEAR"}
    Tags = {"RT", "ACDT", "PSC", "CAUSE", "POLICY", "REST", "DATE"}
    Content <- ContentOf
    Documents <- AllDocuments
    Reissues <- LaterDocuments
    Extractions <- RequiredExtractions
    MaxImports = 3
INVARIANTS
    PassMeansDetermined
CHECK_DEADLOCK FALSE
