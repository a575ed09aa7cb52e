SPECIFICATION Spec
CONSTANTS
    h1 = h1
    h2 = h2
    e1 = e1
    w1 = w1
    Handlers <- OneHandler
    Keys <- ErrorAndWarning
    NumRules = 2
    RuleOf <- RuleOfErrorAndWarning
    Blocking = {e1}
    Preexisting = FALSE
    MaxFaults = 2
    MaxSubmissions = 2
INVARIANTS
    ValidatedHasNoOpenBlocker
PROPERTIES
    ImplementsMachine
