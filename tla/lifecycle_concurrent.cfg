SPECIFICATION Spec
CONSTANTS
    h1 = h1
    h2 = h2
    e1 = e1
    w1 = w1
    Handlers <- TwoHandlers
    Keys <- OneError
    NumRules = 1
    RuleOf <- RuleOfOneError
    Blocking = {e1}
    Preexisting = FALSE
    MaxFaults = 0
    MaxSubmissions = 2
SYMMETRY HandlerSymmetry
INVARIANTS
    TypeOK
    SignaturesComplete
    StatusMatchesBlockers
    CustodyOnRecord
    TransitionsLogged
    ValidatedHasNoOpenBlocker
PROPERTIES
    NeverUnsigned
