SPECIFICATION Spec
CONSTANTS
    h1 = h1
    h2 = h2
    codeJ = codeJ
    OldL = OldL
    NewL = NewL
    Handlers <- TwoHandlers
    Others <- OneOther
    MaxFaults = 1
SYMMETRY HandlerSymmetry
INVARIANTS
    TypeOK
    ResetRestores
    ApplyTakesEffect
    CodeKept
