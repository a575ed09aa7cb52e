SPECIFICATION Spec
CONSTANTS
    t1 = t1
    r1 = r1
    r2 = r2
    u1 = u1
    u2 = u2
    Loop = Loop
    Threads <- OneThread
    Runs <- TwoRuns
    Uploads <- TwoUploads
    MaxFaults = 1
SYMMETRY RunSymmetry
INVARIANTS
    TypeOK
    StatusEarned
    AllUploadsListed
PROPERTIES
    ImplementsMap
