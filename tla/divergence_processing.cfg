SPECIFICATION Spec
CONSTANTS
    t1 = t1
    r1 = r1
    r2 = r2
    u1 = u1
    u2 = u2
    Loop = Loop
    Threads <- OneThread
    Runs <- OneRun
    Uploads <- OneUpload
    MaxFaults = 0
INVARIANTS
    ProcessingInFlight
