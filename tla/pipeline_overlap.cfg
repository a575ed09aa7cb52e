SPECIFICATION Spec
CONSTANTS
    r1 = r1
    r2 = r2
    p1 = p1
    p2 = p2
    c1 = c1
    c2 = c2
    n1 = n1
    n2 = n2
    n3 = n3
    march = march
    april = april
    Runs <- TwoRuns
    Policies <- TwoPolicies
    Claims <- TwoClaims
    Notices <- ThreeNotices
    PolicyOf <- PolicyOfRows
    Combination <- CombinationOfNotices
    Uploaded = {p1}
    Freeze = {c1}
    Hail = {c1, c2}
    MaxCluster = 1
    Months <- TwoMonths
    DefaultMonth = march
    Jobs = {"full", "upload", "silver", "gold", "anomalies"}
    MaxStarts = 3
    MaxMishaps = 2
SYMMETRY RunSymmetry
INVARIANTS
    TypeOK
    SilverFollowsBronze
    TotalsMatchRecords
    RunRebuilds
    UploadReplaces
    FlagsFollowBronze
CHECK_DEADLOCK FALSE
