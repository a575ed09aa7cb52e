SPECIFICATION Spec
CONSTANTS
    premium = premium
    phantom = phantom
    citizens = citizens
    zip = zip
    stray = stray
    loose = loose
    flood = flood
    cause = cause
    reasons = reasons
    perils = perils
    used = used
    hail = hail
    orphan = orphan
    a34 = a34
    a22 = a22
    fhcf = fhcf
    valid = valid
    lost = lost
    premiums = premiums
    bulletin = bulletin
    dwelling = dwelling
    plan = plan
    general = general
    layout = layout
    statute = statute
    r1 = r1
    r2 = r2
    Layouts <- AllLayouts
    Fields <- AllFields
    Lists <- AllLists
    Values <- AllValues
    Rules <- AllRules
    Others <- AllOthers
    Overrides = {bulletin}
    Canonical = {premium}
    Seeded <- SeededNodes
    SeedLinks <- SeededLinks
    SeedCites = {hail}
    Docs <- AllDocs
    DocNodes <- NodesOf
    DocLinks <- LinksOf
    DocCites <- CitesOf
    Replayed <- ReplayOrder
    Parsed <- ParseOrder
    FloridaDocs = {statute}
    Intake = statute
    Federal = {a22, lost}
    KgRules = {lost}
    Created = valid
    FlRules = {fhcf}
    Curated = {lost, premiums}
    CodeList = cause
    Old = {a34, cause, hail, lost}
    Runs <- TwoRuns
    Jobs = {"restore", "rebuild", "cleanup", "jurisdictions", "federal", "florida", "intake", "hygiene", "load_rules", "load_florida", "load_all"}
    MaxStarts = 2
    MaxMishaps = 2
SYMMETRY RunSymmetry
INVARIANTS
    TypeOK
    OneScope
    ChainRestores
    RerunsChangeNothing
    TablesFollowGraph
CHECK_DEADLOCK FALSE
