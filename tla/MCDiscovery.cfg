SPECIFICATION FairSpec
CONSTANTS
    s1 = s1
    s2 = s2
    agents = agents
    servers = servers
    kept = kept
    famous = famous
    tiny = tiny
    Requests = {s1, s2}
    Kinds <- MCKinds
    Repos = {kept, famous, tiny}
    Asked = {kept}
    About <- MCAbout
    Queries <- MCQueries
    Hits <- MCHits
    Slug <- MCSlug
    DeepTop = 3
    Limit = 2
    Concurrency = 2
    AllowGpl = FALSE
    Expiring <- MCExpiring
    MaxSwings = 1
    MaxUpsets = 1
INVARIANTS
    AnalysisIsRight
    StubsSayWhatIsThere
    MissedWasRefused
    OverrunBounded
    IInv
CHECK_DEADLOCK FALSE
PROPERTIES
    EveryRequestEnds
