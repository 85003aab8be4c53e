SPECIFICATION MCSpec
CONSTANTS
    Builds = {b1, b2}
    Recipes = {"smoke", "uart"}
    MaxSource = 3
    MaxKills = 1
    MaxHangUps = 1
    None = None
    Candidates = {"c1", "c2", "c3"}
    GoodPlans = {"c1", "c2"}
    Pinned = "u1"
    OtherUpstream = "u2"
    Workloads = 2
    MaxRuns = 2
    MaxEdits = 3
    Dirty = Dirty
    Torn = Torn
    Texts = {"t1", "t2"}
    GoodTool = "good"
    BadTool = "bad"
    Heads = {"h1", "h2"}
    MaxJobs = 2
    MaxArtifactEdits = 3
    Addresses = {0, 1, 2}
    Values = {0, 1}
    MaxCycles = 3
    Descendants = {"d1", "d2", "d3"}
    Child = "child"
CHECK_DEADLOCK FALSE
INVARIANT PublicationIsSound
INVARIANT ReceiptIsSound
INVARIANT ArtifactIsReproducible
INVARIANT VerdictsAreExact
INVARIANT TimeoutIsExact
PROPERTY ToolsReturn
