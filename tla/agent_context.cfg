CONSTANTS
    o1 = o1
    o2 = o2
    p1 = p1
    p2 = p2
    m1 = m1
    m2 = m2
    m3 = m3
    Owners = {o1, o2}
    NoOwner = NoOwner
    Threads = {"t1"}
    NoThread = "none"
    Subjects = {1, 2}
    Silent = 99
    MaxRecords = 2
    MaxIndexed = 2
    Documents <- SomeDocuments
    Files <- SomeFiles
    Upstream <- TwoAnswers
    Summaries <- SomeSummaries
    Memories <- SomeMemories
    Prompts = {3}
    Agent = "ba"
    Everyone = "everyone"
    Budgets = {3, 6}
    Limits = {2}
    FileLimits = {1, 2}
    Systems <- SomeSystems
    Users <- SomeUsers
    Tasks <- SomeTasks
    Overrides = {600}
    Models <- SomeModels
    Providers = {p1, p2}
    Local = {p1}
    Offers <- TwoOffers
    Agents = {"ba"}
    Nobody = Nobody
    GlobalRules <- ThreeDefaults
    Enterprise <- TwoStandards
    AgentFiles <- TwoFiles
    Edited <- TwoEdits
    Authors = {"developer", "architect", "qa"}
    Outputs <- SomeOutputs
    Answers <- SomeAnswers
    Titles = {"f", "i", "j", "v"}
    Paths = {"p", "q"}
    Nowhere = "nowhere"
    MostFindings = 3
    MostFixes = 2
    MostBlocks = 3
    MostItems = 2
    MostDecisions = 2
SYMMETRY OwnersAreAlike
SPECIFICATION Spec
INVARIANTS
    MemoryStaysApart
    HigherFirst
    NothingIsSentCut
    RequestsFitTheWindow
    StandardsHold
    VerdictsFollowTheAnswer
PROPERTIES
    TheDefaultStands
CHECK_DEADLOCK FALSE
