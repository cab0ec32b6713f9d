CONSTANTS
    f1 = f1
    f2 = f2
    k1 = k1
    k2 = k2
    c1 = c1
    c2 = c2
    p1 = p1
    p2 = p2
    p3 = p3
    s1 = s1
    r1 = r1
    r2 = r2
    r3 = r3
    Files = {f1, f2}
    Keys = {k1, k2}
    KeyMaps <- TwoTrees
    Clients = {c1, c2}
    Seeder = Seeder
    Nothing = Nothing
    Repositories = {"memory", "file", "postgres"}
    Studios = {"governance", "prompts"}
    MaxDocuments = 3
    MaxSaves = 3
    MaxRestarts = 1
    Projects = {p1, p2, p3}
    Stores = {"memory", "postgres"}
    MaxCrashes = 1
    Buses = {"memory", "postgres"}
    Watchers = {s1}
    Compact = FALSE
    MaxAttempts = 3
    MaxLag = 2
    Answers <- FewAnswers
    Drafts <- FewDrafts
    MaxBundles = 2
    Requests = {r1, r2, r3}
    Agents <- TwoAgents
    MaxReboots = 1
SPECIFICATION Spec
INVARIANT EditsTakeEffect
CHECK_DEADLOCK FALSE
