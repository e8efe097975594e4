SPECIFICATION McpSpec
CONSTANTS
    Pet = Pet  Dog = Dog  Tag = Tag  k1 = k1  v = v  c1 = c1  c2 = c2
    Types = {Pet, Dog, Tag}
    HierarchyOf <- Family
    Keys <- SameKeys
    Creatable <- Places
    Fields = {v}
    Merge <- NewWins
    Missing = Missing
    Quiet = Quiet
    Calls = {c1, c2}
    Requests <- SomeRequests
    TypeOrder <- ByName
    Allowed = {Pet, Tag}
    Configs <- Versions
    Unloadable = Unloadable
    NoRequest = NoRequest
    MaxChanges = 2
INVARIANTS McpTypeOK AnswersStayVisible
PROPERTIES QuietAnswersAreSnapshots StopsWhenTold
CHECK_DEADLOCK FALSE
