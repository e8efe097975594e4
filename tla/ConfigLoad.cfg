SPECIFICATION Spec
CONSTANTS
    main = main
    sub = sub
    leaf = leaf
    A = A
    B = B
    C = C
    key = key
    title = title
    byKey = byKey
    Files = {main, sub, leaf}
    Root = main
    FileOrder <- MCFileOrder
    Entities = {A, B, C}
    EntityOrder <- MCEntityOrder
    NoParent = NoParent
    FieldNames = {key, title}
    Identifiers <- MCIdentifiers
    FieldOf <- FieldOfIdentifier
    PathId = PathId
    NoIdentifier = NoIdentifier
    Text = Text
    Number = Number
    NoSchema = NoSchema
    BadSchema = BadSchema
    Unreadable = Unreadable
    NoMatch = NoMatch
    Workspaces <- AllWorkspaces
INVARIANTS
    LoadTypeOK
    IncludesJudgedRight
    RecursionEnds
    InheritanceJudgedRight
    ResolvedAgainstAncestors
    StoreMayRely
