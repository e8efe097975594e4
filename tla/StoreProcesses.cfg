SPECIFICATION ProcSpec
CONSTANTS
    Pet = Pet  Dog = Dog  Note = Note  i1 = i1  i2 = i2
    a1 = a1  a2 = a2 list = list  note = note  out = out  nm = nm  v = v  w = w  x = x
    Types = {Pet, Dog, Note}
    PathTypes = {Note}
    AssignableTo <- Assignable
    HierarchyOf <- Family
    Includes <- Layout
    Inline <- NoInline
    DerivesAt <- NotAtList
    Ids = {i1, i2}
    NoId = NoId
    Names = {nm}
    Values = {v, w, x}
    Unset = Unset
    Paths = {a1, a2, list, note, out}
    PathOrder <- FileOrder
    InRoot = {a1, a2, list, note}
    Absent = Absent
    NoType = NoType
    InitialDisks <- Workspaces
    Missing = Missing
    Quiet = Quiet
    Processes = {p1, p2}
    Jobs <- SomeJobs
    Payloads <- SomePayloads
    SortRank <- ById
    Tidied <- SortLists
    Idle = Idle
    MaxCommands = 3
SYMMETRY SameProcesses
INVARIANTS ProcTypeOK TornOnlyByCommands
PROPERTIES RacelessCommandsAreAtomic OwnFilesKept FmtKeepsObjects PathTypesStayInRoot
CHECK_DEADLOCK FALSE
