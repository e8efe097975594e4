SPECIFICATION OneCommandSpec
CONSTANTS
    Animal = Animal  Dog = Dog  Note = Note
    i1 = i1  i2 = i2  i3 = i3  i4 = i4
    a1 = a1  a2 = a2  a4 = a4  d = d  doc = doc  n = n  nm = nm  v = v
    Types = {Animal, Dog, Note}
    PathTypes = {Note}
    AssignableTo <- Assignable
    HierarchyOf <- Family
    Includes <- Layout
    Inline <- InlineDog
    DerivesAt <- NotAtA4
    Ids = {i1, i2, i3, i4}
    NoId = NoId
    Names = {nm}
    Values = {v}
    Unset = Unset
    Paths = {a1, a4, d, doc, n}
    PathOrder <- FileOrder
    InRoot = {a1, a4, d, doc, n}
    Absent = Absent
    NoType = NoType
    InitialDisks <- AnyDisk
    Missing = Missing
    Quiet = Quiet
INVARIANT CreatedIsFound
CHECK_DEADLOCK FALSE
