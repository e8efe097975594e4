SPECIFICATION Spec
CONSTANTS
    Animal = Animal  Dog = Dog  Note = Note
    i1 = i1  i2 = i2  i3 = i3  i4 = i4
    a1 = a1  a2 = a2  a4 = a4  d = d  doc = doc  n = n  nm = nm  v = v
    Types = {Animal, Dog}
    PathTypes = {}
    AssignableTo <- Assignable
    HierarchyOf <- Family
    Includes <- Layout
    Inline <- InlineDog
    DerivesAt <- Everywhere
    Ids = {i1, i2, i3, i4}
    NoId = NoId
    Names = {nm}
    Values = {v}
    Unset = Unset
    Paths = {a1, a2, a4, d, doc}
    PathOrder <- FileOrder
    InRoot = {a1, a2, a4, d, doc}
    Absent = Absent
    NoType = NoType
    InitialDisks <- OrderlyAnimals
    Missing = Missing
    Quiet = Quiet
PROPERTY ImplementsObjectMap
