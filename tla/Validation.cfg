SPECIFICATION ValidationSpec
CONSTANTS
    Pet = Pet
    Dog = Dog
    Person = Person
    Note = Note
    a1 = a1
    dl = dl
    doc = doc
    nf = nf
    i1 = i1
    i2 = i2
    nm = nm
    chip = chip
    Types = {Pet, Dog, Person, Note}
    PathTypes = {Note}
    AssignableTo <- AssignableTypes
    HierarchyOf <- Family
    Includes <- Layout
    Inline <- People
    DerivesAt <- NotesDerive
    Ids = {i1, i2}
    NoId = NoId
    Names = {nm, chip}
    Values = {i1, i2}
    Unset = Unset
    Paths = {a1, dl, doc, nf}
    PathOrder <- FileOrder
    InRoot = {a1, dl, doc, nf}
    Absent = Absent
    NoType = NoType
    InitialDisks <- SomeDisks
    Missing = Missing
    Quiet = Quiet
    TypeOrder <- Order
    Joined <- JoinedToRoot
    Matching <- Patterns
    FieldsOf <- Definitions
    OptionSets <- SomeOptions
    Edits <- Writes
    MaxEdits = 1
INVARIANTS
    ValidationTypeOK
    VerdictOfOneMoment
    CleanMeansStoreWorks
