SPECIFICATION Spec
CONSTANTS
    Pet = Pet  Tag = Tag  i1 = i1  i2 = i2  nm = nm  e1 = e1  e2 = e2
    mainfile = mainfile  part = part  pets1 = pets1  pets2 = pets2  tagfile = tagfile
    older = older  newer = newer
    Types = {Pet, Tag}
    Ids = {i1, i2}
    NoId = NoId
    Names = {nm}
    Values <- Lists
    Unset = Unset
    Paths = {mainfile, part, pets1, pets2, tagfile}
    PathOrder <- Files
    Ignored = {tagfile}
    MainConfig = mainfile
    Contents <- AllContents
    Absent = Absent
    NoType = NoType
    Commits <- History
    Tip = Tip
    Back = Back
    Unknown = Unknown
    Drafts <- Writes
    MaxEdits = 2
INVARIANTS DiffTypeOK TruthAboutUntouched StagedIsInvisible PatchRestores
