SPECIFICATION Spec
CONSTANTS
    r1 = r1  r2 = r2  c1 = c1  c2 = c2  d = d  g1 = g1  g2 = g2
    both = both  own = own  cfg = cfg
    Roots = {r1, r2}
    Paths = {c1, c2, d}
    ConfigOf <- TwoRootsConfig
    SchemaFiles = {}
    Texts = {"good", "bad"}
    Configs = {both, own}
    SourcesOf <- TwoRootsSources
    ConfigAt <- TwoRootsConfigAt
    LoadsAt <- TwoRootsLoadsAt
    ReportAt <- TwoRootsReportAt
    Timers = {g1}
    Main = Main
    Closed = Closed
    Absent = Absent
    Nil = Nil
    StartDisks <- TwoRootsDisks
    MaxEdits = 2
    MaxWrites = 1
INVARIANTS TypeOK RootsAgree OverlayHidesDisk
PROPERTY RegressOnlyIfOvertaken
