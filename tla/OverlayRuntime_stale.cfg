SPECIFICATION Spec
CONSTANTS
    r1 = r1  r2 = r2  c1 = c1  c2 = c2  d = d  g1 = g1  g2 = g2
    both = both  own = own  cfg = cfg
    Roots = {r1}
    Paths = {c1, d}
    ConfigOf <- OneRootConfig
    SchemaFiles = {}
    Texts = {"good", "bad"}
    Configs = {cfg}
    SourcesOf <- OneRootSources
    ConfigAt <- OneRootConfigAt
    LoadsAt <- OneRootLoadsAt
    ReportAt <- OneRootReportAt
    Timers = {g1, g2}
    Main = Main
    Closed = Closed
    Absent = Absent
    Nil = Nil
    StartDisks <- OneRootDisks
    MaxEdits = 2
    MaxWrites = 0
SYMMETRY TimerSymmetry
INVARIANT RootsTrackBuffers
