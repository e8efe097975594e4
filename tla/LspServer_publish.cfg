SPECIFICATION LspSpec
CONSTANTS
    r1 = r1  c1 = c1  i = i  s = s  d = d  g1 = g1  g2 = g2  cfg = cfg
    Roots = {r1}
    Paths = {c1, i, s, d}
    ConfigOf <- EntryOf
    SchemaFiles = {s}
    Texts = {"good", "bad"}
    Configs = {cfg}
    SourcesOf <- Sources
    ConfigAt <- AnswerOfConfig
    LoadsAt <- AlwaysLoads
    ReportAt <- Report
    Timers = {g1, g2}
    Main = Main
    Closed = Closed
    Absent = Absent
    Nil = Nil
    StartDisks <- SomeDisks
    MaxEdits = 2
    MaxWrites = 0
SYMMETRY TimerSymmetry
INVARIANTS LspTypeOK PublishedPathsExact ClientShowsOneSnapshot ConvergesWithoutOverlap
CHECK_DEADLOCK FALSE
