CONSTANTS
    g = g  h = h  x = x  y = y  u = u  a = a
    NoVersion = NoVersion
    Goals = {g, h}
    Concepts = {x}
    Course = 1
    Manifests <- Offered
    Contents <- Contents2
    Upgraders = {u}
    Activators = {a}
SYMMETRY Learners
SPECIFICATION Spec
INVARIANT ReferenceFollows
INVARIANT ReportIsTrue
PROPERTY RepeatedUpgradeCompletes
INVARIANT ProgressCarried
INVARIANT InstalledStaysUsable
INVARIANT ResolverIsExact
CHECK_DEADLOCK FALSE
