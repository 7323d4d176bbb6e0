CONSTANTS
    g = g  h = h  x = x  y = y  u = u  a = a
    NoVersion = NoVersion
    Goals = {g}
    Concepts = {x, y}
    Course = 1
    Manifests <- OfferedAlone
    Contents <- Contents3
    Upgraders = {u}
    Activators = {a}
SPECIFICATION Spec
PROPERTY AppliedUpgradeMigrates
CHECK_DEADLOCK FALSE
