SPECIFICATION Spec
CONSTANTS
    Handlers = {h1, h2}
    p = p
    q = q
    u = u
    v = v
    Parts <- MCParts
    Values = {u, v}
    None = None
    First <- MCFirst
    Yaml <- MCYaml
    MaxEdits = 3
    MaxFaults = 1
    MaxRestarts = 1
SYMMETRY Sym
INVARIANTS
    LiveFollowsStore
PROPERTIES
    SavesOnlyItsOwn
CHECK_DEADLOCK FALSE
