SPECIFICATION Spec
CONSTANTS
    dir = dir
    name = name
    file = file
    NoPath = NoPath
    Paths = {dir, name, file}
    Files = {file}
    Absent = {name}
    Parent <- MCParent
    HasPrefix <- MCHasPrefix
    Capacity = 1
    Threads = {t1, t2}
    Listers = {l1}
    MaxVer = 3
SYMMETRY MCSymmetry
INVARIANTS
    EntriesFresh
