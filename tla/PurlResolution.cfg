SPECIFICATION Spec
CONSTANTS
    old = old
    home = home
    dead = dead
    NoUrl = NoUrl
    k1 = k1
    k2 = k2
    t1 = t1
    t2 = t2
    Task = {t1, t2}
    Key = {k1, k2}
    Url = {old, home, dead}
    Repo = {home}
    Final <- MCFinal
    Resolvers = 2
    Glitches = 1
    DbFaults = 1
SYMMETRY TaskKeySymmetry
INVARIANTS
    TypeOK
    AnswersAreGood
    AnswersAreFinal
PROPERTIES
    RenameKeepsOthers
CHECK_DEADLOCK FALSE
