SPECIFICATION BoundedSpec
CONSTANTS
    dirA = dirA
    dirB = dirB
    dirC = dirC
    nameA = nameA
    nameB = nameB
    Sides = {left, right}
    Worked = {left}
    Terminals = {c1, c2}
    Dirs = {dirA, dirB, dirC}
    Home = dirA
    Names = {nameA, nameB}
    NamesIn <- MCNamesIn
    Nothing = Nothing
    Panes = {p1, p2}
    Conns = {a1, a2}
    Hosts = {h}
    Prints = {k1, k2}
    Pane = pane
    MaxLoads = 3
    MaxForgets = 2
    MaxFaults = 1
    MaxCrashes = 1
CHECK_DEADLOCK FALSE
INVARIANTS OperationsHitChosen ShownIsTrue
PROPERTY ChangesAreDecisions
