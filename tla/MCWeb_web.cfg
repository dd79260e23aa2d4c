SPECIFICATION WebSpec
CONSTANTS
    x1 = x1
    k1 = k1
    k2 = k2
    p1 = p1
    Tokens = {x1}
    Keys = {k1, k2}
    Pods = {p1}
    None = None
    MaxClicks = 2
    MaxFetches = 3
    Pages = 2
INVARIANT WebTypeOK
INVARIANT AgentKeyWorks
INVARIANT PodsCarryKey
 
INVARIANT OneAtATime
INVARIANT SamePeriod
INVARIANT RowsOfPage
INVARIANT ListsHaveArrived
SYMMETRY KeySymmetry
