SPECIFICATION Spec
CONSTANTS
    s1 = s1
    s2 = s2
    r1 = r1
    r2 = r2
    r3 = r3
    x = x
    y = y
    None = None
    Slots = {s1, s2}
    RunIds = {r1, r2, r3}
    ScenarioIds = {x, y}
    BuiltIns = {x}
    DefaultId = y
    MaxClicks = 4
SYMMETRY Symmetry
INVARIANTS
    HistoryPanelsFollowTheSelection
    SavesGoToTheScenarioShown
CHECK_DEADLOCK FALSE
