SPECIFICATION Spec
CONSTANTS
    NLines = 5
    NChs = 1
    NLuns = 2
    Oneshot = 1
    Flashpg = 1
    PgsPerBlk = 2
    Lpns = {l0, l1, l2, l3}
    Unmapped = Unmapped
    InvalidLpn = InvalidLpn
SYMMETRY Symmetry
INVARIANTS
    MapsAgree
    LinesExact
    FreeLineWhenNeeded
