SPECIFICATION BuddySpec
CONSTANTS
    Pool = 12
    Inner = 7
    Requests = {1, 2, 3, 5}
INVARIANTS
    HeldApart
    RefusedForCause
