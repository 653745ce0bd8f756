\* Two zones of two write units, a random write area of one unit with a
\* buffer of two and a write buffer of two units; the length 4 crosses a
\* zone boundary when it starts in the middle of the first zone.
SPECIFICATION Spec
CONSTANTS
    NZones = 2
    ZoneSize = 4
    SecsPerPg = 1
    Oneshot = 2
    LbasZrwa = 2
    LbasZrwafg = 2
    ZrwaBuffer = 4
    Initial = 4
    CntMod = 16
    Starts = {0, 2, 4}
    Lens = {2, 4}
    MaxWrites = 3
INVARIANTS
    CountersExact
    ZonesSound
    
PROPERTIES
    ZonesMoveOn
CHECK_DEADLOCK FALSE
