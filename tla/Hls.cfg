\* Playlists of three segments, a ring of five, a segment of two ticks.
SPECIFICATION Spec
CONSTANTS
    Rendition = {v0, v1}
    Lowest = v0
    Window = 3
    Ring = 5
    Seg = 2
    Target = 5
    Slow = 4
    MaxTime = 12
    MaxFail = 1
    MaxCrash = 1
INVARIANTS ListedIsServed KeepsUp StallsAreReal
CHECK_DEADLOCK FALSE
