\* A Sequence with three phases in a Loop, resized around a simple device.
SPECIFICATION Spec
CONSTANTS
    c = c
    l = l
    k = k
    p0 = p0
    p1 = p1
    p2 = p2
    None = None
    Device = {c, l, k}
    Complex = {c, l}
    Host = {l}
    Phase = {p0, p1, p2}
    First = p0
    Second = p1
    Corner = 0
    Width <- FloorWidths
    Places <- FloorPlaces
    Shapes <- FloorShapes
    Limit = 20
    Pad = 4
    Margin = 1
INVARIANTS
    MirrorTrue
    OnePhase
PROPERTIES
    ContentKept
