\* Two containers and a device that keeps one of them in conflict.
SPECIFICATION Spec
CONSTANTS
    c = c
    l = l
    k = k
    p0 = p0
    p1 = p1
    p2 = p2
    None = None
    Device = {c, l, k}
    Complex = {c, l}
    Host = {}
    Phase = {p0, p1}
    First = p0
    Second = p1
    Corner = 0
    Width <- TwistWidths
    Places <- TwistPlaces
    Shapes <- TwistShapes
    Limit = 5
    Pad = 4
    Margin = 1
INVARIANTS
    Forest
