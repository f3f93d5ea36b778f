\* Two Sequences that nest, and a simple device.
SPECIFICATION Spec
CONSTANTS
    c = c
    l = l
    k = k
    p0 = p0
    p1 = p1
    p2 = p2
    None = None
    Device = {c, l, k}
    Complex = {c, l}
    Host = {c, l}
    Phase = {p0, p1}
    First = p0
    Second = p1
    Corner = 0
    Width <- NestWidths
    Places <- NestPlaces
    Shapes <- NoShapes
    Limit = 60
    Pad = 4
    Margin = 1
INVARIANTS
    LinksAgree
    LinksLive
    MarksFresh
    PhaseView
    OneHost
    LiesInParent
PROPERTIES
    ConflictedKeepsParent
