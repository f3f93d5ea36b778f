---------------------------- MODULE MCSceneGraph ----------------------------
(* Stages of two containers, c and l, and a simple device k.               *)
EXTENDS SceneGraph, TLC

CONSTANTS c, l, k, p0, p1, p2

Each(x, y, z) == [d \in Device |-> IF d = c THEN x ELSE IF d = l THEN y ELSE z]

\* c holds [4, 20) of the axis at its first place; l fits in, at 6, and k
\* then fits in l, at 11, or lies across l's border, at 17.
NestWidths == Each(24, 12, 2)
NestPlaces == Each({0, 40}, {6}, {11, 17})
NoShapes == Each({}, {}, {})

\* l inside c, around k or not; pulled smaller, and past c's near border.
FloorWidths == Each(24, 14, 2)
FloorPlaces == Each({0}, {5}, {10, 16})
FloorShapes == Each({}, {Span(5, 12), Span(-2, 19)}, {})

\* l starts across c's border, may be pulled inside c and then beyond it, and
\* dragged around c, where it touches k.
TwistWidths == Each(24, 16, 2)
TwistPlaces == Each({0}, {6, -6}, {-7})
TwistShapes == Each({}, {Span(6, 18), Span(6, 42)}, {})
=============================================================================
