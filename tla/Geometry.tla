------------------------------ MODULE Geometry ------------------------------
(***************************************************************************)
(* The spatial rules of the stage (scenegraph/rect.go, scenegraph/rules.go *)
(* and rulesContainer/rules.go) along one axis: a rectangle is an interval *)
(* [x, x + w).  The code applies the same rule to both axes, and clamps    *)
(* each edge by itself.                                                    *)
(***************************************************************************)
EXTENDS Integers

CONSTANTS
    Pad,     \* from a container's border 1 to its border 3
    Margin   \* LoopChildMargin, kept around the children in a resize

ASSUME SizeAssumption == Pad \in Nat /\ Margin \in Nat

Rect == [x : Int, w : Int]

\* A limit that does not apply: no children, or no parent.
NoRect == [none |-> TRUE]

End(r) == r.x + r.w

\* Boundary contact counts as inside ...
ContainsRect(r, s) == r.x <= s.x /\ End(s) <= End(r)

\* ... and does not count as intersecting.
IntersectsRect(r, s) == r.x < End(s) /\ s.x < End(r)

Area(r) == IF r.w <= 0 THEN 0 ELSE r.w

Inner(r) == [x |-> r.x + Pad, w |-> r.w - 2 * Pad]

Span(lo, hi) == [x |-> lo, w |-> hi - lo]

\* The least interval that covers a non-empty set of them.
Bounds(rs) ==
    Span((CHOOSE r \in rs : \A s \in rs : r.x <= s.x).x,
         End(CHOOSE r \in rs : \A s \in rs : End(s) <= End(r)))

\* Mutant: only the near edge is held back.
ClampResizeNearEdge(r, floor) ==
    LET left == floor.x - Margin - Pad
    IN Span(IF r.x > left THEN left ELSE r.x, End(r))

\* A container may not shrink past its children: each edge on its own.
ClampResize(r, floor) ==
    LET left == floor.x - Margin - Pad
        right == End(floor) + Margin + Pad
    IN Span(IF r.x > left THEN left ELSE r.x,
            IF End(r) < right THEN right ELSE End(r))

\* A container may not grow past its parent: first the position, then the size.
ClampToParent(r, ceiling) ==
    LET left == IF r.x < ceiling.x THEN ceiling.x ELSE r.x
        room == IF End(ceiling) < left THEN 0 ELSE End(ceiling) - left
    IN [x |-> left, w |-> IF r.w > room THEN room ELSE r.w]

\* Both ends of a resize, in the order the container's handler applies them.
Resized(r, floor, ceiling) ==
    LET floored == IF floor = NoRect THEN r ELSE ClampResize(r, floor)
    IN IF ceiling = NoRect THEN floored ELSE ClampToParent(floored, ceiling)
=============================================================================
