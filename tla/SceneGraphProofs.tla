-------------------------- MODULE SceneGraphProofs --------------------------
(***************************************************************************)
(* What is proved of SceneGraph for any devices, phases, sizes and places: *)
(* types, the mirror and the marks the graph keeps, the links of the tree, *)
(* what the phases hold and show, what a pass leaves behind, and that the  *)
(* two clamps of a resize keep the content in.                             *)
(***************************************************************************)
EXTENDS SceneGraph, OrderLemmas

----------------------------------------------------------------------------
(* Geometry.                                                               *)

LEMMA BoundsType ==
    ASSUME NEW K, IsFiniteSet(K), K # {}, NEW g \in [K -> Rect]
    PROVE  Bounds({g[k] : k \in K}) \in Rect
<1> DEFINE rs == {g[k] : k \in K}
           f == [k \in K |-> g[k].x]
           e == [k \in K |-> - End(g[k])]
<1>1. \A k \in K : g[k] \in Rect /\ g[k].x \in Int /\ End(g[k]) \in Int
  BY DEF Rect, End
<1>2. f \in [K -> Int] /\ e \in [K -> Int]
  BY <1>1
<1>3. \E k \in K : \A j \in K : f[k] <= f[j]
  <2> HIDE DEF f
  <2>1. QED
    BY <1>2, LeastOfFamily
<1>4. \E k \in K : \A j \in K : e[k] <= e[j]
  <2> HIDE DEF e
  <2>1. QED
    BY <1>2, LeastOfFamily
<1>5. \E r \in rs : \A s \in rs : r.x <= s.x
  BY <1>3
<1>6. \E r \in rs : \A s \in rs : End(s) <= End(r)
  <2>1. PICK k \in K : \A j \in K : e[k] <= e[j]
    BY <1>4
  <2>2. \A j \in K : End(g[j]) <= End(g[k])
    BY <1>1, <2>1
  <2>3. QED
    BY <2>2
<1>7. (CHOOSE r \in rs : \A s \in rs : r.x <= s.x) \in rs
  BY <1>5
<1>8. (CHOOSE r \in rs : \A s \in rs : End(s) <= End(r)) \in rs
  BY <1>6
<1>9. \A r \in rs : r.x \in Int /\ End(r) \in Int
  BY <1>1
<1> DEFINE a == CHOOSE r \in rs : \A s \in rs : r.x <= s.x
           z == CHOOSE r \in rs : \A s \in rs : End(s) <= End(r)
<1>10. a.x \in Int /\ End(z) \in Int
  BY <1>7, <1>8, <1>9
<1>11. Bounds(rs) = [x |-> a.x, w |-> End(z) - a.x]
  BY DEF Bounds, Span
<1> HIDE DEF a, z, rs
<1>12. Bounds(rs) \in Rect
  BY <1>10, <1>11 DEF Rect
<1>13. QED
  BY <1>12 DEF rs

LEMMA ClampTypes ==
    ASSUME NEW r \in Rect, NEW b \in Rect
    PROVE  /\ Inner(r) \in Rect
           /\ ClampResize(r, b) \in Rect
           /\ ClampToParent(r, b) \in Rect
BY SizeAssumption DEF Rect, Inner, ClampResize, ClampToParent, Span, End

LEMMA ResizedType ==
    ASSUME NEW r \in Rect, NEW floor \in Rect \cup {NoRect}, NEW ceiling \in Rect \cup {NoRect}
    PROVE  Resized(r, floor, ceiling) \in Rect
<1>1. (IF floor = NoRect THEN r ELSE ClampResize(r, floor)) \in Rect
  BY ClampTypes
<1>2. QED
  BY <1>1, ClampTypes DEF Resized

\* What lies within the measured children, in a container that was within its
\* ceiling, is still in the container after both clamps.
LEMMA ResizedKeeps ==
    ASSUME NEW r \in Rect, NEW floor \in Rect, NEW ceiling \in Rect \cup {NoRect},
           NEW from \in Rect, NEW b \in Rect,
           ceiling # NoRect => ContainsRect(ceiling, from),
           ContainsRect(floor, b), ContainsRect(Inner(from), b)
    PROVE  ContainsRect(Inner(Resized(r, floor, ceiling)), b)
<1> DEFINE q == ClampResize(r, floor)
<1>1. /\ Pad \in Nat /\ Margin \in Nat
      /\ r.x \in Int /\ r.w \in Int /\ floor.x \in Int /\ floor.w \in Int
      /\ from.x \in Int /\ from.w \in Int /\ b.x \in Int /\ b.w \in Int
  BY SizeAssumption DEF Rect
<1>2. q \in Rect /\ q.x <= floor.x - Margin - Pad /\ End(floor) + Margin + Pad <= End(q)
  <2> DEFINE left == floor.x - Margin - Pad
             right == End(floor) + Margin + Pad
             lo == IF r.x > left THEN left ELSE r.x
             hi == IF End(r) < right THEN right ELSE End(r)
  <2>1. left \in Int /\ right \in Int /\ End(r) \in Int
    BY <1>1 DEF End
  <2>2. lo \in Int /\ hi \in Int /\ lo <= left /\ right <= hi
    BY <1>1, <2>1
  <2>3. q = [x |-> lo, w |-> hi - lo]
    BY DEF ClampResize, Span
  <2> HIDE DEF q, lo, hi
  <2>4. q.x = lo /\ End(q) = hi
    BY <2>2, <2>3 DEF End
  <2>5. QED
    BY <2>2, <2>4, ClampTypes DEF q
<1>3. floor.x <= b.x /\ End(b) <= End(floor) /\ from.x + Pad <= b.x /\ End(b) <= End(from) - Pad
  BY <1>1 DEF ContainsRect, Inner, End
<1>4. floor # NoRect
  BY DEF Rect, NoRect
<1> HIDE DEF q
<1>5. CASE ceiling = NoRect
  <2>1. Resized(r, floor, ceiling) = q
    BY <1>4, <1>5 DEF Resized, q
  <2>2. QED
    BY <1>1, <1>2, <1>3, <2>1 DEF ContainsRect, Inner, End, Rect
<1>6. CASE ceiling \in Rect
  <2>1. ceiling # NoRect /\ ceiling.x \in Int /\ ceiling.w \in Int
    BY <1>6 DEF Rect, NoRect
  <2>2. Resized(r, floor, ceiling) = ClampToParent(q, ceiling)
    BY <1>4, <2>1 DEF Resized, q
  <2>3. ceiling.x <= from.x /\ End(from) <= End(ceiling)
    BY <2>1 DEF ContainsRect
  <2> DEFINE left == IF q.x < ceiling.x THEN ceiling.x ELSE q.x
             room == IF End(ceiling) < left THEN 0 ELSE End(ceiling) - left
             w == IF q.w > room THEN room ELSE q.w
  <2>4. ClampToParent(q, ceiling) = [x |-> left, w |-> w]
    BY DEF ClampToParent
  <2>5. q.x \in Int /\ q.w \in Int /\ left \in Int /\ End(ceiling) \in Int
    BY <1>2, <2>1 DEF Rect, End
  <2>6. left + Pad <= b.x
    BY <1>1, <1>2, <1>3, <2>1, <2>3, <2>5 DEF End
  <2>7. End(b) + Pad <= left + w
    <3>1. End(b) \in Int /\ End(b) + Pad <= End(ceiling) /\ End(b) + Pad <= q.x + q.w /\ q.x <= left
      BY <1>1, <1>2, <1>3, <2>1, <2>3, <2>5 DEF End
    <3>2. CASE q.w > room
      BY <1>1, <2>5, <3>1, <3>2
    <3>3. CASE ~ (q.w > room)
      BY <1>1, <2>5, <3>1, <3>3
    <3>4. QED
      BY <3>2, <3>3
  <2>8. w \in Int
    BY <2>5
  <2> HIDE DEF left, w
  <2>9. QED
    BY <1>1, <2>2, <2>4, <2>5, <2>6, <2>7, <2>8 DEF ContainsRect, Inner, End
<1>7. QED
  BY <1>5, <1>6
----------------------------------------------------------------------------
(* The types of the operators.                                             *)

LEMMA ParentsType ==
    ASSUME NEW d, NEW reg \in SUBSET Device, NEW hid, NEW geo, NEW z
    PROVE  BestParents(d, reg, hid, geo, z) \subseteq Device \cup {None}
BY DEF BestParents, Holders

LEMMA RelinkedType ==
    ASSUME children \in [Device -> SUBSET Device], NEW d \in Device, NEW p
    PROVE  Relinked(d, p) \in [Device -> SUBSET Device]
<1>1. \A c \in Device : children[c] \cup {d} \in SUBSET Device /\ children[c] \ {d} \in SUBSET Device
  OBVIOUS
<1>2. QED
  BY <1>1 DEF Relinked

LEMMA MarksType ==
    ASSUME NEW reg \in SUBSET Device, NEW hid, NEW geo
    PROVE  Marks(reg, hid, geo) \in [Device -> SUBSET Device]
BY DEF Marks

LEMMA MaintainedType ==
    ASSUME NEW h \in Device, NEW ms \in [Phase -> SUBSET Device], NEW sel,
           NEW reg \in SUBSET Device, NEW par, NEW kids \in [Device -> SUBSET Device], NEW geo
    PROVE  Maintained(h, ms, sel, reg, par, kids, geo) \in [Phase -> SUBSET Device]
<1>1. \A p \in Phase : ms[p] \in SUBSET Device
  OBVIOUS
<1>2. kids[h] \in SUBSET Device
  OBVIOUS
<1>3. QED
  BY <1>1, <1>2 DEF Maintained

LEMMA ShownType ==
    ASSUME NEW hid \in [Device -> BOOLEAN], NEW ms, NEW sel
    PROVE  Shown(hid, ms, sel) \in [Device -> BOOLEAN]
BY DEF Shown

LEMMA AppliedType ==
    ASSUME NEW h, NEW hid \in [Device -> BOOLEAN], NEW mem, NEW sel
    PROVE  Applied(h, hid, mem, sel) \in [Device -> BOOLEAN]
BY ShownType DEF Applied

LEMMA RefreshedType ==
    ASSUME members \in [Host -> [Phase -> SUBSET Device]],
           nodes' \subseteq Device, children' \in [Device -> SUBSET Device],
           NEW hs, NEW geo
    PROVE  Refreshed(hs, geo) \in [Host -> [Phase -> SUBSET Device]]
<1>1. ASSUME NEW h \in Host
      PROVE  Maintained(h, members[h], selected[h], nodes', parent', children', geo)
                \in [Phase -> SUBSET Device]
  BY MaintainedType, DeviceAssumption
<1>2. QED
  BY <1>1 DEF Refreshed

LEMMA NotifyType ==
    ASSUME Notify, nodes' \subseteq Device, order' \in Seq(Device), box' \in [Device -> Rect]
    PROVE  /\ outer' \in [Device -> Rect]
           /\ marks' \in [Device -> SUBSET Device]
           /\ sweep' \in Seq(Device \cup {None})
<1>1. order' \in Seq(Device \cup {None})
  OBVIOUS
<1>2. Append(order', None) \in Seq(Device \cup {None})
  BY <1>1
<1>3. Marks(nodes', hidden', outer') \in [Device -> SUBSET Device]
  BY MarksType
<1>4. QED
  BY <1>2, <1>3 DEF Notify

LEMMA CutType ==
    ASSUME NEW S, NEW z \in Seq(S), NEW i \in DOMAIN z
    PROVE  /\ Cut(z, i) \in Seq(S)
           /\ Len(Cut(z, i)) = Len(z) - 1
           /\ \A j \in 1..(i - 1) : Cut(z, i)[j] = z[j]
           /\ i = 1 => \A j \in 1..(Len(z) - 1) : Cut(z, i)[j] = z[j + 1]
<1> DEFINE a == SubSeq(z, 1, i - 1)
           b == SubSeq(z, i + 1, Len(z))
<1>1. i \in Nat /\ 1 <= i /\ i <= Len(z) /\ Len(z) \in Nat
  OBVIOUS
<1>2. a \in Seq(S) /\ Len(a) = i - 1 /\ \A j \in 1..(i - 1) : a[j] = z[j]
  BY <1>1
<1>3. b \in Seq(S) /\ Len(b) = Len(z) - i /\ \A j \in 1..(Len(z) - i) : b[j] = z[j + i]
  BY <1>1
<1> HIDE DEF a, b
<1>4. /\ a \o b \in Seq(S)
      /\ Len(a \o b) = Len(z) - 1
      /\ \A j \in 1..(i - 1) : (a \o b)[j] = a[j]
      /\ i = 1 => \A j \in 1..(Len(z) - 1) : (a \o b)[j] = b[j]
  BY <1>1, <1>2, <1>3
<1>5. Cut(z, i) = a \o b
  BY DEF Cut, a, b
<1>6. i = 1 => \A j \in 1..(Len(z) - 1) : b[j] = z[j + 1]
  BY <1>3
<1>7. QED
  BY <1>2, <1>4, <1>5, <1>6

LEMMA PositionType ==
    ASSUME NEW z, NEW d, \E i \in DOMAIN z : z[i] = d
    PROVE  Position(z, d) \in DOMAIN z /\ z[Position(z, d)] = d
BY DEF Position

LEMMA WithoutType ==
    ASSUME NEW S, NEW z \in Seq(S), NEW d
    PROVE  Without(z, d) \in Seq(S)
BY CutType, PositionType DEF Without

LEMMA InsertedPhase ==
    ASSUME NEW z \in Seq(Phase), NEW i \in 0..Len(z), NEW p \in Phase
    PROVE  LET y == SubSeq(z, 1, i) \o <<p>> \o SubSeq(z, i + 1, Len(z))
           IN y \in Seq(Phase) /\ \E j \in DOMAIN y : y[j] = p
<1> DEFINE y == SubSeq(z, 1, i) \o <<p>> \o SubSeq(z, i + 1, Len(z))
<1>1. SubSeq(z, 1, i) \in Seq(Phase) /\ Len(SubSeq(z, 1, i)) = i
  OBVIOUS
<1>2. SubSeq(z, i + 1, Len(z)) \in Seq(Phase)
  OBVIOUS
<1> DEFINE a == SubSeq(z, 1, i)
           b == SubSeq(z, i + 1, Len(z))
           ap == a \o <<p>>
<1>3. ap \in Seq(Phase) /\ Len(ap) = i + 1 /\ ap[i + 1] = p
  <2> HIDE DEF a
  <2>1. a \in Seq(Phase) /\ Len(a) = i /\ i \in Nat
    BY <1>1 DEF a
  <2>2. QED
    BY <2>1
<1>4. ap \o b \in Seq(Phase) /\ i + 1 \in DOMAIN (ap \o b) /\ (ap \o b)[i + 1] = p
  <2> HIDE DEF ap, b
  <2>1. b \in Seq(Phase) /\ i + 1 \in Nat /\ Len(b) \in Nat
    BY <1>2 DEF b
  <2>2. QED
    BY <1>3, <2>1
<1>5. y = ap \o b
  OBVIOUS
<1>6. QED
  BY <1>4, <1>5
----------------------------------------------------------------------------
(* Types.                                                                  *)

LEMMA InitType == Init => TypeOK
<1>1. SUFFICES ASSUME Init PROVE TypeOK
  OBVIOUS
<1>2. Nowhere \in Rect /\ NoGesture \in GestureType
  BY DEF Nowhere, NoGesture, GestureType, Rect
<1>3. <<First, Second>> \in Seq(Phase) /\ 1 \in DOMAIN <<First, Second>> /\ <<First, Second>>[1] = First
  BY PhaseAssumption
<1>4. \A h \in Host : \E i \in DOMAIN phases[h] : phases[h][i] = selected[h]
  BY <1>1, <1>3 DEF Init
<1>5. /\ order \in Seq(Device) /\ zorder \in Seq(Device)
      /\ sweep \in Seq(Device \cup {None}) /\ doomed \in Seq([dev : Device, kids : SUBSET Device])
  BY <1>1 DEF Init
<1>6. QED
  BY <1>1, <1>2, <1>3, <1>4, <1>5, PhaseAssumption DEF Init, TypeOK

\* What a renewed scene leaves to prove of the types.
LEMMA NotifiedTypes ==
    ASSUME TypeOK, Notify,
           nodes' \subseteq Device, fresh' \subseteq Device,
           order' \in Seq(Device), zorder' \in Seq(Device),
           box' \in [Device -> Rect],
           parent' \in [Device -> Device \cup {None}], children' \in [Device -> SUBSET Device],
           hidden' \in [Device -> BOOLEAN],
           phases' \in [Host -> Seq(Phase)],
           members' \in [Host -> [Phase -> SUBSET Device]],
           selected' \in [Host -> Phase],
           \A h \in Host : \E i \in DOMAIN phases'[h] : phases'[h][i] = selected'[h],
           gesture' \in GestureType,
           doomed' \in Seq([dev : Device, kids : SUBSET Device]),
           leaving' \in Device \cup {None}, leaving' # None => doomed' # <<>>,
           heirs' \subseteq Device
    PROVE  TypeOK'
BY NotifyType DEF TypeOK

LEMMA KeepParentType == TypeOK /\ KeepParent => TypeOK'
<1>1. ASSUME TypeOK, sweep # <<>> PROVE Tail(sweep) \in Seq(Device \cup {None})
  BY <1>1 DEF TypeOK
<1>2. QED
  BY <1>1 DEF TypeOK, KeepParent, stage, tree, view, fall

LEMMA ReparentType == TypeOK /\ Reparent => TypeOK'
<1>1. SUFFICES ASSUME TypeOK, Reparent PROVE TypeOK'
  OBVIOUS
<1> DEFINE d == Head(sweep)
<1>2. d \in Device /\ Tail(sweep) \in Seq(Device \cup {None})
  BY <1>1 DEF TypeOK, Reparent
<1>3. PICK p \in BestParents(d, nodes, hidden, outer, zorder) \ {parent[d]} :
        /\ parent' = [parent EXCEPT ![d] = p]
        /\ children' = Relinked(d, p)
        /\ UNCHANGED <<stage, phases, selected>>
        /\ members' = Refreshed({parent[d], p}, box)
        /\ hidden' = Applied(p, Applied(parent[d], hidden, members', selected), members', selected)
  BY <1>1 DEF Reparent
<1>4. p \in Device \cup {None}
  BY <1>1, ParentsType DEF TypeOK
<1>5. parent' \in [Device -> Device \cup {None}] /\ children' \in [Device -> SUBSET Device]
  BY <1>1, <1>2, <1>3, <1>4, RelinkedType DEF TypeOK
<1>6. members' \in [Host -> [Phase -> SUBSET Device]]
  BY <1>1, <1>3, <1>5, RefreshedType DEF TypeOK, stage
<1>7. hidden' \in [Device -> BOOLEAN]
  BY <1>1, <1>3, AppliedType DEF TypeOK
<1>8. marks' = Marks(nodes, hidden', outer) /\ sweep' = Tail(sweep)
  BY <1>1 DEF Reparent
<1>9. marks' \in [Device -> SUBSET Device]
  BY <1>1, <1>8, MarksType DEF TypeOK
<1>10. UNCHANGED <<box, outer, zorder, gesture, fall>>
  BY <1>1 DEF Reparent
<1>11. QED
  BY <1>1, <1>2, <1>3, <1>5, <1>6, <1>7, <1>8, <1>9, <1>10 DEF TypeOK, stage, fall

LEMMA ExportType == TypeOK /\ Export => TypeOK'
<1>1. SUFFICES ASSUME TypeOK, Export PROVE TypeOK'
  OBVIOUS
<1>2. members' \in [Host -> [Phase -> SUBSET Device]]
  BY <1>1, RefreshedType DEF TypeOK, Export, stage, tree
<1>3. sweep' \in Seq(Device \cup {None})
  BY <1>1 DEF Export
<1>4. QED
  BY <1>1, <1>2, <1>3 DEF TypeOK, Export, stage, tree, fall

LEMMA RefreshType == TypeOK /\ Refresh => TypeOK'
BY NotifyType DEF TypeOK, Refresh, stage, tree, view, fall

LEMMA PlaceType ==
    ASSUME NEW d \in Device, NEW x \in Places[d]
    PROVE  TypeOK /\ Place(d, x) => TypeOK'
<1>1. SUFFICES ASSUME TypeOK, Place(d, x) PROVE TypeOK'
  OBVIOUS
<1>2. nodes' \subseteq Device /\ fresh' \subseteq Device /\ order' \in Seq(Device) /\ zorder' \in Seq(Device)
  BY <1>1 DEF TypeOK, Place
<1>3. PICK p \in BestParents(d, nodes', hidden, [outer EXCEPT ![d] = At(d, Corner)], zorder') :
        /\ parent' = [parent EXCEPT ![d] = p]
        /\ children' = Relinked(d, p)
        /\ members' = Refreshed({p}, [box EXCEPT ![d] = At(d, Corner)])
        /\ hidden' = Applied(p, hidden, members', selected)
  BY <1>1 DEF Place
<1>4. p \in Device \cup {None}
  BY <1>2, ParentsType
<1>5. parent' \in [Device -> Device \cup {None}] /\ children' \in [Device -> SUBSET Device]
  BY <1>1, <1>3, <1>4, RelinkedType DEF TypeOK
<1>6. members' \in [Host -> [Phase -> SUBSET Device]]
  BY <1>1, <1>2, <1>3, <1>5, RefreshedType DEF TypeOK
<1>7. hidden' \in [Device -> BOOLEAN]
  BY <1>1, <1>3, AppliedType DEF TypeOK
<1>8. At(d, x) \in Rect
  BY StageAssumption DEF At, Rect
<1>9. box' \in [Device -> Rect]
  BY <1>1, <1>8 DEF TypeOK, Place
<1>10. Notify /\ UNCHANGED <<phases, selected, gesture, fall>>
  BY <1>1 DEF Place
<1>11. QED
  BY <1>1, <1>2, <1>5, <1>6, <1>7, <1>9, <1>10, NotifiedTypes DEF TypeOK, fall

LEMMA DragStartType ==
    ASSUME NEW d \in Device
    PROVE  TypeOK /\ DragStart(d) => TypeOK'
<1>1. SUFFICES ASSUME TypeOK, DragStart(d) PROVE TypeOK'
  OBVIOUS
<1>2. Descendants(d) \subseteq Device
  BY DEF Descendants
<1>3. gesture' \in GestureType
  <2> DEFINE cargo == IF d \in Complex THEN Descendants(d) ELSE {}
  <2>1. cargo \in SUBSET Device /\ box[d] \in Rect
    BY <1>1, <1>2 DEF TypeOK
  <2>2. gesture' = [kind |-> "drag", dev |-> d, from |-> box[d], cargo |-> cargo,
                    floor |-> NoRect, ceiling |-> NoRect]
    BY <1>1 DEF DragStart, NoGesture
  <2> HIDE DEF cargo
  <2>3. QED
    BY <2>1, <2>2 DEF GestureType
<1>4. QED
  BY <1>1, <1>3 DEF TypeOK, DragStart, stage, tree, view, fall

LEMMA DragMoveType ==
    ASSUME NEW d \in Device, NEW x \in Places[d]
    PROVE  TypeOK /\ DragMove(d, x) => TypeOK'
<1>1. SUFFICES ASSUME TypeOK, DragMove(d, x) PROVE TypeOK'
  OBVIOUS
<1>2. x \in Int
  BY StageAssumption
<1>3. box' \in [Device -> Rect]
  BY <1>1, <1>2 DEF TypeOK, DragMove, Rect
<1>4. CASE d \in Complex /\ outer' = [outer EXCEPT ![d] = box'[d]]
                /\ marks' = Marks(nodes, hidden, outer') /\ UNCHANGED sweep
  <2>1. outer' \in [Device -> Rect]
    BY <1>1, <1>3, <1>4 DEF TypeOK
  <2>2. marks' \in [Device -> SUBSET Device]
    BY <1>1, <1>4, MarksType DEF TypeOK
  <2>3. QED
    BY <1>1, <1>3, <1>4, <2>1, <2>2 DEF TypeOK, DragMove, stage, tree, view, fall
<1>5. CASE Notify
  BY <1>1, <1>3, <1>5, NotifiedTypes DEF TypeOK, DragMove, stage, tree, view, fall
<1>6. QED
  BY <1>1, <1>4, <1>5 DEF DragMove

LEMMA DragEndType == TypeOK /\ DragEnd => TypeOK'
<1>1. SUFFICES ASSUME TypeOK, DragEnd PROVE TypeOK'
  OBVIOUS
<1> DEFINE d == gesture.dev
           landed == [k \in Device |-> IF k \in gesture.cargo
                                       THEN Moved(k, box[d].x - gesture.from.x) ELSE box[k]]
           geo == [k \in Device |-> IF k \in gesture.cargo \cup {d} THEN landed[k] ELSE outer[k]]
           Told(p) == IF p = parent[d] THEN <<None, None>> ELSE <<parent[d], p>>
<1>2. d \in Device /\ gesture.from \in Rect
  BY <1>1 DEF TypeOK, DragEnd, GestureType, NoGesture
<1>3. landed \in [Device -> Rect]
  <2> DEFINE dx == box[d].x - gesture.from.x
  <2>1. \A k \in Device : box[k] \in Rect
    BY <1>1 DEF TypeOK
  <2> HIDE DEF d
  <2>2. dx \in Int
    BY <1>2, <2>1 DEF Rect
  <2> HIDE DEF dx
  <2>3. \A k \in Device : Moved(k, dx) \in Rect
    BY <2>1, <2>2 DEF Moved, Rect
  <2>4. QED
    BY <2>1, <2>3 DEF d, dx
<1>4. PICK p \in IF Marks(nodes, hidden, geo)[d] = {}
                 THEN BestParents(d, nodes, hidden, geo, zorder) ELSE {parent[d]} :
        /\ parent' = [parent EXCEPT ![d] = p]
        /\ children' = Relinked(d, p)
        /\ members' = Refreshed({Told(p)[1], Told(p)[2], d}, landed)
        /\ hidden' = Applied(d, Applied(Told(p)[2], Applied(Told(p)[1],
                        hidden, members', selected), members', selected), members', selected)
  BY <1>1 DEF DragEnd
<1>5. /\ box' = landed /\ gesture' = NoGesture /\ Notify
      /\ UNCHANGED <<stage, phases, selected, zorder, fall>>
  BY <1>1 DEF DragEnd
<1> HIDE DEF landed, geo, d, Told
<1>6. p \in Device \cup {None}
  BY <1>1, <1>2, ParentsType DEF TypeOK
<1>7. parent' \in [Device -> Device \cup {None}] /\ children' \in [Device -> SUBSET Device]
  BY <1>1, <1>2, <1>4, <1>6, RelinkedType DEF TypeOK
<1>8. members' \in [Host -> [Phase -> SUBSET Device]]
  BY <1>1, <1>4, <1>5, <1>7, RefreshedType DEF TypeOK, stage
<1>9. hidden' \in [Device -> BOOLEAN]
  BY <1>1, <1>4, AppliedType DEF TypeOK
<1>10. gesture' \in GestureType
  BY <1>5 DEF GestureType
<1>11. QED
  BY <1>1, <1>3, <1>5, <1>7, <1>8, <1>9, <1>10, NotifiedTypes DEF TypeOK, stage, fall

LEMMA ResizeStartType ==
    ASSUME NEW d \in Device
    PROVE  TypeOK /\ ResizeStart(d) => TypeOK'
<1>1. SUFFICES ASSUME TypeOK, ResizeStart(d) PROVE TypeOK'
  OBVIOUS
<1> DEFINE floor == IF children[d] = {} THEN NoRect ELSE Bounds({outer[k] : k \in children[d]})
           ceiling == IF parent[d] = None THEN NoRect ELSE Inner(outer[parent[d]])
<1>2. floor \in Rect \cup {NoRect}
  <2>1. CASE children[d] = {}
    BY <2>1
  <2>2. CASE children[d] # {}
    <3> DEFINE K == children[d]
               g == [k \in K |-> outer[k]]
    <3>1. K \in SUBSET Device /\ IsFiniteSet(K)
      BY <1>1, DeviceAssumption, FS_Subset DEF TypeOK
    <3>2. g \in [K -> Rect] /\ {outer[k] : k \in K} = {g[k] : k \in K}
      BY <1>1, <3>1 DEF TypeOK
    <3> HIDE DEF g, K
    <3>3. Bounds({outer[k] : k \in K}) \in Rect
      BY <2>2, <3>1, <3>2, BoundsType DEF K
    <3>4. QED
      BY <2>2, <3>3 DEF K
  <2>3. QED
    BY <2>1, <2>2
<1>3. ceiling \in Rect \cup {NoRect}
  <2>1. parent[d] # None => outer[parent[d]] \in Rect
    BY <1>1 DEF TypeOK
  <2>2. QED
    BY <2>1, ClampTypes
<1>4. gesture' = [kind |-> "resize", dev |-> d, from |-> box[d], cargo |-> {},
                  floor |-> floor, ceiling |-> ceiling]
  BY <1>1 DEF ResizeStart, NoGesture
<1> HIDE DEF floor, ceiling
<1>5. gesture' \in GestureType
  <2>1. box[d] \in Rect
    BY <1>1 DEF TypeOK
  <2>2. QED
    BY <1>2, <1>3, <1>4, <2>1 DEF GestureType
<1>6. QED
  BY <1>1, <1>5 DEF TypeOK, ResizeStart, stage, tree, view, fall

LEMMA ResizeMoveType ==
    ASSUME NEW d \in Complex, NEW r \in Shapes[d]
    PROVE  TypeOK /\ ResizeMove(d, r) => TypeOK'
<1>1. SUFFICES ASSUME TypeOK, ResizeMove(d, r) PROVE TypeOK'
  OBVIOUS
<1>2. r \in Rect /\ d \in Device
  BY StageAssumption, DeviceAssumption
<1>3. gesture.floor \in Rect \cup {NoRect}
  BY <1>1 DEF TypeOK, GestureType, NoGesture
<1>4. (IF gesture.floor = NoRect THEN r ELSE ClampResize(r, gesture.floor)) \in Rect
  BY <1>2, <1>3, ClampTypes
<1>5. box' \in [Device -> Rect]
  BY <1>1, <1>4 DEF TypeOK, ResizeMove
<1>6. QED
  BY <1>1, <1>5 DEF TypeOK, ResizeMove, stage, tree, view, fall

\* What the notification of a device leaves to prove of the types.
LEMMA SceneNotifyType ==
    ASSUME NEW d, TypeOK, SceneNotify(d), UNCHANGED <<stage, tree, fall>>,
           zorder' \in Seq(Device),
           box' \in [Device -> Rect],
           phases' \in [Host -> Seq(Phase)],
           selected' \in [Host -> Phase],
           \A h \in Host : \E i \in DOMAIN phases'[h] : phases'[h][i] = selected'[h],
           gesture' \in GestureType
    PROVE  TypeOK'
<1>1. members' \in [Host -> [Phase -> SUBSET Device]]
  BY RefreshedType DEF TypeOK, SceneNotify, stage, tree
<1>2. hidden' \in [Device -> BOOLEAN]
  BY AppliedType DEF TypeOK, SceneNotify
<1>3. QED
  BY <1>1, <1>2, NotifiedTypes DEF TypeOK, SceneNotify, stage, tree, fall

LEMMA ResizeEndType == TypeOK /\ ResizeEnd => TypeOK'
<1>1. SUFFICES ASSUME TypeOK, ResizeEnd PROVE TypeOK'
  OBVIOUS
<1>2. /\ gesture.dev \in Device /\ gesture.floor \in Rect \cup {NoRect}
      /\ gesture.ceiling \in Rect \cup {NoRect}
  BY <1>1 DEF TypeOK, ResizeEnd, GestureType, NoGesture
<1>3. Resized(box[gesture.dev], gesture.floor, gesture.ceiling) \in Rect
  BY <1>1, <1>2, ResizedType DEF TypeOK
<1>4. box' \in [Device -> Rect]
  BY <1>1, <1>3 DEF TypeOK, ResizeEnd
<1>5. gesture' \in GestureType
  BY <1>1 DEF ResizeEnd, GestureType
<1>6. SceneNotify(gesture.dev) /\ UNCHANGED <<stage, tree, phases, selected, zorder, fall>>
  BY <1>1 DEF ResizeEnd
<1>7. QED
  BY <1>1, <1>4, <1>5, <1>6, SceneNotifyType DEF TypeOK

LEMMA RestackType ==
    ASSUME NEW d \in Complex, NEW step \in {-1, 1}
    PROVE  TypeOK /\ Restack(d, step) => TypeOK'
<1>1. SUFFICES ASSUME TypeOK, Restack(d, step) PROVE TypeOK'
  OBVIOUS
<1> DEFINE i == Position(zorder, d)
<1>2. zorder' \in Seq(Device)
  <2>1. zorder' = IF {i, i + step} \subseteq DOMAIN zorder
                  THEN Swapped(zorder, i, i + step) ELSE zorder
    BY <1>1 DEF Restack
  <2> HIDE DEF i
  <2>2. CASE ~ ({i, i + step} \subseteq DOMAIN zorder)
    BY <1>1, <2>1, <2>2 DEF TypeOK
  <2>3. CASE {i, i + step} \subseteq DOMAIN zorder
    BY <1>1, <2>1, <2>3 DEF TypeOK, Swapped
  <2>4. QED
    BY <2>2, <2>3
<1>3. QED
  BY <1>1, <1>2, SceneNotifyType DEF TypeOK, Restack

LEMMA SelectPhaseType ==
    ASSUME NEW h \in Host, NEW p \in Phase
    PROVE  TypeOK /\ SelectPhase(h, p) => TypeOK'
<1>1. SUFFICES ASSUME TypeOK, SelectPhase(h, p) PROVE TypeOK'
  OBVIOUS
<1>2. members' \in [Host -> [Phase -> SUBSET Device]]
  BY <1>1, RefreshedType DEF TypeOK, SelectPhase, stage, tree
<1>3. hidden' \in [Device -> BOOLEAN]
  BY <1>1, AppliedType DEF TypeOK, SelectPhase
<1>4. marks' \in [Device -> SUBSET Device]
  BY <1>1, MarksType DEF TypeOK, SelectPhase
<1>5. \A g \in Host : \E i \in DOMAIN phases'[g] : phases'[g][i] = selected'[g]
  BY <1>1 DEF TypeOK, SelectPhase
<1>6. selected' \in [Host -> Phase]
  BY <1>1 DEF TypeOK, SelectPhase
<1>7. QED
  BY <1>1, <1>2, <1>3, <1>4, <1>5, <1>6 DEF TypeOK, SelectPhase, stage, tree, fall

LEMMA InsertPhaseType ==
    ASSUME NEW h \in Host, NEW p \in Phase, NEW i \in 0..Len(phases[h])
    PROVE  TypeOK /\ InsertPhase(h, i, p) => TypeOK'
<1>1. SUFFICES ASSUME TypeOK, InsertPhase(h, i, p) PROVE TypeOK'
  OBVIOUS
<1> DEFINE z == phases[h]
           y == SubSeq(z, 1, i) \o <<p>> \o SubSeq(z, i + 1, Len(z))
<1>2. z \in Seq(Phase)
  BY <1>1 DEF TypeOK
<1>3. phases' = [phases EXCEPT ![h] = y] /\ selected' = [selected EXCEPT ![h] = p]
  BY <1>1 DEF InsertPhase
<1>4. y \in Seq(Phase) /\ \E j \in DOMAIN y : y[j] = p
  BY <1>2, InsertedPhase
<1> HIDE DEF y, z
<1>5. phases' \in [Host -> Seq(Phase)] /\ selected' \in [Host -> Phase]
  BY <1>1, <1>3, <1>4 DEF TypeOK
<1>6. \A g \in Host : \E j \in DOMAIN phases'[g] : phases'[g][j] = selected'[g]
  BY <1>1, <1>3, <1>4 DEF TypeOK
<1>7. SceneNotify(h) /\ UNCHANGED <<stage, box, tree, zorder, gesture, fall>>
  BY <1>1 DEF InsertPhase
<1>8. QED
  BY <1>1, <1>5, <1>6, <1>7, SceneNotifyType DEF TypeOK

LEMMA RemovePhaseType ==
    ASSUME NEW h \in Host
    PROVE  TypeOK /\ RemovePhase(h) => TypeOK'
<1>1. SUFFICES ASSUME TypeOK, RemovePhase(h) PROVE TypeOK'
  OBVIOUS
<1> DEFINE z == phases[h]
           gone == selected[h]
           i == Position(z, gone)
           n == IF i = 1 THEN 2 ELSE i - 1
           heir == z[n]
           ms == Maintained(h, members[h], gone, nodes, parent, children, box)
           left == [ms EXCEPT ![heir] = @ \cup ms[gone], ![gone] = {}]
<1>2. /\ phases' = [phases EXCEPT ![h] = Cut(z, i)] /\ selected' = [selected EXCEPT ![h] = heir]
      /\ members' = [members EXCEPT ![h] = left]
      /\ hidden' = Applied(h, hidden, members', selected')
      /\ Notify /\ Len(z) >= 2 /\ UNCHANGED <<stage, box, tree, zorder, gesture, fall>>
  BY <1>1 DEF RemovePhase
<1>3. z \in Seq(Phase) /\ i \in DOMAIN z
  BY <1>1, PositionType DEF TypeOK
<1>4. ms \in [Phase -> SUBSET Device]
  BY <1>1, MaintainedType, DeviceAssumption DEF TypeOK
<1> HIDE DEF ms, i
<1>5. n \in DOMAIN z /\ heir \in Phase
  BY <1>2, <1>3
<1>6. \E j \in DOMAIN Cut(z, i) : Cut(z, i)[j] = heir
  <2>1. Cut(z, i) \in Seq(Phase) /\ Len(Cut(z, i)) = Len(z) - 1 /\ i \in Nat /\ 1 <= i /\ i <= Len(z)
    BY <1>3, CutType
  <2>2. CASE i = 1
    <3>1. 1 \in DOMAIN Cut(z, i) /\ Cut(z, i)[1] = z[2]
      BY <1>2, <1>3, <2>1, <2>2, CutType
    <3>2. QED
      BY <2>2, <3>1
  <2>3. CASE i # 1
    <3>1. i - 1 \in 1..(i - 1) /\ i - 1 \in 1..Len(Cut(z, i))
      BY <1>3, <2>1, <2>3
    <3>2. Cut(z, i)[i - 1] = z[i - 1]
      BY <1>3, <3>1, CutType
    <3>3. i - 1 \in DOMAIN Cut(z, i)
      BY <2>1, <3>1
    <3>4. QED
      BY <2>3, <3>2, <3>3
  <2>4. QED
    BY <2>2, <2>3
<1>7. Cut(z, i) \in Seq(Phase)
  BY <1>3, CutType
<1>8. left \in [Phase -> SUBSET Device]
  <2>1. gone \in Phase
    BY <1>1 DEF TypeOK
  <2>2. QED
    BY <1>4, <1>5, <2>1
<1> HIDE DEF left, heir, z
<1>9. phases' \in [Host -> Seq(Phase)] /\ selected' \in [Host -> Phase]
  BY <1>1, <1>2, <1>5, <1>7 DEF TypeOK
<1>10. \A g \in Host : \E j \in DOMAIN phases'[g] : phases'[g][j] = selected'[g]
  BY <1>1, <1>2, <1>6 DEF TypeOK
<1>11. members' \in [Host -> [Phase -> SUBSET Device]]
  BY <1>1, <1>2, <1>8 DEF TypeOK
<1>12. hidden' \in [Device -> BOOLEAN]
  BY <1>1, <1>2, AppliedType DEF TypeOK
<1>13. QED
  BY <1>1, <1>2, <1>9, <1>10, <1>11, <1>12, NotifiedTypes DEF TypeOK, stage, tree, fall

LEMMA DoomType ==
    ASSUME NEW d \in Device, children \in [Device -> SUBSET Device]
    PROVE  Doom(d) \in [dev : Device, kids : SUBSET Device]
<1>1. children[d] \in SUBSET Device
  OBVIOUS
<1>2. QED
  BY <1>1 DEF Doom

LEMMA DeleteType ==
    ASSUME NEW d \in Device
    PROVE  TypeOK /\ Delete(d) => TypeOK'
<1>1. SUFFICES ASSUME TypeOK, Delete(d) PROVE TypeOK'
  OBVIOUS
<1>2. doomed' \in Seq([dev : Device, kids : SUBSET Device])
  BY <1>1, DoomType DEF TypeOK, Delete
<1>3. QED
  BY <1>1, <1>2 DEF TypeOK, Delete, stage, tree, view

LEMMA FellKidType == TypeOK /\ FellKid => TypeOK'
<1>1. SUFFICES ASSUME TypeOK, FellKid PROVE TypeOK'
  OBVIOUS
<1> DEFINE DT == [dev : Device, kids : SUBSET Device]
<1>2. Head(doomed) \in DT /\ Tail(doomed) \in Seq(DT)
  <2>1. doomed \in Seq(DT) /\ doomed # <<>>
    BY <1>1 DEF TypeOK, FellKid
  <2> HIDE DEF DT
  <2>2. QED
    BY <2>1
<1>3. PICK k \in Head(doomed).kids :
        doomed' = (IF k \in nodes THEN <<Doom(k)>> ELSE <<>>)
                    \o <<[Head(doomed) EXCEPT !.kids = @ \ {k}]>> \o Tail(doomed)
  BY <1>1 DEF FellKid
<1>4. k \in Device
  BY <1>2
<1>5. [Head(doomed) EXCEPT !.kids = @ \ {k}] \in DT
  BY <1>2
<1>6. Doom(k) \in DT
  BY <1>1, <1>4, DoomType DEF TypeOK
<1> HIDE DEF DT
<1>7. (IF k \in nodes THEN <<Doom(k)>> ELSE <<>>) \in Seq(DT)
  BY <1>6
<1>8. doomed' \in Seq(DT)
  BY <1>2, <1>3, <1>5, <1>7
<1>9. QED
  BY <1>1, <1>8 DEF TypeOK, FellKid, stage, tree, view, DT

LEMMA BeginUnregisterType == TypeOK /\ BeginUnregister => TypeOK'
<1>1. SUFFICES ASSUME TypeOK, BeginUnregister PROVE TypeOK'
  OBVIOUS
<1> DEFINE DT == [dev : Device, kids : SUBSET Device]
<1>2. leaving' \in Device
  <2>1. doomed \in Seq(DT) /\ doomed # <<>> /\ leaving' = Head(doomed).dev
    BY <1>1 DEF TypeOK, BeginUnregister
  <2>2. Head(doomed) \in DT
    <3> HIDE DEF DT
    <3>1. QED
      BY <2>1
  <2>3. QED
    BY <2>1, <2>2
<1>3. heirs' \subseteq Device
  BY <1>1, <1>2 DEF TypeOK, BeginUnregister
<1>4. QED
  BY <1>1, <1>2, <1>3 DEF TypeOK, BeginUnregister, stage, tree, view

LEMMA BequeathType ==
    ASSUME NEW k \in Device
    PROVE  TypeOK /\ Bequeath(k) => TypeOK'
<1>1. SUFFICES ASSUME TypeOK, Bequeath(k) PROVE TypeOK'
  OBVIOUS
<1> DEFINE p == parent[leaving]
<1>2. leaving \in Device /\ p \in Device \cup {None}
  BY <1>1 DEF TypeOK, Bequeath
<1>3. parent' \in [Device -> Device \cup {None}]
  BY <1>1, <1>2 DEF TypeOK, Bequeath
<1>4. children' \in [Device -> SUBSET Device]
  <2>1. \A c \in Device : children[c] \cup {k} \in SUBSET Device /\ children[c] \in SUBSET Device
    BY <1>1 DEF TypeOK
  <2>2. children' = [c \in Device |-> IF c = p /\ c \in nodes THEN children[c] \cup {k} ELSE children[c]]
    BY <1>1 DEF Bequeath
  <2> HIDE DEF p
  <2>3. QED
    BY <2>1, <2>2
<1>5. members' \in [Host -> [Phase -> SUBSET Device]]
  BY <1>1, <1>4, RefreshedType DEF TypeOK, Bequeath, stage
<1>6. hidden' \in [Device -> BOOLEAN]
  BY <1>1, AppliedType DEF TypeOK, Bequeath
<1>7. marks' \in [Device -> SUBSET Device]
  BY <1>1, MarksType DEF TypeOK, Bequeath
<1>8. QED
  BY <1>1, <1>3, <1>4, <1>5, <1>6, <1>7 DEF TypeOK, Bequeath, stage

LEMMA UnregisterType == TypeOK /\ Unregister => TypeOK'
<1>1. SUFFICES ASSUME TypeOK, Unregister PROVE TypeOK'
  OBVIOUS
<1>2. leaving \in Device /\ doomed # <<>>
  BY <1>1 DEF TypeOK, Unregister
<1>3. nodes' \subseteq Device /\ order' \in Seq(Device) /\ zorder' \in Seq(Device)
  BY <1>1, WithoutType DEF TypeOK, Unregister
<1>4. Nowhere \in Rect
  BY DEF Nowhere, Rect
<1>5. box' \in [Device -> Rect]
  BY <1>1, <1>4 DEF TypeOK, Unregister
<1>6. hidden' \in [Device -> BOOLEAN] /\ parent' \in [Device -> Device \cup {None}]
  BY <1>1 DEF TypeOK, Unregister
<1>7. children' \in [Device -> SUBSET Device]
  <2>1. Relinked(leaving, None) \in [Device -> SUBSET Device]
    BY <1>1, <1>2, RelinkedType DEF TypeOK
  <2>2. QED
    BY <1>1, <2>1 DEF Unregister
<1>8. doomed' \in Seq([dev : Device, kids : SUBSET Device])
  BY <1>1, <1>2 DEF TypeOK, Unregister
<1>9. Notify /\ leaving' = None /\ UNCHANGED <<fresh, phases, members, selected, gesture, heirs>>
  BY <1>1 DEF Unregister
<1>10. QED
  BY <1>1, <1>3, <1>5, <1>6, <1>7, <1>8, <1>9, NotifiedTypes DEF TypeOK

\* The state keeps the shape the code gives it, whatever the devices, the
\* phases and the sizes: a Sequence always shows a phase of its list.
THEOREM TypeCorrect == Spec => []TypeOK
<1>1. ASSUME TypeOK, [Next]_vars PROVE TypeOK'
  <2>1. CASE Sweep
    BY <1>1, <2>1, KeepParentType, ReparentType, ExportType DEF Sweep
  <2>2. CASE Cascade
    BY <1>1, <2>2, FellKidType, BeginUnregisterType, BequeathType, UnregisterType DEF Cascade
  <2>3. CASE Refresh
    BY <1>1, <2>3, RefreshType
  <2>4. CASE \E d \in Device : \E x \in Places[d] : Place(d, x)
    BY <1>1, <2>4, PlaceType
  <2>5. CASE Drag
    BY <1>1, <2>5, DragStartType, DragMoveType, DragEndType DEF Drag
  <2>6. CASE Resize
    BY <1>1, <2>6, ResizeStartType, ResizeMoveType, ResizeEndType DEF Resize
  <2>7. CASE Menu
    BY <1>1, <2>7, RestackType, SelectPhaseType, InsertPhaseType, RemovePhaseType, DeleteType DEF Menu
  <2>8. CASE UNCHANGED vars
    BY <1>1, <2>8 DEF TypeOK, vars, stage, tree, view, fall
  <2>9. QED
    BY <1>1, <2>1, <2>2, <2>3, <2>4, <2>5, <2>6, <2>7, <2>8 DEF Next
<1>2. QED
  BY <1>1, InitType, PTL DEF Spec
----------------------------------------------------------------------------
(* The marks and the mirror.                                               *)

LEMMA MarksInit == Init => MarksFresh
BY DEF Init, MarksFresh, Marks

LEMMA MarksStep == MarksFresh /\ [Next]_vars => MarksFresh'
<1>1. SUFFICES ASSUME MarksFresh, [Next]_vars PROVE MarksFresh'
  OBVIOUS
<1>2. ASSUME UNCHANGED <<marks, nodes, hidden, outer>> PROVE MarksFresh'
  BY <1>1, <1>2 DEF MarksFresh
<1>3. ASSUME marks' = Marks(nodes', hidden', outer') PROVE MarksFresh'
  BY <1>3 DEF MarksFresh
<1>4. CASE KeepParent
  BY <1>2, <1>4 DEF KeepParent, stage, view
<1>5. CASE Reparent
  <2>1. marks' = Marks(nodes, hidden', outer) /\ UNCHANGED <<nodes, outer>>
    BY <1>5 DEF Reparent, stage
  <2>2. QED
    BY <1>3, <2>1
<1>6. CASE Export
  BY <1>2, <1>6 DEF Export, stage
<1>7. ASSUME Notify PROVE MarksFresh'
  BY <1>3, <1>7 DEF Notify
<1>8. CASE Refresh
  BY <1>7, <1>8 DEF Refresh
<1>9. ASSUME NEW d \in Device, NEW x \in Places[d], Place(d, x) PROVE MarksFresh'
  BY <1>7, <1>9 DEF Place
<1>10. ASSUME NEW d \in Device, DragStart(d) PROVE MarksFresh'
  BY <1>2, <1>10 DEF DragStart, stage, view
<1>11. ASSUME NEW d \in Device, NEW x \in Places[d], DragMove(d, x) PROVE MarksFresh'
  <2>1. CASE Notify
    BY <1>7, <2>1
  <2>2. CASE marks' = Marks(nodes, hidden, outer')
    BY <1>3, <1>11, <2>2 DEF DragMove, stage, view
  <2>3. QED
    BY <1>11, <2>1, <2>2 DEF DragMove
<1>12. CASE DragEnd
  BY <1>7, <1>12 DEF DragEnd
<1>13. ASSUME NEW d \in Device, ResizeStart(d) PROVE MarksFresh'
  BY <1>2, <1>13 DEF ResizeStart, stage, view
<1>14. ASSUME NEW d \in Complex, NEW r \in Shapes[d], ResizeMove(d, r) PROVE MarksFresh'
  BY <1>2, <1>14 DEF ResizeMove, stage, view
<1>15. CASE ResizeEnd
  BY <1>7, <1>15 DEF ResizeEnd, SceneNotify
<1>16. ASSUME NEW d \in Complex, NEW step \in {-1, 1}, Restack(d, step) PROVE MarksFresh'
  BY <1>7, <1>16 DEF Restack, SceneNotify
<1>17. ASSUME NEW h \in Host, NEW p \in Phase, SelectPhase(h, p) PROVE MarksFresh'
  <2>1. marks' = Marks(nodes, hidden', outer) /\ UNCHANGED <<nodes, outer>>
    BY <1>17 DEF SelectPhase, stage
  <2>2. QED
    BY <1>3, <2>1
<1>18. ASSUME NEW h \in Host, NEW p \in Phase, NEW i \in 0..Len(phases[h]), InsertPhase(h, i, p)
       PROVE  MarksFresh'
  BY <1>7, <1>18 DEF InsertPhase, SceneNotify
<1>19. ASSUME NEW h \in Host, RemovePhase(h) PROVE MarksFresh'
  BY <1>7, <1>19 DEF RemovePhase
<1>20. ASSUME NEW d \in Device, Delete(d) PROVE MarksFresh'
  BY <1>2, <1>20 DEF Delete, stage, view
<1>21. CASE FellKid
  BY <1>2, <1>21 DEF FellKid, stage, view
<1>22. CASE BeginUnregister
  BY <1>2, <1>22 DEF BeginUnregister, stage, view
<1>23. ASSUME NEW k \in Device, Bequeath(k) PROVE MarksFresh'
  <2>1. marks' = Marks(nodes, hidden', outer) /\ UNCHANGED <<nodes, outer>>
    BY <1>23 DEF Bequeath, stage
  <2>2. QED
    BY <1>3, <2>1
<1>24. CASE Unregister
  BY <1>7, <1>24 DEF Unregister
<1>25. CASE UNCHANGED vars
  BY <1>2, <1>25 DEF vars, stage, view
<1>26. QED
  BY <1>1, <1>4, <1>5, <1>6, <1>8, <1>9, <1>10, <1>11, <1>12, <1>13, <1>14, <1>15, <1>16,
     <1>17, <1>18, <1>19, <1>20, <1>21, <1>22, <1>23, <1>24, <1>25
     DEF Next, Sweep, Cascade, Drag, Resize, Menu

\* The red borders are always those of the geometry the graph knows: no order
\* of gestures, phase switches, deletes and refreshes leaves a stale one.
THEOREM MarksCorrect == Spec => []MarksFresh
BY MarksInit, MarksStep, PTL DEF Spec

LEMMA MirrorStep == TypeOK /\ MirrorTrue /\ [Next]_vars => MirrorTrue'
<1>1. SUFFICES ASSUME TypeOK, MirrorTrue, [Next]_vars PROVE MirrorTrue'
  OBVIOUS
<1>2. ASSUME UNCHANGED <<nodes, box, outer, gesture>> PROVE MirrorTrue'
  BY <1>1, <1>2 DEF MirrorTrue
<1>3. ASSUME UNCHANGED <<nodes, box, outer>>, gesture = NoGesture PROVE MirrorTrue'
  BY <1>1, <1>3 DEF MirrorTrue, NoGesture
<1>4. ASSUME Notify PROVE MirrorTrue'
  BY <1>4 DEF Notify, MirrorTrue
<1>5. CASE KeepParent
  BY <1>2, <1>5 DEF KeepParent, stage
<1>6. CASE Reparent
  BY <1>2, <1>6 DEF Reparent, stage
<1>7. CASE Export
  BY <1>2, <1>7 DEF Export, stage
<1>8. CASE Refresh
  BY <1>4, <1>8 DEF Refresh
<1>9. ASSUME NEW d \in Device, NEW x \in Places[d], Place(d, x) PROVE MirrorTrue'
  BY <1>4, <1>9 DEF Place
<1>10. ASSUME NEW d \in Device, DragStart(d) PROVE MirrorTrue'
  BY <1>3, <1>10 DEF DragStart, Idle, stage
<1>11. ASSUME NEW d \in Device, NEW x \in Places[d], DragMove(d, x) PROVE MirrorTrue'
  <2>1. CASE Notify
    BY <1>4, <2>1
  <2>2. CASE outer' = [outer EXCEPT ![d] = box'[d]]
    <3>1. /\ box' = [box EXCEPT ![d].x = x] /\ nodes' = nodes /\ gesture' = gesture
          /\ gesture.kind = "drag"
      BY <1>11 DEF DragMove, stage
    <3>2. ASSUME NEW e \in nodes PROVE outer'[e] = box'[e]
      <4>1. e \in Device /\ outer[e] = box[e]
        BY <1>1, <3>1, <3>2 DEF TypeOK, MirrorTrue
      <4>2. QED
        BY <1>1, <2>2, <3>1, <4>1 DEF TypeOK
    <3>3. QED
      BY <3>1, <3>2 DEF MirrorTrue
  <2>3. QED
    BY <1>11, <2>1, <2>2 DEF DragMove
<1>12. CASE DragEnd
  BY <1>4, <1>12 DEF DragEnd
<1>13. ASSUME NEW d \in Device, ResizeStart(d) PROVE MirrorTrue'
  BY <1>3, <1>13 DEF ResizeStart, Idle, stage
<1>14. ASSUME NEW d \in Complex, NEW r \in Shapes[d], ResizeMove(d, r) PROVE MirrorTrue'
  <2>1. /\ nodes' = nodes /\ outer' = outer /\ gesture' = gesture
        /\ gesture.kind = "resize" /\ gesture.dev = d
    BY <1>14 DEF ResizeMove, stage
  <2>2. \A e \in Device \ {d} : box'[e] = box[e]
    BY <1>1, <1>14 DEF TypeOK, ResizeMove
  <2>3. QED
    BY <1>1, <2>1, <2>2 DEF TypeOK, MirrorTrue
<1>15. CASE ResizeEnd
  BY <1>4, <1>15 DEF ResizeEnd, SceneNotify
<1>16. ASSUME NEW d \in Complex, NEW step \in {-1, 1}, Restack(d, step) PROVE MirrorTrue'
  BY <1>4, <1>16 DEF Restack, SceneNotify
<1>17. ASSUME NEW h \in Host, NEW p \in Phase, SelectPhase(h, p) PROVE MirrorTrue'
  BY <1>2, <1>17 DEF SelectPhase, stage
<1>18. ASSUME NEW h \in Host, NEW p \in Phase, NEW i \in 0..Len(phases[h]), InsertPhase(h, i, p)
       PROVE  MirrorTrue'
  BY <1>4, <1>18 DEF InsertPhase, SceneNotify
<1>19. ASSUME NEW h \in Host, RemovePhase(h) PROVE MirrorTrue'
  BY <1>4, <1>19 DEF RemovePhase
<1>20. ASSUME NEW d \in Device, Delete(d) PROVE MirrorTrue'
  BY <1>2, <1>20 DEF Delete, stage
<1>21. CASE FellKid
  BY <1>2, <1>21 DEF FellKid, stage
<1>22. CASE BeginUnregister
  BY <1>2, <1>22 DEF BeginUnregister, stage
<1>23. ASSUME NEW k \in Device, Bequeath(k) PROVE MirrorTrue'
  BY <1>2, <1>23 DEF Bequeath, stage
<1>24. CASE Unregister
  BY <1>4, <1>24 DEF Unregister
<1>25. CASE UNCHANGED vars
  BY <1>2, <1>25 DEF vars, stage
<1>26. QED
  BY <1>1, <1>5, <1>6, <1>7, <1>8, <1>9, <1>10, <1>11, <1>12, <1>13, <1>14, <1>15, <1>16,
     <1>17, <1>18, <1>19, <1>20, <1>21, <1>22, <1>23, <1>24, <1>25
     DEF Next, Sweep, Cascade, Drag, Resize, Menu

\* Outside a resize the graph's copy of a device's rectangle is the device's.
THEOREM MirrorCorrect == Spec => []MirrorTrue
<1>1. Init => MirrorTrue
  BY DEF Init, MirrorTrue
<1>2. QED
  BY <1>1, MirrorStep, TypeCorrect, PTL DEF Spec

----------------------------------------------------------------------------
(* The phases.                                                             *)

Apart(ms) == \A p, q \in Phase : p # q => ms[p] \cap ms[q] = {}

LEMMA MaintainedApart ==
    ASSUME NEW h \in Device, NEW ms \in [Phase -> SUBSET Device], NEW sel,
           NEW reg \in SUBSET Device, NEW par, NEW kids, NEW geo, Apart(ms)
    PROVE  Apart(Maintained(h, ms, sel, reg, par, kids, geo))
<1> DEFINE strays == {d \in reg \ {h} : par[d] = None /\ Inside(h, d, geo)}
           adopted == (kids[h] \cup strays) \ Known(ms)
           Keep(d) == \/ d \in kids[h]
                      \/ d \in reg /\ par[d] \in {None, h} /\ Inside(h, d, geo)
           mt == [p \in Phase |-> {d \in IF p = sel THEN ms[p] \cup adopted ELSE ms[p] : Keep(d)}]
<1>1. Maintained(h, ms, sel, reg, par, kids, geo) = mt
  BY DEF Maintained
<1>2. \A p \in Phase : adopted \cap ms[p] = {}
  BY DEF Known
<1> HIDE DEF adopted, Keep
<1>3. \A p \in Phase : mt[p] \subseteq ms[p] \cup (IF p = sel THEN adopted ELSE {})
  OBVIOUS
<1> HIDE DEF mt
<1>4. Apart(mt)
  BY <1>2, <1>3 DEF Apart
<1>5. QED
  BY <1>1, <1>4

LEMMA RefreshedApart ==
    ASSUME TypeOK, OnePhase, nodes' \subseteq Device, NEW hs, NEW geo, members' = Refreshed(hs, geo)
    PROVE  OnePhase'
<1>1. ASSUME NEW h \in Host PROVE Apart(members'[h])
  <2>1. Apart(members[h])
    BY <1>1 DEF OnePhase, Apart
  <2>2. members[h] \in [Phase -> SUBSET Device] /\ h \in Device
    BY DeviceAssumption DEF TypeOK
  <2>3. Apart(Maintained(h, members[h], selected[h], nodes', parent', children', geo))
    BY <2>1, <2>2, MaintainedApart
  <2>4. QED
    BY <2>1, <2>3 DEF Refreshed
<1>2. QED
  BY <1>1 DEF OnePhase, Apart

LEMMA OnePhaseStep == TypeOK /\ TypeOK' /\ OnePhase /\ [Next]_vars => OnePhase'
<1>1. SUFFICES ASSUME TypeOK, TypeOK', OnePhase, [Next]_vars PROVE OnePhase'
  OBVIOUS
<1>2. ASSUME UNCHANGED members PROVE OnePhase'
  BY <1>1, <1>2 DEF OnePhase
<1>3. ASSUME NEW hs, NEW geo, members' = Refreshed(hs, geo) PROVE OnePhase'
  BY <1>1, <1>3, RefreshedApart DEF TypeOK
<1>4. CASE KeepParent
  BY <1>2, <1>4 DEF KeepParent, view
<1>5. CASE Reparent
  BY <1>3, <1>5 DEF Reparent
<1>6. CASE Export
  BY <1>3, <1>6 DEF Export
<1>7. CASE Refresh
  BY <1>2, <1>7 DEF Refresh, view
<1>8. ASSUME NEW d \in Device, NEW x \in Places[d], Place(d, x) PROVE OnePhase'
  BY <1>3, <1>8 DEF Place
<1>9. ASSUME NEW d \in Device, DragStart(d) PROVE OnePhase'
  BY <1>2, <1>9 DEF DragStart, view
<1>10. ASSUME NEW d \in Device, NEW x \in Places[d], DragMove(d, x) PROVE OnePhase'
  BY <1>2, <1>10 DEF DragMove, view
<1>11. CASE DragEnd
  <2>1. \E hs, geo : members' = Refreshed(hs, geo)
    BY <1>11 DEF DragEnd
  <2>2. QED
    BY <1>3, <2>1
<1>12. ASSUME NEW d \in Device, ResizeStart(d) PROVE OnePhase'
  BY <1>2, <1>12 DEF ResizeStart, view
<1>13. ASSUME NEW d \in Complex, NEW r \in Shapes[d], ResizeMove(d, r) PROVE OnePhase'
  BY <1>2, <1>13 DEF ResizeMove, view
<1>14. ASSUME NEW d, SceneNotify(d) PROVE OnePhase'
  BY <1>3, <1>14 DEF SceneNotify
<1>15. CASE ResizeEnd
  BY <1>14, <1>15 DEF ResizeEnd
<1>16. ASSUME NEW d \in Complex, NEW step \in {-1, 1}, Restack(d, step) PROVE OnePhase'
  BY <1>14, <1>16 DEF Restack
<1>17. ASSUME NEW h \in Host, NEW p \in Phase, SelectPhase(h, p) PROVE OnePhase'
  BY <1>3, <1>17 DEF SelectPhase
<1>18. ASSUME NEW h \in Host, NEW p \in Phase, NEW i \in 0..Len(phases[h]), InsertPhase(h, i, p)
       PROVE  OnePhase'
  BY <1>14, <1>18 DEF InsertPhase
<1>19. ASSUME NEW h \in Host, RemovePhase(h) PROVE OnePhase'
  <2> DEFINE gone == selected[h]
             i == Position(phases[h], gone)
             heir == phases[h][IF i = 1 THEN 2 ELSE i - 1]
             ms == Maintained(h, members[h], gone, nodes, parent, children, box)
             left == [ms EXCEPT ![heir] = @ \cup ms[gone], ![gone] = {}]
  <2>1. members' = [members EXCEPT ![h] = left] /\ selected' = [selected EXCEPT ![h] = heir]
    BY <1>19 DEF RemovePhase
  <2>2. members[h] \in [Phase -> SUBSET Device] /\ h \in Device /\ nodes \in SUBSET Device
    BY <1>1, DeviceAssumption DEF TypeOK
  <2>3. ms \in [Phase -> SUBSET Device]
    BY <1>1, <2>2, MaintainedType DEF TypeOK
  <2>4. Apart(ms)
    BY <1>1, <2>2, MaintainedApart DEF OnePhase, Apart
  <2>5. gone \in Phase
    BY <1>1 DEF TypeOK
  <2> HIDE DEF ms, heir, gone
  <2>6. \A p \in Phase : left[p] = IF p = gone THEN {}
                                   ELSE IF p = heir THEN ms[heir] \cup ms[gone] ELSE ms[p]
    BY <2>3, <2>5
  <2> HIDE DEF left
  <2>7. Apart(left)
    BY <2>4, <2>5, <2>6 DEF Apart
  <2>8. \A g \in Host : Apart(members'[g])
    BY <1>1, <2>1, <2>7 DEF TypeOK, OnePhase, Apart
  <2>9. QED
    BY <2>8 DEF OnePhase, Apart
<1>20. ASSUME NEW d \in Device, Delete(d) PROVE OnePhase'
  BY <1>2, <1>20 DEF Delete, view
<1>21. CASE FellKid
  BY <1>2, <1>21 DEF FellKid, view
<1>22. CASE BeginUnregister
  BY <1>2, <1>22 DEF BeginUnregister, view
<1>23. ASSUME NEW k \in Device, Bequeath(k) PROVE OnePhase'
  BY <1>3, <1>23 DEF Bequeath
<1>24. CASE Unregister
  BY <1>2, <1>24 DEF Unregister
<1>25. CASE UNCHANGED vars
  BY <1>2, <1>25 DEF vars, view
<1>26. QED
  BY <1>1, <1>4, <1>5, <1>6, <1>7, <1>8, <1>9, <1>10, <1>11, <1>12, <1>13, <1>15, <1>16,
     <1>17, <1>18, <1>19, <1>20, <1>21, <1>22, <1>23, <1>24, <1>25
     DEF Next, Sweep, Cascade, Drag, Resize, Menu

\* No order of gestures, menus and renewals puts a device in two phases of a
\* Sequence.
THEOREM OnePhaseCorrect == Spec => []OnePhase
<1>1. Init => OnePhase
  BY DEF Init, OnePhase
<1>2. QED
  BY <1>1, OnePhaseStep, TypeCorrect, PTL DEF Spec

----------------------------------------------------------------------------
(* The containment tree.                                                   *)

\* Graph.order lists the registered devices, each once, and nothing comes back.
Registry ==
    /\ \A i, j \in DOMAIN order : order[i] = order[j] => i = j
    /\ \A i \in DOMAIN order : order[i] \in nodes
    /\ \A d \in nodes : \E i \in DOMAIN order : order[i] = d
    /\ fresh \cap nodes = {}

\* A pass looks at registered devices and ends with the export.
Pass ==
    sweep # <<>> =>
        /\ leaving = None
        /\ sweep[Len(sweep)] = None
        /\ \A i \in 1..(Len(sweep) - 1) : sweep[i] \in nodes

\* What a container being unregistered still lists and has handed on already
\* has its parent.
Heirs ==
    /\ leaving = None => heirs = {}
    /\ leaving # None =>
        /\ heirs \subseteq children[leaving]
        /\ \A j \in children[leaving] \ heirs : parent[j] = parent[leaving]

\* Only registered devices have a parent, and it is a container placed before.
Parents ==
    \A d \in Device : parent[d] # None =>
        d \in nodes /\ parent[d] \in Complex /\ parent[d] \notin fresh

\* No cascade runs during a gesture, so the device in it stays.
Grip == gesture.kind # "none" => gesture.dev \in nodes /\ doomed = <<>>

GraphInv == Registry /\ Pass /\ Heirs /\ Parents /\ Grip /\ LinksAgree

LEMMA CutShape ==
    ASSUME NEW S, NEW z \in Seq(S), NEW i \in DOMAIN z
    PROVE  /\ Cut(z, i) \in Seq(S)
           /\ Len(Cut(z, i)) = Len(z) - 1
           /\ \A j \in 1..(Len(z) - 1) : Cut(z, i)[j] = z[IF j < i THEN j ELSE j + 1]
<1> DEFINE a == SubSeq(z, 1, i - 1)
           b == SubSeq(z, i + 1, Len(z))
<1>1. i \in Nat /\ 1 <= i /\ i <= Len(z) /\ Len(z) \in Nat
  OBVIOUS
<1>2. a \in Seq(S) /\ Len(a) = i - 1 /\ \A j \in 1..(i - 1) : a[j] = z[j]
  BY <1>1
<1>3. b \in Seq(S) /\ Len(b) = Len(z) - i /\ \A j \in 1..(Len(z) - i) : b[j] = z[j + i]
  BY <1>1
<1>4. Cut(z, i) = a \o b
  BY DEF Cut
<1> HIDE DEF a, b
<1>5. a \o b \in Seq(S) /\ Len(a \o b) = Len(z) - 1
  BY <1>1, <1>2, <1>3
<1>6. ASSUME NEW j \in 1..(Len(z) - 1)
      PROVE  (a \o b)[j] = z[IF j < i THEN j ELSE j + 1]
  <2>1. CASE j < i
    <3>1. j \in 1..(i - 1) /\ (a \o b)[j] = a[j]
      BY <1>1, <1>2, <1>3, <2>1
    <3>2. QED
      BY <1>2, <2>1, <3>1
  <2>2. CASE ~ (j < i)
    <3>1. j - (i - 1) \in 1..(Len(z) - i) /\ (a \o b)[j] = b[j - (i - 1)]
      BY <1>1, <1>2, <1>3, <2>2
    <3>2. b[j - (i - 1)] = z[(j - (i - 1)) + i] /\ (j - (i - 1)) + i = j + 1
      BY <1>1, <1>3, <3>1
    <3>3. QED
      BY <2>2, <3>1, <3>2
  <2>3. QED
    BY <2>1, <2>2
<1>7. QED
  BY <1>4, <1>5, <1>6

\* A list without repetitions loses exactly the one device.
LEMMA WithoutShape ==
    ASSUME NEW S, NEW z \in Seq(S), NEW d,
           \A i, j \in DOMAIN z : z[i] = z[j] => i = j
    PROVE  LET y == Without(z, d)
           IN /\ y \in Seq(S)
              /\ \A i, j \in DOMAIN y : y[i] = y[j] => i = j
              /\ \A i \in DOMAIN y : y[i] # d /\ \E j \in DOMAIN z : z[j] = y[i]
              /\ \A j \in DOMAIN z : z[j] # d => \E i \in DOMAIN y : y[i] = z[j]
<1>1. CASE ~ (\E i \in DOMAIN z : z[i] = d)
  <2>1. Without(z, d) = z
    BY <1>1 DEF Without
  <2>2. QED
    BY <1>1, <2>1
<1>2. CASE \E i \in DOMAIN z : z[i] = d
  <2> DEFINE p == Position(z, d)
             y == Cut(z, p)
  <2>1. p \in DOMAIN z /\ z[p] = d
    BY <1>2, PositionType
  <2>2. Without(z, d) = y
    BY <1>2 DEF Without
  <2> HIDE DEF p
  <2>3. /\ y \in Seq(S) /\ Len(y) = Len(z) - 1
        /\ \A j \in 1..(Len(z) - 1) : y[j] = z[IF j < p THEN j ELSE j + 1]
    BY <2>1, CutShape
  <2> HIDE DEF y
  <2>4. DOMAIN z = 1..Len(z) /\ DOMAIN y = 1..(Len(z) - 1) /\ Len(z) \in Nat /\ p \in Nat
    BY <2>1, <2>3
  <2>5. \A i, j \in DOMAIN y : y[i] = y[j] => i = j
    <3>1. SUFFICES ASSUME NEW i \in DOMAIN y, NEW j \in DOMAIN y, y[i] = y[j] PROVE i = j
      OBVIOUS
    <3> DEFINE u == IF i < p THEN i ELSE i + 1
               v == IF j < p THEN j ELSE j + 1
    <3>2. u \in DOMAIN z /\ v \in DOMAIN z /\ z[u] = z[v]
      BY <2>3, <2>4, <3>1
    <3>3. u = v
      BY <3>2
    <3>4. QED
      BY <2>4, <3>3
  <2>6. ASSUME NEW i \in DOMAIN y PROVE y[i] # d /\ \E j \in DOMAIN z : z[j] = y[i]
    <3> DEFINE u == IF i < p THEN i ELSE i + 1
    <3>1. u \in DOMAIN z /\ y[i] = z[u] /\ u # p
      BY <2>3, <2>4
    <3>2. QED
      BY <2>1, <3>1
  <2>7. ASSUME NEW j \in DOMAIN z, z[j] # d PROVE \E i \in DOMAIN y : y[i] = z[j]
    <3>1. j # p
      BY <2>1, <2>7
    <3> DEFINE i == IF j < p THEN j ELSE j - 1
    <3>2. i \in DOMAIN y /\ (IF i < p THEN i ELSE i + 1) = j
      BY <2>1, <2>4, <3>1
    <3>3. y[i] = z[j]
      BY <2>3, <2>4, <3>2
    <3>4. QED
      BY <3>2, <3>3
  <2>8. QED
    BY <2>2, <2>3, <2>5, <2>6, <2>7
<1>3. QED
  BY <1>1, <1>2

\* The graph hands a pass what is registered then.
LEMMA NotifyPass ==
    ASSUME TypeOK', Registry', Notify, leaving' = None
    PROVE  Pass'
<1>1. order' \in Seq(Device) /\ sweep' = Append(order', None)
  BY DEF TypeOK, Notify
<1>2. Len(sweep') = Len(order') + 1 /\ sweep'[Len(order') + 1] = None
  BY <1>1
<1>3. \A i \in 1..Len(order') : sweep'[i] = order'[i]
  BY <1>1
<1>4. Len(sweep') - 1 = Len(order') /\ DOMAIN order' = 1..Len(order')
  BY <1>1, <1>2
<1>5. QED
  BY <1>2, <1>3, <1>4 DEF Pass, Registry

\* The head of a pass that is not the export is a device, and is not the last.
LEMMA PassHead ==
    ASSUME TypeOK, Pass, sweep # <<>>, Head(sweep) # None
    PROVE  /\ Head(sweep) \in nodes
           /\ Tail(sweep) # <<>>
           /\ Tail(sweep)[Len(Tail(sweep))] = None
           /\ \A i \in 1..(Len(Tail(sweep)) - 1) : Tail(sweep)[i] \in nodes
<1>1. sweep \in Seq(Device \cup {None}) /\ Len(sweep) \in Nat /\ Len(sweep) >= 1 /\ Head(sweep) = sweep[1]
  BY DEF TypeOK
<1>2. sweep[Len(sweep)] = None /\ \A i \in 1..(Len(sweep) - 1) : sweep[i] \in nodes
  BY DEF Pass
<1>3. Len(sweep) >= 2
  BY <1>1, <1>2
<1>4. Len(Tail(sweep)) = Len(sweep) - 1 /\ \A i \in 1..(Len(sweep) - 1) : Tail(sweep)[i] = sweep[i + 1]
  BY <1>1
<1>5. Tail(sweep) # <<>>
  BY <1>1, <1>3, <1>4
<1>6. Tail(sweep)[Len(Tail(sweep))] = sweep[Len(sweep)]
  BY <1>1, <1>3, <1>4
<1>7. ASSUME NEW i \in 1..(Len(Tail(sweep)) - 1) PROVE Tail(sweep)[i] \in nodes
  <2>1. i + 1 \in 1..(Len(sweep) - 1) /\ Tail(sweep)[i] = sweep[i + 1]
    BY <1>1, <1>3, <1>4
  <2>2. QED
    BY <1>2, <2>1
<1>8. 1 \in 1..(Len(sweep) - 1)
  BY <1>1, <1>3
<1>9. QED
  BY <1>1, <1>2, <1>5, <1>6, <1>7, <1>8

LEMMA BestParent ==
    ASSUME NEW d, NEW reg, NEW hid, NEW geo, NEW z, NEW p \in BestParents(d, reg, hid, geo, z)
    PROVE  p = None \/ (p \in reg \cap Complex /\ p # d /\ p \in Holders(d, reg, hid, geo, z))
BY DEF BestParents, Holders

\* removeChild and appendChild keep the two ends of every link together.
LEMMA RelinkAgrees ==
    ASSUME TypeOK, LinksAgree, leaving = None, NEW d \in Device, NEW p \in Device \cup {None},
           parent' = [parent EXCEPT ![d] = p], children' = Relinked(d, p)
    PROVE  \A c, k \in Device :
              /\ parent'[k] = c /\ c \in nodes => k \in children'[c]
              /\ k \in children'[c] => parent'[k] = c
<1>1. SUFFICES ASSUME NEW c \in Device, NEW k \in Device
               PROVE  /\ parent'[k] = c /\ c \in nodes => k \in children'[c]
                      /\ k \in children'[c] => parent'[k] = c
  OBVIOUS
<1>2. /\ parent[k] = c /\ c \in nodes => k \in children[c]
      /\ k \in children[c] => parent[k] = c
  BY DeviceAssumption DEF LinksAgree
<1>3. parent'[k] = IF k = d THEN p ELSE parent[k]
  BY DEF TypeOK
<1>4. children'[c] = IF c = p /\ c \in nodes THEN children[c] \cup {d}
                     ELSE IF c = parent[d] THEN children[c] \ {d} ELSE children[c]
  BY DEF Relinked
<1>5. QED
  BY <1>2, <1>3, <1>4

\* What does not touch the tree leaves it in order.
LEMMA SameGraph ==
    ASSUME GraphInv, UNCHANGED <<stage, tree, leaving, heirs>>
    PROVE  Registry' /\ Heirs' /\ Parents' /\ LinksAgree'
<1>1. UNCHANGED <<fresh, nodes, order, parent, children, leaving, heirs>>
  BY DEF stage, tree
<1>2. Registry'
  BY <1>1 DEF GraphInv, Registry
<1>3. Heirs'
  BY <1>1 DEF GraphInv, Heirs
<1>4. Parents'
  BY <1>1 DEF GraphInv, Parents
<1>5. LinksAgree'
  BY <1>1 DEF GraphInv, LinksAgree
<1>6. QED
  BY <1>2, <1>3, <1>4, <1>5

\* Between handlers nothing is being unregistered.
LEMMA QuietStill ==
    ASSUME TypeOK, Quiet PROVE sweep = <<>> /\ doomed = <<>> /\ leaving = None
BY DEF TypeOK, Quiet

LEMMA NoGestureKind == NoGesture.kind = "none"
BY DEF NoGesture

\* A device that moves to a container the graph knows.
LEMMA RelinkGraph ==
    ASSUME TypeOK, GraphInv, leaving = None, NEW d \in nodes,
           NEW p \in (nodes \cap Complex) \cup {None, parent[d]},
           parent' = [parent EXCEPT ![d] = p], children' = Relinked(d, p),
           UNCHANGED <<stage, leaving, heirs>>
    PROVE  Registry' /\ Heirs' /\ Parents' /\ LinksAgree'
<1>1. UNCHANGED <<fresh, nodes, order, leaving, heirs>>
  BY DEF stage
<1>2. d \in Device /\ p \in Device \cup {None} /\ nodes \subseteq Device
  BY DEF TypeOK
<1>3. \A k \in Device : parent'[k] = IF k = d THEN p ELSE parent[k]
  BY DEF TypeOK
<1>4. Registry'
  BY <1>1 DEF GraphInv, Registry
<1>5. Heirs'
  BY <1>1 DEF GraphInv, Heirs
<1>6. Parents'
  <2>1. \A k \in nodes : k \notin fresh
    BY DEF GraphInv, Registry
  <2>2. QED
    BY <1>1, <1>2, <1>3, <2>1 DEF GraphInv, Parents
<1>7. LinksAgree'
  <2>1. \A c, k \in Device :
              /\ parent'[k] = c /\ c \in nodes => k \in children'[c]
              /\ k \in children'[c] => parent'[k] = c
    BY <1>2, RelinkAgrees DEF GraphInv
  <2>2. QED
    BY <1>1, <2>1 DEF LinksAgree
<1>8. QED
  BY <1>4, <1>5, <1>6, <1>7

LEMMA PlaceGraph ==
    ASSUME TypeOK, TypeOK', GraphInv, NEW d \in Device, NEW x, Place(d, x)
    PROVE  GraphInv'
<1>1. /\ sweep = <<>> /\ doomed = <<>> /\ leaving = None
      /\ d \in fresh /\ fresh' = fresh \ {d} /\ nodes' = nodes \cup {d} /\ order' = Append(order, d)
      /\ UNCHANGED <<gesture, doomed, leaving, heirs>> /\ gesture = NoGesture /\ Notify
  BY QuietStill DEF Place, Idle, fall
<1>2. PICK p \in BestParents(d, nodes', hidden, [outer EXCEPT ![d] = At(d, Corner)], zorder') :
         parent' = [parent EXCEPT ![d] = p] /\ children' = Relinked(d, p)
  BY DEF Place
<1>3. p = None \/ (p \in nodes \cap Complex /\ p # d)
  BY <1>1, <1>2, BestParent
<1>4. nodes \subseteq Device /\ order \in Seq(Device) /\ d \notin nodes
      /\ \A k \in Device : parent'[k] = IF k = d THEN p ELSE parent[k]
  BY <1>1, <1>2 DEF TypeOK, GraphInv, Registry
<1>5. Registry'
  <2>1. /\ DOMAIN order = 1..Len(order) /\ Len(order) \in Nat
        /\ DOMAIN order' = 1..(Len(order) + 1) /\ order'[Len(order) + 1] = d
        /\ \A i \in 1..Len(order) : order'[i] = order[i]
    BY <1>1, <1>4
  <2>2. \A i, j \in DOMAIN order : order[i] = order[j] => i = j
    BY DEF GraphInv, Registry
  <2>3. \A i \in DOMAIN order : order[i] \in nodes /\ order[i] # d
    BY <1>4 DEF GraphInv, Registry
  <2>4. \A e \in nodes : \E i \in DOMAIN order : order[i] = e
    BY DEF GraphInv, Registry
  <2>5. fresh' \cap nodes' = {}
    BY <1>1 DEF GraphInv, Registry
  <2>6. \A i, j \in DOMAIN order' : order'[i] = order'[j] => i = j
    <3>1. SUFFICES ASSUME NEW i \in DOMAIN order', NEW j \in DOMAIN order', order'[i] = order'[j]
                   PROVE i = j
      OBVIOUS
    <3>2. (i \in 1..Len(order) \/ i = Len(order) + 1) /\ (j \in 1..Len(order) \/ j = Len(order) + 1)
      BY <2>1
    <3>3. QED
      BY <2>1, <2>2, <2>3, <3>1, <3>2
  <2>7. \A i \in DOMAIN order' : order'[i] \in nodes'
    <3>1. SUFFICES ASSUME NEW i \in DOMAIN order' PROVE order'[i] \in nodes'
      OBVIOUS
    <3>2. i \in 1..Len(order) \/ i = Len(order) + 1
      BY <2>1
    <3>3. QED
      BY <1>1, <2>1, <2>3, <3>2
  <2>8. \A e \in nodes' : \E i \in DOMAIN order' : order'[i] = e
    <3>1. ASSUME NEW e \in nodes PROVE \E i \in DOMAIN order' : order'[i] = e
      <4>1. PICK i \in DOMAIN order : order[i] = e
        BY <2>4
      <4>2. i \in 1..(Len(order) + 1) /\ order'[i] = e
        BY <2>1, <4>1
      <4>3. QED
        BY <2>1, <4>2
    <3>2. Len(order) + 1 \in DOMAIN order' /\ order'[Len(order) + 1] = d
      BY <2>1
    <3>3. QED
      BY <1>1, <3>1, <3>2
  <2>9. QED
    BY <2>5, <2>6, <2>7, <2>8 DEF Registry
<1>6. Pass'
  BY <1>1, <1>5, NotifyPass
<1>7. Heirs'
  BY <1>1 DEF GraphInv, Heirs
<1>8. Parents'
  BY <1>1, <1>3, <1>4 DEF GraphInv, Parents, Registry
<1>9. Grip'
  BY <1>1, NoGestureKind DEF Grip
<1>10. LinksAgree'
  <2>1. \A c, k \in Device :
              /\ parent'[k] = c /\ c \in nodes => k \in children'[c]
              /\ k \in children'[c] => parent'[k] = c
    BY <1>1, <1>2, <1>3, <1>4, RelinkAgrees DEF GraphInv
  <2>2. \A k \in Device : parent'[k] # d
    BY <1>1, <1>3, <1>4, DeviceAssumption DEF GraphInv, Parents
  <2>3. nodes' = nodes \cup {d} /\ leaving' = None
    BY <1>1
  <2>4. QED
    BY <2>1, <2>2, <2>3 DEF LinksAgree
<1>11. QED
  BY <1>5, <1>6, <1>7, <1>8, <1>9, <1>10 DEF GraphInv

LEMMA BequeathGraph ==
    ASSUME TypeOK, TypeOK', GraphInv, NEW k \in Device, Bequeath(k)
    PROVE  GraphInv'
<1> DEFINE p == parent[leaving]
<1>1. /\ leaving \in Device /\ leaving # None /\ k \in heirs /\ heirs' = heirs \ {k}
      /\ parent' = [parent EXCEPT ![k] = p]
      /\ children' = [c \in Device |-> IF c = p /\ c \in nodes THEN children[c] \cup {k} ELSE children[c]]
      /\ UNCHANGED <<fresh, nodes, order, gesture, sweep, doomed, leaving>>
  BY DEF Bequeath, stage, TypeOK
<1>2. doomed # <<>> /\ sweep = <<>> /\ gesture.kind = "none"
  BY <1>1 DEF TypeOK, GraphInv, Pass, Grip
<1>3. heirs \subseteq children[leaving] /\ \A j \in children[leaving] \ heirs : parent[j] = p
  BY <1>1 DEF GraphInv, Heirs
<1>4. parent[k] = leaving
  BY <1>1, <1>3 DEF GraphInv, LinksAgree
<1>5. \A j \in Device : parent'[j] = IF j = k THEN p ELSE parent[j]
  BY <1>1 DEF TypeOK
<1>6. parent'[leaving] = p
  BY <1>1, <1>4, <1>5
<1>7. \A c \in Device : children'[c] = IF c = p /\ c \in nodes THEN children[c] \cup {k} ELSE children[c]
  BY <1>1
<1>8. Registry'
  BY <1>1 DEF GraphInv, Registry
<1>9. Pass'
  BY <1>1, <1>2 DEF Pass
<1>10. Heirs'
  <2>1. heirs' \subseteq children'[leaving]
    BY <1>1, <1>3, <1>7
  <2>2. \A j \in children'[leaving] \ heirs' : parent'[j] = p
    <3>1. SUFFICES ASSUME NEW j \in children'[leaving] \ heirs' PROVE parent'[j] = p
      OBVIOUS
    <3>2. j \in Device
      BY <1>1 DEF TypeOK
    <3>3. CASE j = k
      BY <1>5, <3>2, <3>3
    <3>4. CASE j # k
      BY <1>1, <1>3, <1>5, <1>7, <3>1, <3>2, <3>4
    <3>5. QED
      BY <3>3, <3>4
  <2>3. QED
    BY <1>1, <1>6, <2>1, <2>2 DEF Heirs
<1>11. Parents'
  <2>1. SUFFICES ASSUME NEW j \in Device, parent'[j] # None
                 PROVE  j \in nodes /\ parent'[j] \in Complex /\ parent'[j] \notin fresh
    BY <1>1 DEF Parents
  <2>2. CASE j = k
    BY <1>1, <1>4, <1>5, <2>1, <2>2 DEF GraphInv, Parents
  <2>3. CASE j # k
    BY <1>5, <2>1, <2>3 DEF GraphInv, Parents
  <2>4. QED
    BY <2>2, <2>3
<1>12. Grip'
  BY <1>1, <1>2 DEF Grip
<1>13. LinksAgree'
  <2>1. SUFFICES ASSUME NEW c \in Device, NEW j \in Device
                 PROVE  /\ parent'[j] = c /\ c \in nodes => j \in children'[c]
                        /\ j \in children'[c] => parent'[j] = c \/ (c = leaving /\ j \notin heirs')
    BY <1>1 DEF LinksAgree
  <2>2. /\ parent[j] = c /\ c \in nodes => j \in children[c]
        /\ j \in children[c] => parent[j] = c \/ (c = leaving /\ j \notin heirs)
    BY DEF GraphInv, LinksAgree
  <2>3. CASE j = k
    BY <1>1, <1>4, <1>5, <1>7, <2>2, <2>3
  <2>4. CASE j # k
    BY <1>1, <1>5, <1>7, <2>2, <2>4
  <2>5. QED
    BY <2>3, <2>4
<1>14. QED
  BY <1>8, <1>9, <1>10, <1>11, <1>12, <1>13 DEF GraphInv

LEMMA UnregisterGraph ==
    ASSUME TypeOK, TypeOK', GraphInv, Unregister
    PROVE  GraphInv'
<1> DEFINE L == leaving
<1>1. /\ L \in Device /\ L # None /\ heirs = {}
      /\ nodes' = nodes \ {L} /\ order' = Without(order, L)
      /\ parent' = [parent EXCEPT ![L] = None]
      /\ children' = [Relinked(L, None) EXCEPT ![L] = {}]
      /\ leaving' = None /\ UNCHANGED <<fresh, gesture, heirs>> /\ Notify
  BY DEF Unregister, TypeOK
<1>2. doomed # <<>> /\ gesture.kind = "none"
  BY <1>1 DEF TypeOK, GraphInv, Grip
<1>3. \A k \in Device : parent'[k] = IF k = L THEN None ELSE parent[k]
  BY <1>1 DEF TypeOK
<1>4. \A c \in Device : children'[c] = IF c = L THEN {}
                                       ELSE IF c = parent[L] THEN children[c] \ {L} ELSE children[c]
  BY <1>1, DeviceAssumption DEF Relinked
<1>5. Registry'
  <2>1. order \in Seq(Device)
        /\ (\A i, j \in DOMAIN order : order[i] = order[j] => i = j)
        /\ (\A i \in DOMAIN order : order[i] \in nodes)
        /\ (\A d \in nodes : \E i \in DOMAIN order : order[i] = d)
        /\ fresh \cap nodes = {}
    BY DEF TypeOK, GraphInv, Registry
  <2>2. /\ \A i, j \in DOMAIN order' : order'[i] = order'[j] => i = j
        /\ \A i \in DOMAIN order' : order'[i] # L /\ \E j \in DOMAIN order : order[j] = order'[i]
        /\ \A j \in DOMAIN order : order[j] # L => \E i \in DOMAIN order' : order'[i] = order[j]
    BY <1>1, <2>1, WithoutShape
  <2>3. \A i \in DOMAIN order' : order'[i] \in nodes'
    BY <1>1, <2>1, <2>2
  <2>4. \A d \in nodes' : \E i \in DOMAIN order' : order'[i] = d
    BY <1>1, <2>1, <2>2
  <2>5. QED
    BY <1>1, <2>1, <2>2, <2>3, <2>4 DEF Registry
<1>6. Pass'
  BY <1>1, <1>5, NotifyPass
<1>7. Heirs'
  BY <1>1 DEF Heirs
<1>8. Parents'
  BY <1>1, <1>3 DEF GraphInv, Parents
<1>9. Grip'
  BY <1>1, <1>2 DEF Grip
<1>10. LinksAgree'
  <2>1. SUFFICES ASSUME NEW c \in Device, NEW k \in Device
                 PROVE  /\ parent'[k] = c /\ c \in nodes' => k \in children'[c]
                        /\ k \in children'[c] => parent'[k] = c
    BY DEF LinksAgree
  <2>2. /\ parent[k] = c /\ c \in nodes => k \in children[c]
        /\ k \in children[c] /\ c # L => parent[k] = c
    BY DEF GraphInv, LinksAgree
  <2>3. c # None /\ (c \in nodes' => c \in nodes /\ c # L) /\ parent'[k] = IF k = L THEN None ELSE parent[k]
    BY <1>1, <1>3, DeviceAssumption
  <2>4. CASE c = L
    <3>1. children'[c] = {} /\ c \notin nodes'
      BY <1>1, <1>4, <2>4
    <3>2. QED
      BY <3>1
  <2>5. CASE c # L /\ c = parent[L]
    <3>1. children'[c] = children[c] \ {L}
      BY <1>4, <2>5
    <3>2. QED
      BY <2>2, <2>3, <2>5, <3>1
  <2>6. CASE c # L /\ c # parent[L]
    <3>1. children'[c] = children[c]
      BY <1>4, <2>6
    <3>2. QED
      BY <2>2, <2>3, <2>6, <3>1
  <2>7. QED
    BY <2>4, <2>5, <2>6
<1>11. QED
  BY <1>5, <1>6, <1>7, <1>8, <1>9, <1>10 DEF GraphInv

LEMMA GraphStep == TypeOK /\ TypeOK' /\ GraphInv /\ [Next]_vars => GraphInv'
<1>1. SUFFICES ASSUME TypeOK, TypeOK', GraphInv, [Next]_vars PROVE GraphInv'
  OBVIOUS
<1> USE DEF GraphInv
<1>2. ASSUME UNCHANGED <<nodes, gesture, doomed>> PROVE Grip'
  BY <1>1, <1>2 DEF Grip
<1>3. ASSUME gesture' = NoGesture PROVE Grip'
  BY <1>3, NoGestureKind DEF Grip
<1>4. ASSUME UNCHANGED <<nodes, leaving, sweep>> PROVE Pass'
  BY <1>1, <1>4 DEF Pass
<1>5. ASSUME UNCHANGED <<stage, tree, leaving, heirs>> PROVE Registry' /\ Heirs' /\ Parents' /\ LinksAgree'
  BY <1>1, <1>5, SameGraph
<1>6. ASSUME Quiet, UNCHANGED <<stage, tree, gesture, fall>>, Notify PROVE GraphInv'
  <2>1. UNCHANGED <<nodes, doomed, leaving, heirs>> /\ leaving' = None
    BY <1>1, <1>6, QuietStill DEF stage, fall
  <2>2. Registry' /\ Heirs' /\ Parents' /\ LinksAgree'
    BY <1>5, <1>6, <2>1
  <2>3. Pass'
    BY <1>1, <1>6, <2>1, <2>2, NotifyPass
  <2>4. QED
    BY <1>2, <1>6, <2>1, <2>2, <2>3
<1>7. ASSUME sweep # <<>>, sweep' = Tail(sweep), Head(sweep) # None, UNCHANGED <<nodes, leaving>> PROVE Pass'
  BY <1>1, <1>7, PassHead DEF Pass
<1>8. CASE KeepParent
  <2>1. /\ UNCHANGED <<stage, tree, nodes, leaving, heirs, gesture, doomed>>
        /\ sweep # <<>> /\ sweep' = Tail(sweep) /\ Head(sweep) # None
    BY <1>8 DEF KeepParent, stage, fall
  <2>2. QED
    BY <1>2, <1>5, <1>7, <2>1
<1>9. CASE Reparent
  <2> DEFINE d == Head(sweep)
  <2>1. /\ UNCHANGED <<stage, nodes, leaving, heirs, gesture, doomed>>
        /\ sweep # <<>> /\ sweep' = Tail(sweep) /\ d # None
    BY <1>9 DEF Reparent, stage, fall
  <2>2. PICK p \in BestParents(d, nodes, hidden, outer, zorder) \ {parent[d]} :
           parent' = [parent EXCEPT ![d] = p] /\ children' = Relinked(d, p)
    BY <1>9 DEF Reparent
  <2>3. leaving = None /\ d \in nodes /\ p \in (nodes \cap Complex) \cup {None, parent[d]}
    BY <1>1, <2>1, <2>2, PassHead, BestParent DEF Pass
  <2>4. Registry' /\ Heirs' /\ Parents' /\ LinksAgree'
    BY <1>1, <2>1, <2>2, <2>3, RelinkGraph
  <2>5. QED
    BY <1>2, <1>7, <2>1, <2>4
<1>10. CASE Export
  <2>1. UNCHANGED <<stage, tree, nodes, leaving, heirs, gesture, doomed>> /\ sweep' = <<>>
    BY <1>10 DEF Export, stage, fall
  <2>2. Pass'
    BY <2>1 DEF Pass
  <2>3. QED
    BY <1>2, <1>5, <2>1, <2>2
<1>11. CASE Refresh
  BY <1>6, <1>11 DEF Refresh, view
<1>12. ASSUME NEW d \in Device, NEW x \in Places[d], Place(d, x) PROVE GraphInv'
  BY <1>1, <1>12, PlaceGraph
<1>13. ASSUME UNCHANGED <<stage, tree, sweep, doomed, leaving, heirs>>,
              gesture' = gesture \/ (gesture'.dev \in nodes /\ Quiet) PROVE GraphInv'
  <2>1. UNCHANGED nodes
    BY <1>13 DEF stage
  <2>2. Grip'
    BY <1>1, <1>2, <1>13, <2>1, QuietStill DEF Grip
  <2>3. QED
    BY <1>4, <1>5, <1>13, <2>1, <2>2
<1>14. ASSUME NEW d \in Device, DragStart(d) PROVE GraphInv'
  <2>1. gesture'.dev = d /\ Quiet /\ d \in nodes
    BY <1>14 DEF DragStart, Idle, Touchable, NoGesture
  <2>2. UNCHANGED <<stage, tree, sweep, doomed, leaving, heirs>>
    BY <1>14 DEF DragStart, fall
  <2>3. QED
    BY <1>13, <2>1, <2>2
<1>15. ASSUME NEW d \in Device, NEW x \in Places[d], DragMove(d, x) PROVE GraphInv'
  <2>1. Quiet /\ UNCHANGED <<stage, tree, gesture, fall, doomed, leaving, heirs>>
    BY <1>15 DEF DragMove, fall
  <2>2. Notify \/ UNCHANGED sweep
    BY <1>15 DEF DragMove
  <2>3. QED
    BY <1>6, <1>13, <2>1, <2>2
<1>16. CASE DragEnd
  <2> DEFINE d == gesture.dev
  <2>1. /\ Quiet /\ gesture.kind = "drag" /\ gesture' = NoGesture /\ Notify
        /\ UNCHANGED <<stage, nodes, doomed, leaving, heirs>>
    BY <1>16 DEF DragEnd, stage, fall
  <2>2. leaving = None /\ d \in nodes
    BY <1>1, <2>1, QuietStill DEF Grip
  <2>3. \E geo : \E p \in BestParents(d, nodes, hidden, geo, zorder) \cup {parent[d]} :
           parent' = [parent EXCEPT ![d] = p] /\ children' = Relinked(d, p)
    BY <1>16 DEF DragEnd
  <2>4. PICK p \in (nodes \cap Complex) \cup {None, parent[d]} :
           parent' = [parent EXCEPT ![d] = p] /\ children' = Relinked(d, p)
    BY <2>3, BestParent
  <2>5. Registry' /\ Heirs' /\ Parents' /\ LinksAgree'
    BY <1>1, <2>1, <2>2, <2>4, RelinkGraph
  <2>6. Pass'
    BY <1>1, <2>1, <2>2, <2>5, NotifyPass
  <2>7. QED
    BY <1>3, <2>1, <2>5, <2>6
<1>17. ASSUME NEW d \in Device, ResizeStart(d) PROVE GraphInv'
  <2>1. gesture'.dev = d /\ Quiet /\ d \in nodes
    BY <1>17 DEF ResizeStart, Idle, Touchable, NoGesture
  <2>2. UNCHANGED <<stage, tree, sweep, doomed, leaving, heirs>>
    BY <1>17 DEF ResizeStart, fall
  <2>3. QED
    BY <1>13, <2>1, <2>2
<1>18. ASSUME NEW d \in Complex, NEW r \in Shapes[d], ResizeMove(d, r) PROVE GraphInv'
  <2>1. UNCHANGED <<stage, tree, sweep, doomed, leaving, heirs, gesture>>
    BY <1>18 DEF ResizeMove, fall
  <2>2. QED
    BY <1>13, <2>1
<1>19. CASE ResizeEnd
  <2>1. /\ Quiet /\ gesture' = NoGesture /\ Notify
        /\ UNCHANGED <<stage, tree, leaving, heirs>>
    BY <1>19 DEF ResizeEnd, SceneNotify, fall
  <2>2. leaving' = None /\ Registry' /\ Heirs' /\ Parents' /\ LinksAgree'
    BY <1>1, <1>5, <2>1, QuietStill
  <2>3. Pass'
    BY <1>1, <2>1, <2>2, NotifyPass
  <2>4. QED
    BY <1>3, <2>1, <2>2, <2>3
<1>20. ASSUME NEW d \in Complex, NEW step \in {-1, 1}, Restack(d, step) PROVE GraphInv'
  BY <1>6, <1>20 DEF Restack, SceneNotify, Idle
<1>21. ASSUME NEW h \in Host, NEW p \in Phase, SelectPhase(h, p) PROVE GraphInv'
  <2>1. UNCHANGED <<stage, tree, sweep, doomed, leaving, heirs, gesture>>
    BY <1>21 DEF SelectPhase, fall
  <2>2. QED
    BY <1>13, <2>1
<1>22. ASSUME NEW h \in Host, NEW p \in Phase, NEW i \in 0..Len(phases[h]), InsertPhase(h, i, p)
       PROVE  GraphInv'
  BY <1>6, <1>22 DEF InsertPhase, SceneNotify, Idle
<1>23. ASSUME NEW h \in Host, RemovePhase(h) PROVE GraphInv'
  BY <1>6, <1>23 DEF RemovePhase, Idle
<1>24. ASSUME UNCHANGED <<stage, tree, gesture, sweep>>, sweep = <<>>, gesture.kind = "none",
              Heirs', LinksAgree'
       PROVE  GraphInv'
  <2>1. UNCHANGED <<nodes, fresh, order, parent, children>>
    BY <1>24 DEF stage, tree
  <2>2. Registry' /\ Parents' /\ Grip' /\ Pass'
    BY <1>1, <1>24, <2>1 DEF Registry, Parents, Grip, Pass
  <2>3. QED
    BY <1>24, <2>2
<1>25. ASSUME NEW d \in Device, Delete(d) PROVE GraphInv'
  <2>1. UNCHANGED <<stage, tree, gesture, sweep, leaving, heirs>> /\ Idle
    BY <1>25 DEF Delete
  <2>2. sweep = <<>> /\ gesture.kind = "none"
    BY <2>1, NoGestureKind DEF Idle, Quiet
  <2>3. QED
    BY <1>5, <1>24, <2>1, <2>2
<1>26. CASE FellKid
  <2>1. UNCHANGED <<stage, tree, gesture, sweep, leaving, heirs>> /\ sweep = <<>> /\ doomed # <<>>
    BY <1>26 DEF FellKid
  <2>2. gesture.kind = "none"
    BY <1>1, <2>1 DEF Grip
  <2>3. QED
    BY <1>5, <1>24, <2>1, <2>2
<1>27. CASE BeginUnregister
  <2>1. /\ UNCHANGED <<stage, tree, gesture, sweep>> /\ sweep = <<>> /\ doomed # <<>>
        /\ leaving = None /\ leaving' = Head(doomed).dev /\ heirs' = children[leaving']
    BY <1>27 DEF BeginUnregister
  <2>2. gesture.kind = "none"
    BY <1>1, <2>1 DEF Grip
  <2>3. GraphInv'
    <3>1. UNCHANGED <<fresh, nodes, order, parent, children>>
      BY <2>1 DEF stage, tree
    <3>2. leaving' \in Device
      <4> DEFINE DT == [dev : Device, kids : SUBSET Device]
      <4>1. doomed \in Seq(DT) /\ doomed # <<>> /\ leaving' = Head(doomed).dev
        BY <1>1, <2>1 DEF TypeOK
      <4>2. Head(doomed) \in DT
        <5> HIDE DEF DT
        <5>1. QED
          BY <4>1
      <4>3. QED
        BY <4>1, <4>2
    <3>3. Registry' /\ Parents' /\ Grip' /\ Pass'
      BY <1>1, <2>1, <2>2, <3>1 DEF Registry, Parents, Grip, Pass
    <3>4. Heirs'
      BY <2>1, <3>1, <3>2, DeviceAssumption DEF Heirs
    <3>5. LinksAgree'
      BY <1>1, <2>1, <3>1, DeviceAssumption DEF LinksAgree
    <3>6. QED
      BY <3>3, <3>4, <3>5
  <2>4. QED
    BY <2>3
<1>28. ASSUME NEW k \in Device, Bequeath(k) PROVE GraphInv'
  BY <1>1, <1>28, BequeathGraph
<1>29. CASE Unregister
  BY <1>1, <1>29, UnregisterGraph
<1>30. CASE UNCHANGED vars
  <2>1. UNCHANGED <<stage, tree, sweep, doomed, leaving, heirs, gesture>>
    BY <1>30 DEF vars, fall
  <2>2. QED
    BY <1>13, <2>1
<1>31. QED
  BY <1>1, <1>8, <1>9, <1>10, <1>11, <1>12, <1>14, <1>15, <1>16, <1>17, <1>18, <1>19, <1>20,
     <1>21, <1>22, <1>23, <1>25, <1>26, <1>27, <1>28, <1>29, <1>30
     DEF Next, Sweep, Cascade, Drag, Resize, Menu

LEMMA GraphInit == Init => GraphInv
BY DeviceAssumption, NoGestureKind
   DEF Init, GraphInv, Registry, Pass, Heirs, Parents, Grip, LinksAgree

LEMMA GraphCorrect == Spec => []GraphInv
BY GraphInit, GraphStep, TypeCorrect, PTL DEF Spec

\* Both ends of every link agree, through every move, delete and hand-over,
\* though the two ends are written by different calls.
THEOREM LinksAgreeCorrect == Spec => []LinksAgree
<1>1. GraphInv => LinksAgree
  BY DEF GraphInv
<1>2. QED
  BY <1>1, GraphCorrect, PTL

\* Whoever has a parent has one that is registered, and what a container that
\* is being unregistered still has to hand on is all that has it as parent.
Live ==
    /\ \A k \in Device : parent[k] # None => parent[k] \in nodes
    /\ leaving # None => \A k \in Device : parent[k] = leaving => k \in heirs

\* A container that is unregistered is not its own parent.
NotOwnParent == leaving # None => parent[leaving] # leaving

\* A device moves to a container the graph knows, or a new one gets such.
LEMMA MoveLive ==
    ASSUME TypeOK, Live, leaving' = None, NEW d \in Device, nodes \subseteq nodes',
           NEW p \in nodes' \cup {None, parent[d]}, parent' = [parent EXCEPT ![d] = p]
    PROVE  Live'
<1>1. \A k \in Device : parent'[k] = IF k = d THEN p ELSE parent[k]
  BY DEF TypeOK
<1>2. QED
  BY <1>1 DEF Live

LEMMA LiveStep ==
    TypeOK /\ TypeOK' /\ GraphInv /\ NotOwnParent /\ Live /\ [Next]_vars => Live'
<1>1. SUFFICES ASSUME TypeOK, TypeOK', GraphInv, NotOwnParent, Live, [Next]_vars PROVE Live'
  OBVIOUS
<1>2. ASSUME UNCHANGED <<nodes, parent>>, leaving' = leaving, heirs' = heirs PROVE Live'
  BY <1>1, <1>2 DEF Live
<1>3. ASSUME UNCHANGED <<stage, tree, fall>> PROVE Live'
  BY <1>2, <1>3 DEF stage, tree, fall
<1>4. CASE KeepParent
  BY <1>3, <1>4 DEF KeepParent
<1>5. CASE Reparent
  <2> DEFINE d == Head(sweep)
  <2>1. sweep # <<>> /\ d # None /\ leaving' = leaving /\ nodes' = nodes
    BY <1>5 DEF Reparent, stage, fall
  <2>2. PICK p \in BestParents(d, nodes, hidden, outer, zorder) \ {parent[d]} :
           parent' = [parent EXCEPT ![d] = p]
    BY <1>5 DEF Reparent
  <2>3. leaving' = None /\ d \in Device /\ p \in nodes' \cup {None, parent[d]}
    BY <1>1, <2>1, <2>2, PassHead, BestParent DEF GraphInv, Pass, TypeOK
  <2>4. QED
    BY <1>1, <2>1, <2>2, <2>3, MoveLive
<1>6. CASE Export
  BY <1>3, <1>6 DEF Export
<1>7. CASE Refresh
  BY <1>3, <1>7 DEF Refresh
<1>8. ASSUME NEW d \in Device, NEW x \in Places[d], Place(d, x) PROVE Live'
  <2>1. Quiet /\ leaving' = leaving /\ nodes' = nodes \cup {d}
    BY <1>8 DEF Place, Idle, fall
  <2>2. \E geo : \E p \in BestParents(d, nodes', hidden, geo, zorder') : parent' = [parent EXCEPT ![d] = p]
    BY <1>8 DEF Place
  <2>3. PICK p \in nodes' \cup {None, parent[d]} : parent' = [parent EXCEPT ![d] = p]
    BY <2>2, BestParent
  <2>4. leaving' = None
    BY <1>1, <2>1, QuietStill
  <2>5. QED
    BY <1>1, <2>1, <2>3, <2>4, MoveLive
<1>9. ASSUME NEW d \in Device, DragStart(d) PROVE Live'
  BY <1>3, <1>9 DEF DragStart
<1>10. ASSUME NEW d \in Device, NEW x \in Places[d], DragMove(d, x) PROVE Live'
  BY <1>3, <1>10 DEF DragMove
<1>11. CASE DragEnd
  <2> DEFINE d == gesture.dev
  <2>1. Quiet /\ gesture.kind = "drag" /\ leaving' = leaving /\ nodes' = nodes
    BY <1>11 DEF DragEnd, stage, fall
  <2>2. \E geo : \E p \in BestParents(d, nodes, hidden, geo, zorder) \cup {parent[d]} :
           parent' = [parent EXCEPT ![d] = p]
    BY <1>11 DEF DragEnd
  <2>3. PICK p \in nodes' \cup {None, parent[d]} : parent' = [parent EXCEPT ![d] = p]
    BY <2>1, <2>2, BestParent
  <2>4. leaving' = None /\ d \in Device
    BY <1>1, <2>1, QuietStill DEF GraphInv, Grip, TypeOK
  <2>5. QED
    BY <1>1, <2>1, <2>3, <2>4, MoveLive
<1>12. ASSUME NEW d \in Device, ResizeStart(d) PROVE Live'
  BY <1>3, <1>12 DEF ResizeStart
<1>13. ASSUME NEW d \in Complex, NEW r \in Shapes[d], ResizeMove(d, r) PROVE Live'
  BY <1>3, <1>13 DEF ResizeMove
<1>14. CASE ResizeEnd
  BY <1>3, <1>14 DEF ResizeEnd
<1>15. ASSUME NEW d \in Complex, NEW step \in {-1, 1}, Restack(d, step) PROVE Live'
  BY <1>3, <1>15 DEF Restack
<1>16. ASSUME NEW h \in Host, NEW p \in Phase, SelectPhase(h, p) PROVE Live'
  BY <1>3, <1>16 DEF SelectPhase
<1>17. ASSUME NEW h \in Host, NEW p \in Phase, NEW i \in 0..Len(phases[h]), InsertPhase(h, i, p)
       PROVE  Live'
  BY <1>3, <1>17 DEF InsertPhase
<1>18. ASSUME NEW h \in Host, RemovePhase(h) PROVE Live'
  BY <1>3, <1>18 DEF RemovePhase
<1>19. ASSUME NEW d \in Device, Delete(d) PROVE Live'
  BY <1>2, <1>19 DEF Delete, stage, tree
<1>20. CASE FellKid
  BY <1>2, <1>20 DEF FellKid, stage, tree
<1>21. CASE BeginUnregister
  <2>1. UNCHANGED <<nodes, parent>> /\ leaving = None /\ heirs' = children[leaving']
    BY <1>21 DEF BeginUnregister, stage, tree
  <2>2. \A k \in Device : parent[k] = leaving' /\ leaving' # None => k \in children[leaving']
    BY <1>1, DeviceAssumption DEF TypeOK, Live, GraphInv, LinksAgree
  <2>3. QED
    BY <1>1, <2>1, <2>2 DEF Live
<1>22. ASSUME NEW k \in Device, Bequeath(k) PROVE Live'
  <2>1. /\ leaving # None /\ leaving \in Device /\ leaving' = leaving /\ nodes' = nodes
        /\ heirs' = heirs \ {k} /\ parent' = [parent EXCEPT ![k] = parent[leaving]]
    BY <1>1, <1>22 DEF Bequeath, stage, TypeOK
  <2>2. \A j \in Device : parent'[j] = IF j = k THEN parent[leaving] ELSE parent[j]
    BY <1>1, <2>1 DEF TypeOK
  <2>3. QED
    BY <1>1, <2>1, <2>2 DEF Live, NotOwnParent
<1>23. CASE Unregister
  <2>1. /\ leaving # None /\ heirs = {} /\ leaving' = None /\ nodes' = nodes \ {leaving}
        /\ parent' = [parent EXCEPT ![leaving] = None]
    BY <1>23 DEF Unregister
  <2>2. \A j \in Device : parent'[j] = IF j = leaving THEN None ELSE parent[j]
    BY <1>1, <2>1 DEF TypeOK
  <2>3. QED
    BY <1>1, <2>1, <2>2 DEF Live
<1>24. CASE UNCHANGED vars
  BY <1>3, <1>24 DEF vars
<1>25. QED
  BY <1>1, <1>4, <1>5, <1>6, <1>7, <1>8, <1>9, <1>10, <1>11, <1>12, <1>13, <1>14, <1>15, <1>16,
     <1>17, <1>18, <1>19, <1>20, <1>21, <1>22, <1>23, <1>24
     DEF Next, Sweep, Cascade, Drag, Resize, Menu

\* Nothing is left pointing at a deleted device, however much a container gained
\* while it was deleted, unless it had become its own parent: what it then hands
\* on stays with it.
THEOREM LinksLiveCorrect == Spec /\ []NotOwnParent => []LinksLive
<1>1. Init => Live
  BY DeviceAssumption DEF Init, Live
<1>2. TypeOK /\ GraphInv /\ Live => LinksLive
  BY DEF TypeOK, GraphInv, Parents, Live, LinksLive
<1>3. QED
  BY <1>1, <1>2, LiveStep, GraphCorrect, TypeCorrect, PTL DEF Spec
----------------------------------------------------------------------------
(* What the phases show.                                                   *)

\* A renewal enlists what the host contains, moves nothing from one phase to
\* another, and keeps only what the host contains or no other container does.
LEMMA MaintainedKeeps ==
    ASSUME NEW h, NEW ms, NEW sel \in Phase, NEW reg, NEW par, NEW kids, NEW geo
    PROVE  LET mt == Maintained(h, ms, sel, reg, par, kids, geo)
           IN /\ kids[h] \subseteq Known(mt)
              /\ \A d \in kids[h], p \in Phase : d \in ms[p] => d \in mt[p]
              /\ \A d \in Known(mt) : d \in kids[h] \/ par[d] \in {None, h}
<1> DEFINE strays == {d \in reg \ {h} : par[d] = None /\ Inside(h, d, geo)}
           adopted == (kids[h] \cup strays) \ Known(ms)
           Keep(d) == \/ d \in kids[h]
                      \/ d \in reg /\ par[d] \in {None, h} /\ Inside(h, d, geo)
           mt == [p \in Phase |-> {d \in IF p = sel THEN ms[p] \cup adopted ELSE ms[p] : Keep(d)}]
<1>1. Maintained(h, ms, sel, reg, par, kids, geo) = mt
  BY DEF Maintained
<1>2. \A d \in kids[h] : d \notin Known(ms) => d \in adopted
  OBVIOUS
<1>3. \A d : Keep(d) => d \in kids[h] \/ par[d] \in {None, h}
  OBVIOUS
<1>4. \A d \in kids[h] : Keep(d)
  OBVIOUS
<1> HIDE DEF adopted, Keep
<1>5. \A p \in Phase : \A d \in mt[p] : Keep(d)
  OBVIOUS
<1>6. \A d \in kids[h], p \in Phase : d \in ms[p] => d \in mt[p]
  BY <1>4
<1>7. \A d \in kids[h] : d \notin Known(ms) => d \in mt[sel]
  BY <1>2, <1>4
<1> HIDE DEF mt
<1>8. kids[h] \subseteq Known(mt)
  BY <1>6, <1>7 DEF Known
<1>9. \A d \in Known(mt) : d \in kids[h] \/ par[d] \in {None, h}
  BY <1>3, <1>5 DEF Known
<1>10. QED
  BY <1>1, <1>6, <1>8, <1>9

\* The members of the selected phase are shown, those of the others are hidden,
\* and nobody else is touched.
LEMMA ShownMembers ==
    ASSUME NEW g \in Host, NEW hid \in [Device -> BOOLEAN], NEW mem, NEW sel, sel[g] \in Phase,
           Apart(mem[g]), NEW d \in Device
    PROVE  /\ \A p \in Phase : d \in mem[g][p] => (Applied(g, hid, mem, sel)[d] <=> p # sel[g])
           /\ d \notin Known(mem[g]) => Applied(g, hid, mem, sel)[d] = hid[d]
<1> DEFINE r == Applied(g, hid, mem, sel)
<1>1. r[d] = CASE d \in mem[g][sel[g]] -> FALSE
               [] d \notin mem[g][sel[g]] /\ d \in Known(mem[g]) -> TRUE
               [] OTHER -> hid[d]
  BY DEF Applied, Shown
<1> HIDE DEF r
<1>2. d \in mem[g][sel[g]] => r[d] = FALSE
  BY <1>1
<1>3. d \notin mem[g][sel[g]] /\ d \in Known(mem[g]) => r[d] = TRUE
  BY <1>1
<1>4. d \notin mem[g][sel[g]] /\ d \notin Known(mem[g]) => r[d] = hid[d]
  BY <1>1
<1>5. d \in mem[g][sel[g]] => d \in Known(mem[g])
  BY DEF Known
<1>6. ASSUME NEW p \in Phase, d \in mem[g][p] PROVE r[d] <=> p # sel[g]
  <2>1. d \in Known(mem[g])
    BY <1>6 DEF Known
  <2>2. d \in mem[g][sel[g]] <=> p = sel[g]
    BY <1>6 DEF Apart
  <2>3. QED
    BY <1>2, <1>3, <2>1, <2>2
<1>7. QED
  BY <1>4, <1>5, <1>6 DEF r

LEMMA NotShown ==
    ASSUME NEW g, NEW hid \in [Device -> BOOLEAN], NEW mem, NEW sel, NEW d \in Device,
           g \in Host => sel[g] \in Phase /\ Apart(mem[g]) /\ d \notin Known(mem[g])
    PROVE  Applied(g, hid, mem, sel)[d] = hid[d]
<1>1. CASE g \in Host
  BY <1>1, ShownMembers
<1>2. CASE g \notin Host
  BY <1>2 DEF Applied
<1>3. QED
  BY <1>1, <1>2

\* Three hosts, or fewer, settle their members and then what they show, one
\* after another; the others see nothing of it.
Settling(a, b, c) ==
    /\ hidden' = Applied(a, Applied(b, Applied(c, hidden, members', selected'),
                                       members', selected'), members', selected')
    /\ \A g \in Host \cap {a, b, c} :
          /\ children'[g] \subseteq Known(members'[g])
          /\ \A d \in Known(members'[g]) : d \in children'[g] \/ parent'[d] \in {None, g}
          /\ \A d \in children'[g] : parent'[d] \in {g, a}
    /\ \A h \in Host \ {a, b, c} :
          /\ members'[h] = members[h] /\ selected'[h] = selected[h]
          /\ children'[h] \subseteq children[h]
          /\ \A d \in children'[h] : parent'[d] = h => parent[d] = h

\* The last word on a device is that of its parent: no other of the three
\* contains it, or the last of the three is its parent.
LEMMA SettlingView ==
    ASSUME TypeOK, TypeOK', PhaseView, OnePhase', NEW a, NEW b, NEW c, Settling(a, b, c)
    PROVE  PhaseView'
<1> DEFINE x == Applied(c, hidden, members', selected')
           y == Applied(b, x, members', selected')
<1>1. hidden \in [Device -> BOOLEAN] /\ x \in [Device -> BOOLEAN] /\ y \in [Device -> BOOLEAN]
  BY AppliedType DEF TypeOK
<1>2. hidden' = Applied(a, y, members', selected')
  BY DEF Settling
<1>3. \A g \in Host : selected'[g] \in Phase /\ Apart(members'[g]) /\ g \in Device
  BY DeviceAssumption DEF TypeOK, OnePhase, Apart
<1>4. ASSUME NEW h \in Host, NEW d \in children'[h] PROVE d \in Known(members'[h])
  <2>1. CASE h \in {a, b, c}
    BY <1>4, <2>1 DEF Settling
  <2>2. CASE h \notin {a, b, c}
    BY <1>4, <2>2 DEF PhaseView, Settling
  <2>3. QED
    BY <2>1, <2>2
<1>5. ASSUME NEW h \in Host, NEW d \in children'[h], parent'[d] = h, NEW p \in Phase, d \in members'[h][p]
      PROVE  hidden'[d] <=> p # selected'[h]
  <2>1. d \in Device /\ h # None
    BY <1>3, <1>5, DeviceAssumption DEF TypeOK
  <2>2. ASSUME NEW g \in Host \cap {a, b, c}, g # h, d \in Known(members'[g]) PROVE h = a
    BY <1>5, <2>1, <2>2 DEF Settling
  <2> DEFINE Mute(g) == g \in Host => selected'[g] \in Phase /\ Apart(members'[g]) /\ d \notin Known(members'[g])
  <2>3. h # a => \A g \in {a, b, c} \ {h} : Mute(g)
    BY <1>3, <2>2
  <2>4. \A hid \in [Device -> BOOLEAN] : Applied(h, hid, members', selected')[d] <=> p # selected'[h]
    BY <1>3, <1>5, <2>1, ShownMembers
  <2>5. \A g : \A hid \in [Device -> BOOLEAN] :
           Mute(g) => Applied(g, hid, members', selected')[d] = hid[d]
    BY <2>1, NotShown
  <2> HIDE DEF Mute, x, y
  <2>6. CASE h = a
    BY <1>1, <1>2, <2>4, <2>6
  <2>7. CASE h # a /\ h = b
    <3>1. Mute(a)
      BY <2>3, <2>7
    <3>2. y[d] <=> p # selected'[h]
      BY <1>1, <2>4, <2>7 DEF y
    <3>3. hidden'[d] = y[d]
      BY <1>1, <1>2, <2>5, <3>1
    <3>4. QED
      BY <3>2, <3>3
  <2>8. CASE h # a /\ h # b /\ h = c
    <3>1. Mute(a) /\ Mute(b)
      BY <2>3, <2>8
    <3>2. x[d] <=> p # selected'[h]
      BY <1>1, <2>4, <2>8 DEF x
    <3>3. hidden'[d] = y[d] /\ y[d] = x[d]
      BY <1>1, <1>2, <2>5, <3>1 DEF y
    <3>4. QED
      BY <3>2, <3>3
  <2>9. CASE h \notin {a, b, c}
    <3>1. Mute(a) /\ Mute(b) /\ Mute(c)
      BY <2>3, <2>9
    <3>2. hidden'[d] = y[d] /\ y[d] = x[d] /\ x[d] = hidden[d]
      BY <1>1, <1>2, <2>5, <3>1 DEF x, y
    <3>3. /\ d \in children[h] /\ parent[d] = h /\ d \in members[h][p]
          /\ selected'[h] = selected[h]
      BY <1>5, <2>9 DEF Settling
    <3>4. hidden[d] <=> p # selected[h]
      BY <3>3 DEF PhaseView
    <3>5. QED
      BY <3>2, <3>3, <3>4
  <2>10. QED
    BY <2>6, <2>7, <2>8, <2>9
<1>6. QED
  BY <1>4, <1>5 DEF PhaseView

\* What RefreshMembership does to the hosts it is called for.
LEMMA RefreshedMembers ==
    ASSUME TypeOK, NEW hs, NEW geo, members' = Refreshed(hs, geo)
    PROVE  /\ \A g \in Host \cap hs :
                /\ children'[g] \subseteq Known(members'[g])
                /\ \A d \in children'[g], p \in Phase : d \in members[g][p] => d \in members'[g][p]
                /\ \A d \in Known(members'[g]) : d \in children'[g] \/ parent'[d] \in {None, g}
           /\ \A g \in Host \ hs : members'[g] = members[g]
<1>1. ASSUME NEW g \in Host \cap hs
      PROVE  /\ children'[g] \subseteq Known(members'[g])
             /\ \A d \in children'[g], p \in Phase : d \in members[g][p] => d \in members'[g][p]
             /\ \A d \in Known(members'[g]) : d \in children'[g] \/ parent'[d] \in {None, g}
  <2>1. members'[g] = Maintained(g, members[g], selected[g], nodes', parent', children', geo)
    BY <1>1 DEF Refreshed
  <2>2. selected[g] \in Phase
    BY DEF TypeOK
  <2> DEFINE mt == Maintained(g, members[g], selected[g], nodes', parent', children', geo)
  <2>3. /\ children'[g] \subseteq Known(mt)
        /\ \A d \in children'[g], p \in Phase : d \in members[g][p] => d \in mt[p]
        /\ \A d \in Known(mt) : d \in children'[g] \/ parent'[d] \in {None, g}
    BY <2>2, MaintainedKeeps, Zenon
  <2> HIDE DEF mt
  <2>4. QED
    BY <2>1, <2>3 DEF mt
<1>2. ASSUME NEW g \in Host \ hs PROVE members'[g] = members[g]
  BY <1>2 DEF Refreshed
<1>3. QED
  BY <1>1, <1>2

\* Three Sequences, or fewer, renew their members and then what they show.
Renewal(a, b, c) ==
    /\ \E geo : members' = Refreshed({a, b, c}, geo)
    /\ hidden' = Applied(a, Applied(b, Applied(c, hidden, members', selected'),
                                       members', selected'), members', selected')
    /\ \A g \in Host \cap {a, b, c} : \A d \in children'[g] : parent'[d] \in {g, a}
    /\ \A h \in Host \ {a, b, c} :
          /\ selected'[h] = selected[h]
          /\ children'[h] \subseteq children[h]
          /\ \A d \in children'[h] : parent'[d] = h => parent[d] = h

LEMMA RenewalView ==
    ASSUME TypeOK, TypeOK', PhaseView, OnePhase', NEW a, NEW b, NEW c, Renewal(a, b, c)
    PROVE  PhaseView'
<1>0. PICK geo : members' = Refreshed({a, b, c}, geo)
  BY DEF Renewal
<1> DEFINE hs == {a, b, c}
<1>1. members' = Refreshed(hs, geo)
  BY <1>0
<1>2. /\ \A g \in Host \cap hs :
            /\ children'[g] \subseteq Known(members'[g])
            /\ \A d \in Known(members'[g]) : d \in children'[g] \/ parent'[d] \in {None, g}
      /\ \A g \in Host \ hs : members'[g] = members[g]
  <2> HIDE DEF hs
  <2>1. QED
    BY <1>1, RefreshedMembers
<1>3. \A g \in Host \cap {a, b, c} :
              /\ children'[g] \subseteq Known(members'[g])
              /\ \A d \in Known(members'[g]) : d \in children'[g] \/ parent'[d] \in {None, g}
              /\ \A d \in children'[g] : parent'[d] \in {g, a}
  BY <1>2 DEF Renewal
<1>4. \A h \in Host \ {a, b, c} :
              /\ members'[h] = members[h] /\ selected'[h] = selected[h]
              /\ children'[h] \subseteq children[h]
              /\ \A d \in children'[h] : parent'[d] = h => parent[d] = h
  BY <1>2 DEF Renewal
<1> HIDE DEF hs
<1>5. hidden' = Applied(a, Applied(b, Applied(c, hidden, members', selected'),
                                        members', selected'), members', selected')
  BY DEF Renewal
<1>6. QED
  BY <1>3, <1>4, <1>5, SettlingView DEF Settling

LEMMA NoHost == \E n : n \notin Host /\ \A hid, mem, sel : Applied(n, hid, mem, sel) = hid
BY DeviceAssumption DEF Applied

\* Nobody is listed by a container that is not its parent, outside a hand-over.
LEMMA HostsAgree ==
    ASSUME TypeOK, LinksAgree, leaving = None
    PROVE  \A g \in Host : \A d \in children[g] : d \in Device /\ parent[d] = g
BY DeviceAssumption DEF TypeOK, LinksAgree

\* A step that leaves the tree alone and renews one host, or none.
LEMMA SameTreeView ==
    ASSUME TypeOK, TypeOK', GraphInv, leaving = None, UNCHANGED tree, PhaseView, OnePhase',
           NEW h \in Device, NEW geo, members' = Refreshed({h}, geo),
           hidden' = Applied(h, hidden, members', selected'),
           \A g \in Host \ {h} : selected'[g] = selected[g]
    PROVE  PhaseView'
<1>1. parent' = parent /\ children' = children
  BY DEF tree
<1>2. \A g \in Host : \A d \in children[g] : d \in Device /\ g \in Device /\ g # None
  BY DeviceAssumption DEF TypeOK
<1>3. \A g \in Host : \A d \in children[g] : parent[d] = g
  BY <1>2 DEF GraphInv, LinksAgree
<1>4. PICK n : n \notin Host /\ \A hid, mem, sel : Applied(n, hid, mem, sel) = hid
  BY NoHost
<1>5. Refreshed({h}, geo) = Refreshed({h, n, n}, geo)
  BY <1>4 DEF Refreshed
<1>6. hidden' = Applied(h, Applied(n, Applied(n, hidden, members', selected'),
                                   members', selected'), members', selected')
  BY <1>4
<1>7. members' = Refreshed({h, n, n}, geo)
  BY <1>5
<1>8. \A g \in Host \cap {h, n, n} : \A d \in children'[g] : parent'[d] \in {g, h}
  BY <1>1, <1>3
<1>9. \A g \in Host \ {h, n, n} :
              /\ selected'[g] = selected[g]
              /\ children'[g] \subseteq children[g]
              /\ \A d \in children'[g] : parent'[d] = g => parent[d] = g
  BY <1>1
<1>10. Renewal(h, n, n)
  BY <1>6, <1>7, <1>8, <1>9 DEF Renewal
<1>11. QED
  BY <1>10, RenewalView

LEMMA SubSeqTail ==
    ASSUME NEW S, NEW z \in Seq(S), NEW m \in 1..(Len(z) + 1)
    PROVE  LET b == SubSeq(z, m, Len(z))
           IN /\ b \in Seq(S) /\ Len(b) = Len(z) + 1 - m
              /\ \A j \in 1..(Len(z) + 1 - m) : b[j] = z[j + m - 1]
<1> DEFINE b == SubSeq(z, m, Len(z))
<1>1. m \in Nat /\ Len(z) \in Nat /\ 1 <= m /\ m <= Len(z) + 1
  OBVIOUS
<1>2. b \in Seq(S)
  BY <1>1
<1>3. Len(b) = Len(z) + 1 - m
  BY <1>1
<1>4. \A j \in 1..(Len(z) + 1 - m) : b[j] = z[j + m - 1]
  BY <1>1
<1>5. QED
  BY <1>2, <1>3, <1>4

LEMMA InsertedOnce ==
    ASSUME NEW z \in Seq(Phase), NEW i \in 0..Len(z), NEW p \in Phase,
           \A j, k \in DOMAIN z : z[j] = z[k] => j = k, \A j \in DOMAIN z : z[j] # p
    PROVE  LET y == SubSeq(z, 1, i) \o <<p>> \o SubSeq(z, i + 1, Len(z))
           IN \A j, k \in DOMAIN y : y[j] = y[k] => j = k
<1> DEFINE a == SubSeq(z, 1, i)
           b == SubSeq(z, i + 1, Len(z))
           ap == a \o <<p>>
           y == ap \o b
<1>1. i \in Nat /\ i <= Len(z) /\ Len(z) \in Nat /\ DOMAIN z = 1..Len(z)
  OBVIOUS
<1>2. a \in Seq(Phase) /\ Len(a) = i /\ \A j \in 1..i : a[j] = z[j]
  BY <1>1
<1>3. b \in Seq(Phase) /\ Len(b) = Len(z) - i /\ \A j \in 1..(Len(z) - i) : b[j] = z[j + i]
  <2> DEFINE m == i + 1
  <2>1. i \in Int /\ Len(z) \in Int /\ 0 <= i /\ i <= Len(z)
    BY <1>1
  <2>2. m \in 1..(Len(z) + 1) /\ Len(z) + 1 - m = Len(z) - i /\ \A j \in Nat : j + m - 1 = j + i
    <3> HIDE DEF a, b, ap, y
    <3>1. QED
      BY <2>1
  <2> HIDE DEF m
  <2> DEFINE t == SubSeq(z, m, Len(z))
  <2>3. t \in Seq(Phase) /\ Len(t) = Len(z) + 1 - m /\ \A j \in 1..(Len(z) + 1 - m) : t[j] = z[j + m - 1]
    BY <2>2, SubSeqTail
  <2>4. t = b
    BY DEF m
  <2> HIDE DEF t, b
  <2>5. \A j \in 1..(Len(z) - i) : j \in Nat /\ b[j] = z[j + i]
    BY <2>2, <2>3, <2>4
  <2>6. QED
    BY <2>2, <2>3, <2>4, <2>5
<1>4. ap \in Seq(Phase) /\ Len(ap) = i + 1 /\ ap[i + 1] = p /\ \A j \in 1..i : ap[j] = a[j]
  <2> HIDE DEF a
  <2>1. QED
    BY <1>1, <1>2
<1>5. /\ y \in Seq(Phase) /\ Len(y) = Len(z) + 1
      /\ \A j \in 1..(i + 1) : y[j] = ap[j]
      /\ \A j \in (i + 2)..(Len(z) + 1) : y[j] = b[j - (i + 1)]
  <2> HIDE DEF ap, b
  <2>1. QED
    BY <1>1, <1>3, <1>4
<1> HIDE DEF y, ap, a, b
<1> DEFINE f(j) == IF j < i + 1 THEN j ELSE j - 1
<1>6. ASSUME NEW j \in 1..(Len(z) + 1)
      PROVE  IF j = i + 1 THEN y[j] = p ELSE f(j) \in DOMAIN z /\ y[j] = z[f(j)]
  <2>1. CASE j = i + 1
    BY <1>1, <1>4, <1>5, <2>1
  <2>2. CASE j < i + 1
    <3>1. j \in 1..i /\ j \in 1..(i + 1)
      BY <1>1, <2>2
    <3>2. QED
      BY <1>1, <1>2, <1>4, <1>5, <2>2, <3>1
  <2>3. CASE j > i + 1
    <3>1. j \in (i + 2)..(Len(z) + 1) /\ j - (i + 1) \in 1..(Len(z) - i)
      BY <1>1, <2>3
    <3>2. y[j] = b[j - (i + 1)] /\ b[j - (i + 1)] = z[(j - (i + 1)) + i]
      BY <1>3, <1>5, <3>1
    <3>3. (j - (i + 1)) + i = j - 1
      BY <1>1
    <3>4. QED
      BY <1>1, <2>3, <3>2, <3>3
  <2>4. QED
    BY <1>1, <2>1, <2>2, <2>3
<1>7. ASSUME NEW j \in 1..(Len(z) + 1), NEW k \in 1..(Len(z) + 1), y[j] = y[k] PROVE j = k
  <2>1. CASE j = i + 1 \/ k = i + 1
    BY <1>6, <1>7, <2>1
  <2>2. CASE j # i + 1 /\ k # i + 1
    <3>1. f(j) = f(k)
      BY <1>6, <1>7, <2>2
    <3>2. QED
      BY <1>1, <2>2, <3>1
  <2>3. QED
    BY <2>1, <2>2
<1>8. DOMAIN y = 1..(Len(z) + 1)
  BY <1>1, <1>5
<1>9. QED
  BY <1>7, <1>8 DEF y, ap, a, b

\* A phase is in the list of a Sequence once.
ListedOnce == \A h \in Host : \A i, j \in DOMAIN phases[h] : phases[h][i] = phases[h][j] => i = j

LEMMA ListedOnceStep == TypeOK /\ ListedOnce /\ [Next]_vars => ListedOnce'
<1>1. SUFFICES ASSUME TypeOK, ListedOnce, [Next]_vars PROVE ListedOnce'
  OBVIOUS
<1>2. ASSUME UNCHANGED phases PROVE ListedOnce'
  BY <1>1, <1>2 DEF ListedOnce
<1>3. ASSUME NEW h \in Host, NEW y, phases' = [phases EXCEPT ![h] = y],
             \A i, j \in DOMAIN y : y[i] = y[j] => i = j
      PROVE  ListedOnce'
  BY <1>1, <1>3 DEF ListedOnce, TypeOK
<1>4. ASSUME NEW h \in Host, NEW p \in Phase, NEW i \in 0..Len(phases[h]), InsertPhase(h, i, p)
      PROVE  ListedOnce'
  <2> DEFINE z == phases[h]
             y == SubSeq(z, 1, i) \o <<p>> \o SubSeq(z, i + 1, Len(z))
  <2>1. z \in Seq(Phase) /\ \A j, k \in DOMAIN z : z[j] = z[k] => j = k
    BY <1>1 DEF TypeOK, ListedOnce
  <2>2. (\A j \in DOMAIN z : z[j] # p) /\ phases' = [phases EXCEPT ![h] = y]
    BY <1>4 DEF InsertPhase
  <2>3. \A j, k \in DOMAIN y : y[j] = y[k] => j = k
    BY <2>1, <2>2, InsertedOnce
  <2> HIDE DEF y
  <2>4. QED
    BY <1>3, <2>2, <2>3
<1>5. ASSUME NEW h \in Host, RemovePhase(h) PROVE ListedOnce'
  <2> DEFINE z == phases[h]
             i == Position(z, selected[h])
             y == Cut(z, i)
  <2>1. /\ z \in Seq(Phase) /\ i \in DOMAIN z
        /\ \A j, k \in DOMAIN z : z[j] = z[k] => j = k
    BY <1>1, PositionType DEF TypeOK, ListedOnce
  <2>2. phases' = [phases EXCEPT ![h] = y]
    BY <1>5 DEF RemovePhase
  <2> HIDE DEF i
  <2>3. y \in Seq(Phase) /\ Len(y) = Len(z) - 1
        /\ \A j \in 1..(Len(z) - 1) : y[j] = z[IF j < i THEN j ELSE j + 1]
    BY <2>1, CutShape
  <2> HIDE DEF y
  <2>4. \A j, k \in DOMAIN y : y[j] = y[k] => j = k
    <3>1. SUFFICES ASSUME NEW j \in DOMAIN y, NEW k \in DOMAIN y, y[j] = y[k] PROVE j = k
      OBVIOUS
    <3> DEFINE u == IF j < i THEN j ELSE j + 1
               v == IF k < i THEN k ELSE k + 1
    <3>2. j \in 1..(Len(z) - 1) /\ k \in 1..(Len(z) - 1) /\ Len(z) \in Nat /\ i \in Nat
      BY <2>1, <2>3
    <3>3. u \in DOMAIN z /\ v \in DOMAIN z /\ z[u] = z[v]
      BY <2>1, <2>3, <3>1, <3>2
    <3>4. u = v
      BY <2>1, <3>3
    <3>5. QED
      BY <3>2, <3>4
  <2>5. QED
    BY <1>3, <2>2, <2>4
<1>6. CASE Sweep
  BY <1>2, <1>6 DEF Sweep, KeepParent, Reparent, Export, view
<1>7. CASE Cascade
  BY <1>2, <1>7 DEF Cascade, FellKid, BeginUnregister, Bequeath, Unregister, view
<1>8. CASE Refresh \/ \E d \in Device : \E x \in Places[d] : Place(d, x)
  BY <1>2, <1>8 DEF Refresh, Place, view
<1>9. CASE Drag
  BY <1>2, <1>9 DEF Drag, DragStart, DragMove, DragEnd, view
<1>10. CASE Resize
  BY <1>2, <1>10 DEF Resize, ResizeStart, ResizeMove, ResizeEnd, view
<1>11. CASE Menu
  BY <1>2, <1>4, <1>5, <1>11 DEF Menu, Restack, SelectPhase, Delete, view
<1>12. CASE UNCHANGED vars
  BY <1>2, <1>12 DEF vars, view
<1>13. QED
  BY <1>1, <1>6, <1>7, <1>8, <1>9, <1>10, <1>11, <1>12 DEF Next

\* One device moves in the tree.
LEMMA ReparentView ==
    ASSUME TypeOK, TypeOK', GraphInv, GraphInv', OnePhase', PhaseView, Reparent
    PROVE  PhaseView'
<1> DEFINE d == Head(sweep)
<1>1. PICK p \in BestParents(d, nodes, hidden, outer, zorder) \ {parent[d]} :
        /\ parent' = [parent EXCEPT ![d] = p]
        /\ children' = Relinked(d, p)
        /\ UNCHANGED <<stage, phases, selected>>
        /\ members' = Refreshed({parent[d], p}, box)
        /\ hidden' = Applied(p, Applied(parent[d], hidden, members', selected), members', selected)
  BY DEF Reparent
<1>2. sweep # <<>> /\ d # None /\ leaving' = leaving
  BY DEF Reparent, fall
<1>3. leaving = None /\ leaving' = None /\ d \in Device
  BY <1>2, PassHead DEF GraphInv, Pass, TypeOK
<1>4. \A g \in Host : \A k \in children'[g] : k \in Device /\ parent'[k] = g
  BY <1>3, HostsAgree, DeviceAssumption DEF GraphInv, LinksAgree, TypeOK
<1>5. PICK q : q = parent[d]
  OBVIOUS
<1>6. PICK n : n \notin Host /\ \A hid, mem, sel : Applied(n, hid, mem, sel) = hid
  BY NoHost
<1>7. \A k \in Device : parent'[k] = IF k = d THEN p ELSE parent[k]
  BY <1>1 DEF TypeOK
<1>8. \A h \in Host \ {p} : children'[h] \subseteq children[h]
  BY <1>1, DeviceAssumption DEF Relinked
<1>9. selected' = selected
  BY <1>1
<1>10. members' = Refreshed({p, q, n}, box)
  <2>1. members' = Refreshed({q, p}, box)
    BY <1>1, <1>5
  <2>2. Refreshed({q, p}, box) = Refreshed({p, q, n}, box)
    BY <1>6 DEF Refreshed
  <2>3. QED
    BY <2>1, <2>2
<1>11. hidden' = Applied(p, Applied(q, Applied(n, hidden, members', selected'),
                                    members', selected'), members', selected')
  BY <1>1, <1>5, <1>6, <1>9
<1>12. Renewal(p, q, n)
  <2>1. \A g \in Host \cap {p, q, n} : \A k \in children'[g] : parent'[k] \in {g, p}
    BY <1>4
  <2>2. \A h \in Host \ {p, q, n} :
          /\ selected'[h] = selected[h]
          /\ children'[h] \subseteq children[h]
          /\ \A k \in children'[h] : parent'[k] = h => parent[k] = h
    BY <1>4, <1>7, <1>8, <1>9
  <2>3. QED
    BY <1>10, <1>11, <2>1, <2>2 DEF Renewal
<1>13. QED
  BY <1>12, RenewalView

LEMMA PlaceView ==
    ASSUME TypeOK, TypeOK', GraphInv, GraphInv', OnePhase', PhaseView, NEW d \in Device, NEW x, Place(d, x)
    PROVE  PhaseView'
<1> DEFINE geo == [box EXCEPT ![d] = At(d, Corner)]
<1>1. PICK p \in BestParents(d, nodes', hidden, [outer EXCEPT ![d] = At(d, Corner)], zorder') :
        /\ parent' = [parent EXCEPT ![d] = p]
        /\ children' = Relinked(d, p)
        /\ members' = Refreshed({p}, geo)
        /\ hidden' = Applied(p, hidden, members', selected)
  BY DEF Place
<1>2. leaving' = None /\ selected' = selected
  BY QuietStill DEF Place, Idle, fall
<1>3. \A g \in Host : \A k \in children'[g] : k \in Device /\ parent'[k] = g
  BY <1>2, HostsAgree, DeviceAssumption DEF GraphInv, LinksAgree, TypeOK
<1>4. PICK n : n \notin Host /\ \A hid, mem, sel : Applied(n, hid, mem, sel) = hid
  BY NoHost
<1>5. \A k \in Device : parent'[k] = IF k = d THEN p ELSE parent[k]
  BY <1>1 DEF TypeOK
<1>6. \A h \in Host \ {p} : children'[h] \subseteq children[h]
  BY <1>1, DeviceAssumption DEF Relinked
<1> HIDE DEF geo
<1>7. members' = Refreshed({p, n, n}, geo)
  <2>1. Refreshed({p}, geo) = Refreshed({p, n, n}, geo)
    BY <1>4 DEF Refreshed
  <2>2. QED
    BY <1>1, <2>1
<1>8. hidden' = Applied(p, Applied(n, Applied(n, hidden, members', selected'),
                                   members', selected'), members', selected')
  BY <1>1, <1>2, <1>4
<1>9. Renewal(p, n, n)
  <2>1. \A g \in Host \cap {p, n, n} : \A k \in children'[g] : parent'[k] \in {g, p}
    BY <1>3
  <2>2. \A h \in Host \ {p, n, n} :
          /\ selected'[h] = selected[h]
          /\ children'[h] \subseteq children[h]
          /\ \A k \in children'[h] : parent'[k] = h => parent[k] = h
    BY <1>2, <1>3, <1>5, <1>6
  <2>3. QED
    BY <1>7, <1>8, <2>1, <2>2 DEF Renewal
<1>10. QED
  BY <1>9, RenewalView

LEMMA DragEndView ==
    ASSUME TypeOK, TypeOK', GraphInv, GraphInv', OnePhase', PhaseView, DragEnd
    PROVE  PhaseView'
<1> DEFINE d == gesture.dev
           Told(p) == IF p = parent[d] THEN <<None, None>> ELSE <<parent[d], p>>
<1>1. \E geo, p : /\ parent' = [parent EXCEPT ![d] = p]
                  /\ children' = Relinked(d, p)
                  /\ members' = Refreshed({Told(p)[1], Told(p)[2], d}, geo)
                  /\ hidden' = Applied(d, Applied(Told(p)[2], Applied(Told(p)[1],
                        hidden, members', selected), members', selected), members', selected)
  BY DEF DragEnd
<1>2. PICK geo, p : /\ parent' = [parent EXCEPT ![d] = p]
                    /\ children' = Relinked(d, p)
                    /\ members' = Refreshed({Told(p)[1], Told(p)[2], d}, geo)
                    /\ hidden' = Applied(d, Applied(Told(p)[2], Applied(Told(p)[1],
                        hidden, members', selected), members', selected), members', selected)
  BY <1>1
<1>3. Quiet /\ gesture.kind = "drag" /\ leaving' = leaving /\ selected' = selected
  BY DEF DragEnd, fall
<1>4. leaving = None /\ leaving' = None /\ d \in Device
  BY <1>3, QuietStill DEF GraphInv, Grip, TypeOK
<1>5. \A g \in Host : \A k \in children'[g] : k \in Device /\ parent'[k] = g
  BY <1>4, HostsAgree, DeviceAssumption DEF GraphInv, LinksAgree, TypeOK
<1>6. PICK c, b, a : a = d /\ b = Told(p)[2] /\ c = Told(p)[1]
  OBVIOUS
<1>7. \A k \in Device : parent'[k] = IF k = d THEN p ELSE parent[k]
  BY <1>2, <1>4 DEF TypeOK
<1>8. p = parent[d] => \A h \in Host : children'[h] \subseteq children[h]
  <2>1. \A h \in Host : h \in nodes /\ parent[d] = h => d \in children[h]
    BY <1>4, DeviceAssumption DEF GraphInv, LinksAgree
  <2>2. QED
    BY <1>2, <2>1, DeviceAssumption DEF Relinked
<1>9. \A h \in Host \ {p} : children'[h] \subseteq children[h]
  BY <1>2, DeviceAssumption DEF Relinked
<1>10. p # parent[d] => p = b
  BY <1>6
<1>11. members' = Refreshed({a, b, c}, geo)
  <2>1. Told(p)[1] = c /\ Told(p)[2] = b /\ d = a
    BY <1>6
  <2> HIDE DEF Told, d
  <2>2. members' = Refreshed({c, b, a}, geo)
    BY <1>2, <2>1
  <2>3. {c, b, a} = {a, b, c}
    OBVIOUS
  <2>4. QED
    BY <2>2, <2>3
<1>12. hidden' = Applied(a, Applied(b, Applied(c, hidden, members', selected'),
                                    members', selected'), members', selected')
  <2>1. Told(p)[1] = c /\ Told(p)[2] = b /\ d = a
    BY <1>6
  <2> HIDE DEF Told, d
  <2>2. QED
    BY <1>2, <1>3, <2>1
<1>13. Renewal(a, b, c)
  <2>1. \A g \in Host \cap {a, b, c} : \A k \in children'[g] : parent'[k] \in {g, a}
    BY <1>5
  <2>2. ASSUME NEW h \in Host \ {a, b, c}
        PROVE  /\ selected'[h] = selected[h]
               /\ children'[h] \subseteq children[h]
               /\ \A k \in children'[h] : parent'[k] = h => parent[k] = h
    <3>1. p = parent[d] \/ p # h
      BY <1>10, <2>2
    <3>2. children'[h] \subseteq children[h]
      BY <1>8, <1>9, <2>2, <3>1
    <3>3. \A k \in children'[h] : parent'[k] = h => parent[k] = h
      BY <1>5, <1>7, <3>1
    <3>4. QED
      BY <1>3, <3>2, <3>3
  <2>3. QED
    BY <1>11, <1>12, <2>1, <2>2 DEF Renewal
<1>14. QED
  BY <1>13, RenewalView

LEMMA BequeathView ==
    ASSUME TypeOK, TypeOK', GraphInv, GraphInv', OnePhase', PhaseView, NEW k \in Device, Bequeath(k)
    PROVE  PhaseView'
<1>1. PICK a, b : a = parent[leaving] /\ b = leaving
  OBVIOUS
<1>2. /\ b \in Device /\ b # None /\ leaving' = b /\ k \in heirs
      /\ parent' = [parent EXCEPT ![k] = a]
      /\ children' = [c \in Device |-> IF c = a /\ c \in nodes THEN children[c] \cup {k} ELSE children[c]]
      /\ selected' = selected
  BY <1>1 DEF Bequeath, TypeOK
<1>3. members' = Refreshed({b, a}, box) /\ hidden' = Applied(a, Applied(b, hidden, members', selected), members', selected)
  BY <1>1 DEF Bequeath
<1>4. \A j \in Device : parent'[j] = IF j = k THEN a ELSE parent[j]
  BY <1>2 DEF TypeOK
<1>5. parent'[b] = a
  BY <1>1, <1>2, <1>4
<1>6. \A g \in Host : \A j \in children'[g] : j \in Device /\ parent'[j] \in {g, a}
  <2>1. SUFFICES ASSUME NEW g \in Host, NEW j \in children'[g] PROVE j \in Device /\ parent'[j] \in {g, a}
    OBVIOUS
  <2>2. g \in Device /\ j \in Device
    BY DeviceAssumption DEF TypeOK
  <2>3. parent'[j] = g \/ (g = b /\ j \notin heirs')
    BY <1>2, <2>2 DEF GraphInv, LinksAgree
  <2>4. g = b /\ j \notin heirs' => parent'[j] = a
    BY <1>2, <1>5 DEF GraphInv, Heirs
  <2>5. QED
    BY <2>2, <2>3, <2>4
<1>7. PICK n : n \notin Host /\ \A hid, mem, sel : Applied(n, hid, mem, sel) = hid
  BY NoHost
<1>8. members' = Refreshed({a, b, n}, box)
  <2>1. Refreshed({b, a}, box) = Refreshed({a, b, n}, box)
    BY <1>7 DEF Refreshed
  <2>2. QED
    BY <1>3, <2>1
<1>9. hidden' = Applied(a, Applied(b, Applied(n, hidden, members', selected'),
                                   members', selected'), members', selected')
  BY <1>2, <1>3, <1>7
<1>10. Renewal(a, b, n)
  <2>1. \A g \in Host \cap {a, b, n} : \A j \in children'[g] : parent'[j] \in {g, a}
    BY <1>6
  <2>2. \A h \in Host \ {a, b, n} :
          /\ selected'[h] = selected[h]
          /\ children'[h] \subseteq children[h]
          /\ \A j \in children'[h] : parent'[j] = h => parent[j] = h
    BY <1>2, <1>4, <1>6, DeviceAssumption
  <2>3. QED
    BY <1>8, <1>9, <2>1, <2>2 DEF Renewal
<1>11. QED
  BY <1>10, RenewalView

\* An export renews the members, and nothing of what is shown changes by it.
LEMMA ExportView ==
    ASSUME TypeOK, TypeOK', OnePhase', PhaseView, Export
    PROVE  PhaseView'
<1>1. /\ members' = Refreshed(nodes \cap Host, box)
      /\ UNCHANGED <<parent, children, hidden, selected>>
  BY DEF Export, tree
<1>2. /\ \A g \in Host \cap (nodes \cap Host) :
            /\ children'[g] \subseteq Known(members'[g])
            /\ \A d \in children'[g], p \in Phase : d \in members[g][p] => d \in members'[g][p]
      /\ \A g \in Host \ (nodes \cap Host) : members'[g] = members[g]
  BY <1>1, RefreshedMembers
<1>3. ASSUME NEW h \in Host, NEW d \in children[h]
      PROVE  /\ d \in Known(members'[h])
             /\ \A p \in Phase : d \in members'[h][p] => d \in members[h][p]
  <2>1. PICK q \in Phase : d \in members[h][q]
    BY <1>3 DEF PhaseView, Known
  <2>2. CASE h \in nodes
    <3>1. d \in Known(members'[h]) /\ d \in members'[h][q]
      BY <1>1, <1>2, <1>3, <2>1, <2>2
    <3>2. \A p \in Phase : d \in members'[h][p] => p = q
      BY <1>3, <3>1 DEF OnePhase
    <3>3. QED
      BY <2>1, <3>1, <3>2
  <2>3. CASE h \notin nodes
    BY <1>2, <1>3, <2>3 DEF PhaseView
  <2>4. QED
    BY <2>2, <2>3
<1>4. ASSUME NEW h \in Host, NEW d \in children[h], parent[d] = h, NEW p \in Phase, d \in members'[h][p]
      PROVE  hidden[d] <=> p # selected[h]
  <2>1. d \in members[h][p]
    BY <1>3, <1>4
  <2>2. QED
    BY <1>4, <2>1 DEF PhaseView
<1>5. QED
  BY <1>1, <1>3, <1>4 DEF PhaseView

LEMMA UnregisterView ==
    ASSUME TypeOK, TypeOK', GraphInv', PhaseView, Unregister
    PROVE  PhaseView'
<1> DEFINE L == leaving
<1>1. /\ L \in Device /\ L # None /\ leaving' = None
      /\ hidden' = [hidden EXCEPT ![L] = FALSE]
      /\ parent' = [parent EXCEPT ![L] = None]
      /\ children' = [Relinked(L, None) EXCEPT ![L] = {}]
      /\ UNCHANGED <<members, selected>>
  BY DEF Unregister, TypeOK
<1>2. \A g \in Host : \A d \in children'[g] : d \in Device /\ parent'[d] = g
  BY <1>1, HostsAgree, DeviceAssumption DEF GraphInv, LinksAgree, TypeOK
<1>3. \A g \in Device : children'[g] \subseteq children[g]
  BY <1>1, DeviceAssumption DEF Relinked
<1>4. \A d \in Device : parent'[d] = IF d = L THEN None ELSE parent[d]
  BY <1>1 DEF TypeOK
<1>5. \A d \in Device \ {L} : hidden'[d] = hidden[d]
  BY <1>1 DEF TypeOK
<1>6. ASSUME NEW h \in Host, NEW d \in children'[h]
      PROVE  d \in children[h] /\ parent[d] = h /\ hidden'[d] = hidden[d]
  BY <1>2, <1>3, <1>4, <1>5, <1>6, DeviceAssumption
<1>7. ASSUME NEW h \in Host, NEW d \in children'[h], NEW p \in Phase, d \in members[h][p]
      PROVE  hidden'[d] <=> p # selected[h]
  <2>1. d \in children[h] /\ parent[d] = h /\ hidden'[d] = hidden[d]
    BY <1>6, <1>7
  <2>2. hidden[d] <=> p # selected[h]
    BY <1>7, <2>1 DEF PhaseView
  <2>3. QED
    BY <2>1, <2>2
<1>8. \A h \in Host : \A d \in children'[h] : d \in Known(members[h])
  BY <1>6 DEF PhaseView
<1>9. members' = members /\ selected' = selected
  BY <1>1
<1>10. QED
  BY <1>7, <1>8, <1>9 DEF PhaseView

\* The members of the phase that goes join its neighbour, and all are shown.
LEMMA RemovePhaseView ==
    ASSUME TypeOK, TypeOK', GraphInv, OnePhase', ListedOnce, PhaseView, NEW h \in Host, RemovePhase(h)
    PROVE  PhaseView'
<1> DEFINE z == phases[h]
           gone == selected[h]
           i == Position(z, gone)
           n == IF i = 1 THEN 2 ELSE i - 1
           heir == z[n]
           ms == Maintained(h, members[h], gone, nodes, parent, children, box)
           left == [ms EXCEPT ![heir] = @ \cup ms[gone], ![gone] = {}]
<1>1. /\ members' = [members EXCEPT ![h] = left] /\ selected' = [selected EXCEPT ![h] = heir]
      /\ hidden' = Applied(h, hidden, members', selected')
      /\ Len(z) >= 2 /\ UNCHANGED <<parent, children>> /\ Idle
  BY DEF RemovePhase, tree
<1>2. leaving = None
  BY <1>1, QuietStill DEF Idle
<1>3. \A g \in Host : \A d \in children[g] : d \in Device /\ parent[d] = g
  BY <1>2, HostsAgree DEF GraphInv
<1>4. z \in Seq(Phase) /\ i \in DOMAIN z /\ z[i] = gone /\ gone \in Phase
  BY PositionType DEF TypeOK
<1>5. ms \in [Phase -> SUBSET Device]
  BY MaintainedType, DeviceAssumption DEF TypeOK
<1>6. /\ children[h] \subseteq Known(ms)
      /\ \A d \in Known(ms) : d \in children[h] \/ parent[d] \in {None, h}
  BY <1>4, MaintainedKeeps, Zenon
<1> HIDE DEF ms, i
<1>7. heir \in Phase /\ heir # gone
  <2>1. n \in DOMAIN z /\ n # i
    BY <1>1, <1>4
  <2> HIDE DEF n
  <2>2. z[n] # z[i]
    BY <1>4, <2>1 DEF ListedOnce
  <2>3. QED
    BY <1>4, <2>1, <2>2
<1> HIDE DEF heir, gone
<1>8. \A p \in Phase : left[p] = IF p = gone THEN {}
                                 ELSE IF p = heir THEN ms[heir] \cup ms[gone] ELSE ms[p]
  BY <1>4, <1>5, <1>7
<1> HIDE DEF left
<1>9. Known(left) = Known(ms)
  <2>1. \A d \in Known(ms) : d \in Known(left)
    <3>1. SUFFICES ASSUME NEW d \in Known(ms) PROVE d \in Known(left)
      OBVIOUS
    <3>2. PICK p \in Phase : d \in ms[p]
      BY DEF Known
    <3>3. d \in left[IF p = gone THEN heir ELSE p]
      BY <1>4, <1>7, <1>8, <3>2
    <3>4. QED
      BY <1>7, <3>3 DEF Known
  <2>2. \A d \in Known(left) : d \in Known(ms)
    <3>1. SUFFICES ASSUME NEW d \in Known(left) PROVE d \in Known(ms)
      OBVIOUS
    <3>2. PICK p \in Phase : d \in left[p]
      BY DEF Known
    <3>3. d \in ms[p] \/ d \in ms[gone]
      BY <1>8, <3>2
    <3>4. QED
      BY <1>4, <3>3 DEF Known
  <2>3. QED
    BY <2>1, <2>2
<1>10. members'[h] = left /\ \A g \in Host \ {h} : members'[g] = members[g] /\ selected'[g] = selected[g]
  BY <1>1 DEF TypeOK
<1>11. PICK o : o \notin Host /\ \A hid, mem, sel : Applied(o, hid, mem, sel) = hid
  BY NoHost
<1>12. hidden' = Applied(h, Applied(o, Applied(o, hidden, members', selected'),
                                    members', selected'), members', selected')
  BY <1>1, <1>11
<1>13. Settling(h, o, o)
  <2>1. ASSUME NEW g \in Host \cap {h, o, o}
        PROVE  /\ children'[g] \subseteq Known(members'[g])
               /\ \A d \in Known(members'[g]) : d \in children'[g] \/ parent'[d] \in {None, g}
               /\ \A d \in children'[g] : parent'[d] \in {g, h}
    <3>1. g = h
      BY <1>11
    <3>2. QED
      BY <1>1, <1>3, <1>6, <1>9, <1>10, <3>1
  <2>2. \A g \in Host \ {h, o, o} :
          /\ members'[g] = members[g] /\ selected'[g] = selected[g]
          /\ children'[g] \subseteq children[g]
          /\ \A d \in children'[g] : parent'[d] = g => parent[d] = g
    BY <1>1, <1>10
  <2>3. QED
    BY <1>12, <2>1, <2>2 DEF Settling
<1>14. QED
  BY <1>13, SettlingView

LEMMA ViewStep ==
    TypeOK /\ TypeOK' /\ GraphInv /\ GraphInv' /\ OnePhase' /\ ListedOnce /\ PhaseView /\ [Next]_vars
        => PhaseView'
<1>1. SUFFICES ASSUME TypeOK, TypeOK', GraphInv, GraphInv', OnePhase', ListedOnce, PhaseView, [Next]_vars
               PROVE  PhaseView'
  OBVIOUS
<1>2. ASSUME UNCHANGED <<tree, view>> PROVE PhaseView'
  BY <1>1, <1>2 DEF tree, view, PhaseView
<1>3. ASSUME NEW h \in Device, NEW geo, Quiet, UNCHANGED tree, members' = Refreshed({h}, geo),
             hidden' = Applied(h, hidden, members', selected'),
             \A g \in Host \ {h} : selected'[g] = selected[g]
      PROVE  PhaseView'
  BY <1>1, <1>3, SameTreeView, QuietStill
<1>4. CASE KeepParent
  BY <1>2, <1>4 DEF KeepParent
<1>5. CASE Reparent
  BY <1>1, <1>5, ReparentView
<1>6. CASE Export
  BY <1>1, <1>6, ExportView
<1>7. CASE Refresh
  BY <1>2, <1>7 DEF Refresh
<1>8. ASSUME NEW d \in Device, NEW x \in Places[d], Place(d, x) PROVE PhaseView'
  BY <1>1, <1>8, PlaceView
<1>9. ASSUME NEW d \in Device, DragStart(d) PROVE PhaseView'
  BY <1>2, <1>9 DEF DragStart
<1>10. ASSUME NEW d \in Device, NEW x \in Places[d], DragMove(d, x) PROVE PhaseView'
  BY <1>2, <1>10 DEF DragMove
<1>11. CASE DragEnd
  BY <1>1, <1>11, DragEndView
<1>12. ASSUME NEW d \in Device, ResizeStart(d) PROVE PhaseView'
  BY <1>2, <1>12 DEF ResizeStart
<1>13. ASSUME NEW d \in Complex, NEW r \in Shapes[d], ResizeMove(d, r) PROVE PhaseView'
  BY <1>2, <1>13 DEF ResizeMove
<1>14. CASE ResizeEnd
  <2>1. Quiet /\ UNCHANGED <<tree, selected>> /\ SceneNotify(gesture.dev) /\ gesture.kind = "resize"
    BY <1>14 DEF ResizeEnd
  <2>2. gesture.dev \in Device
    BY <1>1, <2>1 DEF GraphInv, Grip, TypeOK
  <2>3. QED
    BY <1>3, <2>1, <2>2 DEF SceneNotify
<1>15. ASSUME NEW d \in Complex, NEW step \in {-1, 1}, Restack(d, step) PROVE PhaseView'
  <2>1. Quiet /\ UNCHANGED <<tree, selected>> /\ SceneNotify(d) /\ d \in Device
    BY <1>15, DeviceAssumption DEF Restack, Idle
  <2>2. QED
    BY <1>3, <2>1 DEF SceneNotify
<1>16. ASSUME NEW h \in Host, NEW p \in Phase, SelectPhase(h, p) PROVE PhaseView'
  <2>1. /\ Quiet /\ UNCHANGED tree /\ selected' = [selected EXCEPT ![h] = p] /\ h \in Device
        /\ members' = Refreshed({h}, box) /\ hidden' = Applied(h, hidden, members', selected')
    BY <1>16, DeviceAssumption DEF SelectPhase, Idle
  <2>2. \A g \in Host \ {h} : selected'[g] = selected[g]
    BY <1>1, <2>1 DEF TypeOK
  <2>3. QED
    BY <1>3, <2>1, <2>2
<1>17. ASSUME NEW h \in Host, NEW p \in Phase, NEW i \in 0..Len(phases[h]), InsertPhase(h, i, p)
       PROVE  PhaseView'
  <2>1. /\ Quiet /\ UNCHANGED tree /\ selected' = [selected EXCEPT ![h] = p] /\ h \in Device
        /\ SceneNotify(h)
    BY <1>17, DeviceAssumption DEF InsertPhase, Idle
  <2>2. \A g \in Host \ {h} : selected'[g] = selected[g]
    BY <1>1, <2>1 DEF TypeOK
  <2>3. QED
    BY <1>3, <2>1, <2>2 DEF SceneNotify
<1>18. ASSUME NEW h \in Host, RemovePhase(h) PROVE PhaseView'
  BY <1>1, <1>18, RemovePhaseView
<1>19. ASSUME NEW d \in Device, Delete(d) PROVE PhaseView'
  BY <1>2, <1>19 DEF Delete
<1>20. CASE FellKid
  BY <1>2, <1>20 DEF FellKid
<1>21. CASE BeginUnregister
  BY <1>2, <1>21 DEF BeginUnregister
<1>22. ASSUME NEW k \in Device, Bequeath(k) PROVE PhaseView'
  BY <1>1, <1>22, BequeathView
<1>23. CASE Unregister
  BY <1>1, <1>23, UnregisterView
<1>24. CASE UNCHANGED vars
  BY <1>2, <1>24 DEF vars
<1>25. QED
  BY <1>1, <1>4, <1>5, <1>6, <1>7, <1>8, <1>9, <1>10, <1>11, <1>12, <1>13, <1>14, <1>15, <1>16,
     <1>17, <1>18, <1>19, <1>20, <1>21, <1>22, <1>23, <1>24
     DEF Next, Sweep, Cascade, Drag, Resize, Menu

LEMMA ListedOnceCorrect == Spec => []ListedOnce
<1>1. Init => ListedOnce
  <2>1. \A i, j \in DOMAIN <<First, Second>> : <<First, Second>>[i] = <<First, Second>>[j] => i = j
    BY PhaseAssumption
  <2>2. QED
    BY <2>1 DEF Init, ListedOnce
<1>2. QED
  BY <1>1, ListedOnceStep, TypeCorrect, PTL DEF Spec

\* What a Sequence contains is in a phase of it and shown exactly while that
\* phase is selected, through every move, hand-over, switch and delete, at every
\* step of a pass and of a cascade.
THEOREM PhaseViewCorrect == Spec => []PhaseView
<1>1. Init => PhaseView
  BY DeviceAssumption DEF Init, PhaseView
<1>2. QED
  BY <1>1, ViewStep, ListedOnceCorrect, OnePhaseCorrect, GraphCorrect, TypeCorrect, PTL DEF Spec

\* A handler that hands the graph a pass is not through when it returns.
LEMMA NotifyBusy ==
    ASSUME TypeOK', Notify PROVE ~ Quiet'
<1>1. order' \in Seq(Device) /\ sweep' = Append(order', None)
  BY DEF TypeOK, Notify
<1>2. sweep' # <<>>
  BY <1>1
<1>3. QED
  BY <1>2 DEF Quiet

LEMMA OneHostStep == TypeOK /\ TypeOK' /\ GraphInv /\ OneHost /\ [Next]_vars => OneHost'
<1>1. SUFFICES ASSUME TypeOK, TypeOK', GraphInv, OneHost, [Next]_vars PROVE OneHost'
  OBVIOUS
<1>2. ASSUME Quiet, UNCHANGED <<tree, nodes, members>> PROVE OneHost'
  BY <1>1, <1>2 DEF OneHost, tree
<1>3. ASSUME Notify PROVE OneHost'
  BY <1>1, <1>3, NotifyBusy DEF OneHost
<1>4. ASSUME doomed' # <<>> PROVE OneHost'
  BY <1>4 DEF OneHost, Quiet
<1>5. ASSUME sweep # <<>>, Head(sweep) # None, sweep' = Tail(sweep) PROVE OneHost'
  BY <1>1, <1>5, PassHead DEF GraphInv, OneHost, Quiet
<1>6. ASSUME leaving = None, UNCHANGED <<tree, nodes>>, NEW hs, NEW geo, members' = Refreshed(hs, geo)
      PROVE  \A h \in Host \cap hs : \A d \in Known(members'[h]) : parent'[d] \in {None, h}
  <2>1. \A g \in Host : \A d \in children[g] : parent[d] = g
    BY <1>1, <1>6, HostsAgree DEF GraphInv
  <2>2. parent' = parent /\ children' = children
    BY <1>6 DEF tree
  <2>3. \A g \in Host \cap hs : \A d \in Known(members'[g]) : d \in children'[g] \/ parent'[d] \in {None, g}
    BY <1>1, <1>6, RefreshedMembers
  <2>4. QED
    BY <2>1, <2>2, <2>3
<1>7. CASE KeepParent
  BY <1>5, <1>7 DEF KeepParent
<1>8. CASE Reparent
  BY <1>5, <1>8 DEF Reparent
<1>9. CASE Export
  <2>1. /\ sweep # <<>> /\ UNCHANGED <<tree, nodes>>
        /\ members' = Refreshed(nodes \cap Host, box)
    BY <1>9 DEF Export, stage
  <2>2. leaving = None
    BY <1>1, <2>1 DEF GraphInv, Pass
  <2>3. \A h \in Host \cap (nodes \cap Host) : \A d \in Known(members'[h]) : parent'[d] \in {None, h}
    BY <1>6, <2>1, <2>2
  <2>4. QED
    BY <2>1, <2>3 DEF OneHost
<1>10. CASE Refresh
  BY <1>3, <1>10 DEF Refresh
<1>11. ASSUME NEW d \in Device, NEW x \in Places[d], Place(d, x) PROVE OneHost'
  BY <1>3, <1>11 DEF Place
<1>12. ASSUME NEW d \in Device, DragStart(d) PROVE OneHost'
  BY <1>2, <1>12 DEF DragStart, Idle, stage, view
<1>13. ASSUME NEW d \in Device, NEW x \in Places[d], DragMove(d, x) PROVE OneHost'
  BY <1>2, <1>13 DEF DragMove, stage, view
<1>14. CASE DragEnd
  BY <1>3, <1>14 DEF DragEnd
<1>15. ASSUME NEW d \in Device, ResizeStart(d) PROVE OneHost'
  BY <1>2, <1>15 DEF ResizeStart, Idle, stage, view
<1>16. ASSUME NEW d \in Complex, NEW r \in Shapes[d], ResizeMove(d, r) PROVE OneHost'
  BY <1>2, <1>16 DEF ResizeMove, stage, view
<1>17. CASE ResizeEnd
  BY <1>3, <1>17 DEF ResizeEnd, SceneNotify
<1>18. ASSUME NEW d \in Complex, NEW step \in {-1, 1}, Restack(d, step) PROVE OneHost'
  BY <1>3, <1>18 DEF Restack, SceneNotify
<1>19. ASSUME NEW h \in Host, NEW p \in Phase, SelectPhase(h, p) PROVE OneHost'
  <2>1. Quiet /\ leaving = None /\ UNCHANGED <<tree, nodes>> /\ members' = Refreshed({h}, box)
    BY <1>1, <1>19, QuietStill DEF SelectPhase, Idle, stage
  <2>2. \A d \in Known(members'[h]) : parent'[d] \in {None, h}
    BY <1>6, <2>1
  <2>3. \A g \in Host \ {h} : members'[g] = members[g]
    BY <2>1 DEF Refreshed
  <2>4. QED
    BY <1>1, <2>1, <2>2, <2>3 DEF OneHost, tree
<1>20. ASSUME NEW h \in Host, NEW p \in Phase, NEW i \in 0..Len(phases[h]), InsertPhase(h, i, p)
       PROVE  OneHost'
  BY <1>3, <1>20 DEF InsertPhase, SceneNotify
<1>21. ASSUME NEW h \in Host, RemovePhase(h) PROVE OneHost'
  BY <1>3, <1>21 DEF RemovePhase
<1>22. ASSUME NEW d \in Device, Delete(d) PROVE OneHost'
  BY <1>4, <1>22 DEF Delete
<1>23. CASE FellKid
  <2> DEFINE DT == [dev : Device, kids : SUBSET Device]
             f(k) == [Head(doomed) EXCEPT !.kids = @ \ {k}]
  <2>1. PICK k \in Head(doomed).kids :
           doomed' = (IF k \in nodes THEN <<Doom(k)>> ELSE <<>>) \o <<f(k)>> \o Tail(doomed)
    BY <1>23 DEF FellKid
  <2>2. doomed \in Seq(DT) /\ doomed # <<>>
    BY <1>1, <1>23 DEF TypeOK, FellKid
  <2> HIDE DEF DT, f
  <2>3. Tail(doomed) \in Seq(DT)
    BY <2>2
  <2>4. CASE k \in nodes
    <3> DEFINE w == Doom(k)
    <3>1. doomed' = <<w>> \o <<f(k)>> \o Tail(doomed)
      BY <2>1, <2>4
    <3> HIDE DEF w
    <3>2. Len(doomed') = 2 + Len(Tail(doomed)) /\ Len(Tail(doomed)) \in Nat
      BY <2>3, <3>1
    <3>3. doomed' # <<>>
      BY <3>2
    <3>4. QED
      BY <1>4, <3>3
  <2>5. CASE k \notin nodes
    <3>1. doomed' = <<>> \o <<f(k)>> \o Tail(doomed)
      BY <2>1, <2>5
    <3>2. Len(doomed') = 1 + Len(Tail(doomed)) /\ Len(Tail(doomed)) \in Nat
      BY <2>3, <3>1
    <3>3. doomed' # <<>>
      BY <3>2
    <3>4. QED
      BY <1>4, <3>3
  <2>6. QED
    BY <2>4, <2>5
<1>24. CASE BeginUnregister
  BY <1>4, <1>24 DEF BeginUnregister
<1>25. ASSUME NEW k \in Device, Bequeath(k) PROVE OneHost'
  BY <1>1, <1>4, <1>25 DEF Bequeath, TypeOK
<1>26. CASE Unregister
  BY <1>3, <1>26 DEF Unregister
<1>27. CASE UNCHANGED vars
  <2>1. UNCHANGED <<nodes, tree, members, sweep, doomed>>
    BY <1>27 DEF vars, stage, view, fall
  <2>2. QED
    BY <1>1, <2>1 DEF OneHost, Quiet, tree
<1>28. QED
  BY <1>1, <1>7, <1>8, <1>9, <1>10, <1>11, <1>12, <1>13, <1>14, <1>15, <1>16, <1>17, <1>18,
     <1>19, <1>20, <1>21, <1>22, <1>23, <1>24, <1>25, <1>26, <1>27
     DEF Next, Sweep, Cascade, Drag, Resize, Menu

\* When the editor is at rest no phase holds what another container contains,
\* in whatever order the two learnt of it.
THEOREM OneHostCorrect == Spec => []OneHost
<1>1. Init => OneHost
  BY DEF Init, OneHost
<1>2. QED
  BY <1>1, OneHostStep, GraphCorrect, TypeCorrect, PTL DEF Spec
----------------------------------------------------------------------------
(* Conflicts and places.                                                   *)

Keeps(d) ==
    /\ marks[d] # {} /\ Marks(nodes, hidden, outer')[d] # {}
    /\ parent[d] # leaving \/ leaving = None
    => parent'[d] = parent[d]

LEMMA KeepsStep ==
    TypeOK /\ GraphInv /\ MirrorTrue /\ [Next]_vars => \A d \in nodes \cap nodes' : Keeps(d)
<1>1. SUFFICES ASSUME TypeOK, GraphInv, MirrorTrue, [Next]_vars, NEW d \in nodes \cap nodes' PROVE Keeps(d)
  OBVIOUS
<1>2. ASSUME UNCHANGED tree PROVE Keeps(d)
  BY <1>2 DEF tree, Keeps
<1>3. ASSUME NEW k \in Device, NEW p, parent' = [parent EXCEPT ![k] = p], k # d PROVE Keeps(d)
  <2>1. d \in Device
    BY <1>1 DEF TypeOK
  <2>2. QED
    BY <1>1, <1>3, <2>1 DEF TypeOK, Keeps
<1>4. CASE Reparent
  <2> DEFINE k == Head(sweep)
  <2>1. sweep # <<>> /\ k # None /\ marks[k] = {} /\ \E p : parent' = [parent EXCEPT ![k] = p]
    BY <1>4 DEF Reparent
  <2>2. k \in Device
    BY <1>1, <2>1, PassHead DEF GraphInv, TypeOK
  <2>3. CASE k = d
    BY <2>1, <2>3 DEF Keeps
  <2>4. CASE k # d
    BY <1>3, <2>1, <2>2, <2>4
  <2>5. QED
    BY <2>3, <2>4
<1>5. ASSUME NEW k \in Device, NEW x \in Places[k], Place(k, x) PROVE Keeps(d)
  <2>1. k \in fresh /\ \E p : parent' = [parent EXCEPT ![k] = p]
    BY <1>5 DEF Place
  <2>2. k # d
    BY <1>1, <2>1 DEF GraphInv, Registry
  <2>3. QED
    BY <1>3, <2>1, <2>2
<1>6. CASE DragEnd
  <2> DEFINE k == gesture.dev
             landed == [j \in Device |-> IF j \in gesture.cargo
                                         THEN Moved(j, box[k].x - gesture.from.x) ELSE box[j]]
             geo == [j \in Device |-> IF j \in gesture.cargo \cup {k} THEN landed[j] ELSE outer[j]]
  <2>1. gesture.kind = "drag" /\ box' = landed /\ Notify
    BY <1>6 DEF DragEnd
  <2>2. PICK p : /\ parent' = [parent EXCEPT ![k] = p]
                 /\ Marks(nodes, hidden, geo)[k] # {} => p = parent[k]
    BY <1>6 DEF DragEnd
  <2>3. k \in Device /\ d \in Device
    BY <1>1, <2>1 DEF GraphInv, Grip, TypeOK
  <2>4. \A j \in nodes : geo[j] = outer'[j]
    <3>1. \A j \in nodes : j \in Device /\ outer[j] = box[j]
      BY <1>1, <2>1 DEF MirrorTrue, TypeOK
    <3>2. outer' = landed
      BY <2>1 DEF Notify
    <3>3. QED
      BY <3>1, <3>2
  <2> HIDE DEF geo, landed
  <2>5. CASE k = d
    <3>1. Marks(nodes, hidden, outer')[k] = Marks(nodes, hidden, geo)[k]
      <4>1. \A e \in nodes : Clash(k, e, geo) <=> Clash(k, e, outer')
        BY <1>1, <2>4, <2>5 DEF Clash
      <4>2. QED
        BY <1>1, <2>3, <4>1 DEF Marks
    <3>2. QED
      BY <1>1, <2>2, <2>3, <2>5, <3>1 DEF Keeps, TypeOK
  <2>6. CASE k # d
    BY <1>3, <2>2, <2>3, <2>6
  <2>7. QED
    BY <2>5, <2>6
<1>7. ASSUME NEW k \in Device, Bequeath(k) PROVE Keeps(d)
  <2>1. leaving # None /\ k \in heirs /\ \E p : parent' = [parent EXCEPT ![k] = p]
    BY <1>7 DEF Bequeath
  <2>2. parent[k] = leaving
    BY <1>1, <1>7, <2>1 DEF GraphInv, Heirs, LinksAgree, TypeOK
  <2>3. CASE k = d
    BY <2>1, <2>2, <2>3 DEF Keeps
  <2>4. CASE k # d
    BY <1>3, <2>1, <2>4
  <2>5. QED
    BY <2>3, <2>4
<1>8. CASE Unregister
  <2>1. leaving \in Device /\ leaving # d /\ parent' = [parent EXCEPT ![leaving] = None]
    BY <1>1, <1>8 DEF Unregister, TypeOK
  <2>2. QED
    BY <1>3, <2>1
<1>9. CASE KeepParent \/ Export \/ Refresh
  BY <1>2, <1>9 DEF KeepParent, Export, Refresh
<1>10. CASE FellKid \/ BeginUnregister
  BY <1>2, <1>10 DEF FellKid, BeginUnregister
<1>11. ASSUME NEW k \in Device, DragStart(k) \/ \E x \in Places[k] : DragMove(k, x) PROVE Keeps(d)
  BY <1>2, <1>11 DEF DragStart, DragMove
<1>12. CASE Resize
  BY <1>2, <1>12 DEF Resize, ResizeStart, ResizeMove, ResizeEnd
<1>13. CASE Menu
  BY <1>2, <1>13 DEF Menu, Restack, SelectPhase, InsertPhase, RemovePhase, Delete
<1>14. CASE UNCHANGED vars
  BY <1>2, <1>14 DEF vars
<1>15. QED
  BY <1>1, <1>4, <1>5, <1>6, <1>7, <1>8, <1>9, <1>10, <1>11, <1>12, <1>13, <1>14
     DEF Next, Sweep, Cascade, Drag

\* A device that is in conflict, and still is where a step leaves things, keeps
\* its parent: no pass, drop or placement moves it to another container.
THEOREM ConflictedCorrect == Spec => ConflictedKeepsParent
<1>1. TypeOK /\ GraphInv /\ MirrorTrue /\ [Next]_vars =>
        [\A d \in nodes \cap nodes' :
            /\ marks[d] # {} /\ Marks(nodes, hidden, outer')[d] # {}
            /\ parent[d] # leaving \/ leaving = None
            => parent'[d] = parent[d]]_vars
  BY KeepsStep DEF Keeps
<1>2. QED
  BY <1>1, TypeCorrect, GraphCorrect, MirrorCorrect, PTL DEF Spec, ConflictedKeepsParent

Awaits(d) == \E i \in DOMAIN sweep : sweep[i] = d

\* A clean device whose turn is over lies in its parent.
Swept ==
    sweep # <<>> => \A d \in nodes :
        ~ Awaits(d) /\ (\A e \in nodes \ {d} : ~ Clash(d, e, outer)) =>
            parent[d] = None \/ Holds(parent[d], d)

\* The turn of the head is over when the head is cut off.
LEMMA AwaitsTail ==
    ASSUME TypeOK, sweep # <<>>, sweep' = Tail(sweep), NEW d, ~ Awaits(d)'
    PROVE  ~ Awaits(d) \/ d = Head(sweep)
<1>1. sweep \in Seq(Device \cup {None}) /\ Len(sweep) \in Nat /\ Len(sweep) >= 1
  BY DEF TypeOK
<1>2. ASSUME NEW i \in DOMAIN sweep, sweep[i] = d PROVE d = Head(sweep)
  <2>1. i = 1 \/ (i - 1 \in 1..Len(Tail(sweep)) /\ Tail(sweep)[i - 1] = sweep[i])
    BY <1>1
  <2>2. i - 1 \in 1..Len(Tail(sweep)) => i - 1 \in DOMAIN Tail(sweep)
    BY <1>1
  <2>3. i = 1
    BY <1>2, <2>1, <2>2 DEF Awaits
  <2>4. QED
    BY <1>1, <1>2, <2>3
<1>3. QED
  BY <1>2 DEF Awaits

LEMMA ExportAwaits ==
    ASSUME TypeOK, sweep = <<None>> PROVE sweep # <<>> /\ \A d \in nodes : ~ Awaits(d)
<1>1. DOMAIN sweep = {1} /\ sweep[1] = None /\ Len(sweep) = 1
  OBVIOUS
<1>2. sweep # <<>>
  BY <1>1
<1>3. None \notin nodes
  BY DeviceAssumption DEF TypeOK
<1>4. QED
  BY <1>1, <1>2, <1>3 DEF Awaits

\* A pass that has just begun awaits every registered device.
LEMMA NotifyAwaits ==
    ASSUME TypeOK', Registry', Notify
    PROVE  \A d \in nodes' : Awaits(d)'
<1>1. SUFFICES ASSUME NEW d \in nodes' PROVE Awaits(d)'
  OBVIOUS
<1>2. PICK i \in DOMAIN order' : order'[i] = d
  BY DEF Registry
<1>3. order' \in Seq(Device) /\ sweep' = Append(order', None)
  BY DEF TypeOK, Notify
<1>4. i \in DOMAIN sweep' /\ sweep'[i] = d
  BY <1>2, <1>3
<1>5. QED
  BY <1>4 DEF Awaits

\* The steps that are not of the pass leave none behind them, or a new one.
LEMMA OutsidePass ==
    ASSUME TypeOK, GraphInv, [Next]_vars, sweep' # <<>>
    PROVE  \/ KeepParent
           \/ Reparent
           \/ Notify
           \/ UNCHANGED vars
<1>1. sweep = <<>> /\ UNCHANGED sweep => FALSE
  OBVIOUS
<1>2. CASE Sweep
  BY <1>2 DEF Sweep, Export
<1>3. CASE Cascade
  <2>1. ASSUME NEW k \in Device, Bequeath(k) PROVE FALSE
    BY <1>1, <2>1 DEF Bequeath, GraphInv, Pass
  <2>2. QED
    BY <1>1, <1>3, <2>1 DEF Cascade, FellKid, BeginUnregister, Unregister
<1>4. CASE Refresh \/ \E d \in Device : \E x \in Places[d] : Place(d, x)
  BY <1>4 DEF Refresh, Place
<1>5. CASE Drag
  BY <1>1, <1>5 DEF Drag, DragStart, DragMove, DragEnd, Idle, Quiet
<1>6. CASE Resize
  BY <1>1, <1>6 DEF Resize, ResizeStart, ResizeMove, ResizeEnd, SceneNotify, Idle, Quiet
<1>7. CASE Menu
  BY <1>1, <1>7 DEF Menu, Restack, SelectPhase, InsertPhase, RemovePhase, Delete, SceneNotify, Idle, Quiet
<1>8. QED
  BY <1>2, <1>3, <1>4, <1>5, <1>6, <1>7 DEF Next

\* What the two steps of a pass have in common.
LEMMA PassStep ==
    ASSUME TypeOK, GraphInv, KeepParent \/ Reparent
    PROVE  /\ sweep # <<>> /\ sweep' = Tail(sweep) /\ Head(sweep) \in nodes
           /\ UNCHANGED <<nodes, outer, zorder>>
           /\ \A d \in nodes \ {Head(sweep)} : parent'[d] = parent[d]
           /\ marks[Head(sweep)] = {} =>
                 parent'[Head(sweep)] \in BestParents(Head(sweep), nodes, hidden, outer, zorder)
<1> DEFINE k == Head(sweep)
<1>1. sweep # <<>> /\ sweep' = Tail(sweep) /\ k # None
  BY DEF KeepParent, Reparent
<1>2. k \in nodes /\ k \in Device /\ nodes \subseteq Device
  BY <1>1, PassHead DEF GraphInv, TypeOK
<1>3. CASE KeepParent
  <2>1. UNCHANGED <<nodes, outer, zorder, parent>>
    BY <1>3 DEF KeepParent, stage, tree
  <2>2. marks[k] # {} \/ parent[k] \in BestParents(k, nodes, hidden, outer, zorder)
    BY <1>3 DEF KeepParent
  <2>3. QED
    BY <1>1, <1>2, <2>1, <2>2
<1>4. CASE Reparent
  <2>1. UNCHANGED <<nodes, outer, zorder>>
    BY <1>4 DEF Reparent, stage
  <2>2. PICK p \in BestParents(k, nodes, hidden, outer, zorder) : parent' = [parent EXCEPT ![k] = p]
    BY <1>4 DEF Reparent
  <2>3. \A d \in Device : parent'[d] = IF d = k THEN p ELSE parent[d]
    BY <2>2 DEF TypeOK
  <2>4. QED
    BY <1>1, <1>2, <2>1, <2>2, <2>3
<1>5. QED
  BY <1>3, <1>4

LEMMA SweptStep ==
    TypeOK /\ TypeOK' /\ GraphInv /\ GraphInv' /\ MarksFresh /\ Swept /\ [Next]_vars => Swept'
<1>1. SUFFICES ASSUME TypeOK, TypeOK', GraphInv, GraphInv', MarksFresh, Swept, [Next]_vars, sweep' # <<>>
               PROVE  Swept'
  BY DEF Swept
<1>2. CASE KeepParent \/ Reparent
  <2> DEFINE k == Head(sweep)
  <2>1. /\ sweep # <<>> /\ sweep' = Tail(sweep) /\ k \in nodes
        /\ UNCHANGED <<nodes, outer, zorder>>
        /\ \A d \in nodes \ {k} : parent'[d] = parent[d]
        /\ marks[k] = {} => parent'[k] \in BestParents(k, nodes, hidden, outer, zorder)
    BY <1>1, <1>2, PassStep
  <2>2. ASSUME NEW d \in nodes, ~ Awaits(d)', \A e \in nodes \ {d} : ~ Clash(d, e, outer)
        PROVE  parent'[d] = None \/ Holds(parent'[d], d)
    <3>1. CASE d = k
      <4>1. marks[k] = {}
        BY <1>1, <2>1, <2>2, <3>1 DEF MarksFresh, Marks, TypeOK
      <4>2. parent'[k] = None \/ parent'[k] \in Holders(k, nodes, hidden, outer, zorder)
        BY <2>1, <4>1, BestParent
      <4>3. QED
        BY <3>1, <4>2 DEF Holders, Holds
    <3>2. CASE d # k
      <4>1. ~ Awaits(d)
        BY <1>1, <2>1, <2>2, <3>2, AwaitsTail
      <4>2. parent[d] = None \/ Holds(parent[d], d)
        BY <1>1, <2>1, <2>2, <4>1 DEF Swept
      <4>3. QED
        BY <2>1, <3>2, <4>2
    <3>3. QED
      BY <3>1, <3>2
  <2>3. \A c, d : Holds(c, d)' <=> Holds(c, d)
    BY <2>1 DEF Holds
  <2>4. QED
    BY <2>1, <2>2, <2>3 DEF Swept, Holds
<1>3. CASE Notify
  BY <1>1, <1>3, NotifyAwaits DEF GraphInv, Swept
<1>4. CASE UNCHANGED vars
  BY <1>1, <1>4 DEF vars, stage, tree, Swept, Awaits, Holds
<1>5. QED
  BY <1>1, <1>2, <1>3, <1>4, OutsidePass

\* When a pass is through, no clean device is left in a container that it does
\* not lie in, whatever the renewals of the pass hid and showed.
THEOREM LiesCorrect == Spec => []LiesInParent
<1>1. Init => Swept
  BY DEF Init, Swept
<1>2. TypeOK /\ Swept => LiesInParent
  BY ExportAwaits DEF Swept, LiesInParent
<1>3. QED
  BY <1>1, <1>2, SweptStep, TypeCorrect, GraphCorrect, MarksCorrect, PTL DEF Spec

\* A device whose turn is over and that is clean has its best parent.
Sorted ==
    sweep # <<>> => \A d \in nodes :
        ~ Awaits(d) /\ marks[d] = {} => parent[d] \in BestParents(d, nodes, hidden, outer, zorder)

LEMMA SortedStep ==
    ASSUME Host = {}
    PROVE  TypeOK /\ TypeOK' /\ GraphInv /\ GraphInv' /\ MarksFresh /\ MarksFresh' /\ Sorted /\ [Next]_vars
              => Sorted'
<1>1. SUFFICES ASSUME TypeOK, TypeOK', GraphInv, GraphInv', MarksFresh, MarksFresh', Sorted,
                      [Next]_vars, sweep' # <<>>
               PROVE  Sorted'
  BY DEF Sorted
<1>2. CASE KeepParent \/ Reparent
  <2> DEFINE k == Head(sweep)
  <2>1. /\ sweep # <<>> /\ sweep' = Tail(sweep) /\ k \in nodes
        /\ UNCHANGED <<nodes, outer, zorder>>
        /\ \A d \in nodes \ {k} : parent'[d] = parent[d]
        /\ marks[k] = {} => parent'[k] \in BestParents(k, nodes, hidden, outer, zorder)
    BY <1>1, <1>2, PassStep
  <2>2. hidden' = hidden
    BY <1>2 DEF KeepParent, Reparent, view, Applied
  <2>3. marks' = marks
    BY <1>1, <2>1, <2>2 DEF MarksFresh
  <2>4. ASSUME NEW d \in nodes, ~ Awaits(d)', marks[d] = {}
        PROVE  parent'[d] \in BestParents(d, nodes, hidden, outer, zorder)
    <3>1. CASE d = k
      BY <2>1, <2>4, <3>1
    <3>2. CASE d # k
      <4>1. ~ Awaits(d)
        BY <1>1, <2>1, <2>4, <3>2, AwaitsTail
      <4>2. QED
        BY <1>1, <2>1, <2>4, <3>2, <4>1 DEF Sorted
    <3>3. QED
      BY <3>1, <3>2
  <2>5. QED
    BY <2>1, <2>2, <2>3, <2>4 DEF Sorted
<1>3. CASE Notify
  BY <1>1, <1>3, NotifyAwaits DEF GraphInv, Sorted
<1>4. CASE UNCHANGED vars
  BY <1>1, <1>4 DEF vars, stage, tree, view, Sorted, Awaits
<1>5. QED
  BY <1>1, <1>2, <1>3, <1>4, OutsidePass

\* Without Sequences a pass does what it says: when it is through, every clean
\* device is in the smallest container that holds it.
THEOREM SettledCorrect == ASSUME Host = {} PROVE Spec => []Settled
<1>1. Init => Sorted
  BY DEF Init, Sorted
<1>2. TypeOK /\ Sorted => Settled
  BY ExportAwaits DEF Sorted, Settled
<1>3. TypeOK /\ TypeOK' /\ GraphInv /\ GraphInv' /\ MarksFresh /\ MarksFresh' /\ Sorted /\ [Next]_vars
         => Sorted'
  BY SortedStep
<1>4. QED
  BY <1>1, <1>2, <1>3, TypeCorrect, GraphCorrect, MarksCorrect, PTL DEF Spec

----------------------------------------------------------------------------
(* Resizing.                                                               *)

\* Whatever the sizes, the limits measured at the start and what happened in
\* between, the end of a resize keeps the measured content in.
THEOREM ContentCorrect == Spec => ContentKept
<1> DEFINE d == gesture.dev
           ceiling == gesture.ceiling
           Kept == \A k \in children[d] :
                     ContainsRect(gesture.floor, box[k]) /\ ContainsRect(Inner(gesture.from), box[k])
                         => ContainsRect(Inner(box'[d]), box[k])
           Started == gesture.floor # NoRect
                        /\ (ceiling # NoRect => ContainsRect(ceiling, gesture.from))
<1>1. ASSUME TypeOK, ResizeEnd, Started PROVE Kept
  <2>1. /\ d \in Device /\ gesture.from \in Rect /\ gesture.floor \in Rect
        /\ ceiling \in Rect \cup {NoRect}
    BY <1>1 DEF TypeOK, ResizeEnd, GestureType, NoGesture
  <2>2. box'[d] = Resized(box[d], gesture.floor, ceiling)
    BY <1>1, <2>1 DEF TypeOK, ResizeEnd
  <2>3. \A k \in children[d] : box[k] \in Rect
    BY <1>1, <2>1 DEF TypeOK
  <2>4. box[d] \in Rect
    BY <1>1, <2>1 DEF TypeOK
  <2>5. QED
    BY <1>1, <2>1, <2>2, <2>3, <2>4, ResizedKeeps
<1>2. TypeOK /\ [Next]_vars => [ResizeEnd /\ Started => Kept]_vars
  BY <1>1
<1>3. QED
  BY <1>2, TypeCorrect, PTL DEF Spec, ContentKept
=============================================================================
