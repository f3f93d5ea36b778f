----------------------------- MODULE SceneGraph -----------------------------
(***************************************************************************)
(* The stage of the editor: which device lies in which container           *)
(* (scenegraph/graph.go), which of them the phases of a Sequence hide      *)
(* (devices/compFlow/phaseEngine.go, statementSequence.go, util.go), and   *)
(* the gestures that change both.                                          *)
(*                                                                         *)
(* The editor runs in one thread, so a gesture's handler is one action.    *)
(* Two loops call back into the graph while they run and are cut into      *)
(* steps: the re-parenting pass of RefreshAll (sweep) and the cascade of a *)
(* delete (doomed, leaving).  Between the steps of a drag or of a resize   *)
(* the rest of the editor runs, and may ask for a RefreshAll.              *)
(***************************************************************************)
EXTENDS Geometry, FiniteSets, Sequences

CONSTANTS
    Device,
    Complex,     \* the devices that may contain others
    Host,        \* the Sequences: Complex devices with phases
    Phase,       \* identities of phases
    First, Second,\* the two phases a new Sequence starts with
    None,
    Corner,      \* where a device registers, before it is moved to its place
    Width,       \* the width each device starts with
    Places,      \* where each device may be put: a bound on the stage
    Shapes,      \* the rectangles each container may be pulled to: a bound
    Limit        \* no gesture moves a device past [-Limit, Limit]: a bound

ASSUME DeviceAssumption ==
    /\ Complex \subseteq Device
    /\ Host \subseteq Complex
    /\ None \notin Device
    /\ IsFiniteSet(Device)

ASSUME PhaseAssumption == First \in Phase /\ Second \in Phase /\ First # Second

ASSUME StageAssumption ==
    /\ Corner \in Int
    /\ Limit \in Int
    /\ Width \in [Device -> Int]
    /\ \A d \in Device : Places[d] \subseteq Int /\ Shapes[d] \subseteq Rect

VARIABLES
    fresh,       \* devices not placed yet; the identity of a device is never reused
    nodes,       \* Graph.nodes: the registered devices
    order,       \* Graph.order: the same, in order of registration
    box,         \* where each device is on the screen
    outer,       \* Node.Outer: where the graph believes it is
    parent,      \* Node.ParentID
    children,    \* Node.ChildrenIDs
    marks,       \* Node.lastNotifiedConflicts: the peers it is marked against
    hidden,      \* Node.hidden, which the sprite and the wires share
    zorder,      \* BackendZRegistry.entries, bottom to top
    phases,      \* phaseEngine.entries, in run order
    members,     \* phaseEntry.ids
    selected,    \* phaseEngine.selected
    gesture,     \* the drag or the resize under way
    sweep,       \* what is left of RefreshAll's re-parenting pass
    doomed,      \* makeOnRemove's calls under way, innermost first
    leaving,     \* the device whose children Unregister hands on ...
    heirs        \* ... and those it has not handed on yet

tree == <<parent, children>>
view == <<phases, members, selected, hidden>>
fall == <<doomed, leaving, heirs>>
stage == <<fresh, nodes, order>>
vars == <<stage, box, outer, tree, marks, view, zorder, gesture, sweep, fall>>

NoGesture == [kind |-> "none", dev |-> None, from |-> [x |-> 0, w |-> 0],
              cargo |-> {}, floor |-> NoRect, ceiling |-> NoRect]

\* The box of a device whose element does not exist.
Nowhere == [x |-> 0, w |-> 0]

----------------------------------------------------------------------------
(* The rules of the graph.  geo is the geometry they read.                 *)

\* classifyPair: neither apart, nor one inside the other.
Clash(a, b, geo) ==
    /\ IntersectsRect(geo[a], geo[b])
    /\ ~ (b \in Complex /\ ContainsRect(Inner(geo[b]), geo[a]))
    /\ ~ (a \in Complex /\ ContainsRect(Inner(geo[a]), geo[b]))

\* findConflicts for every device.  A hidden device is no candidate.
Marks(reg, hid, geo) ==
    [d \in Device |-> {e \in reg \ {d} : d \in reg /\ ~ hid[d] /\ ~ hid[e]
                                           /\ Clash(d, e, geo)}]

Position(z, d) == CHOOSE i \in DOMAIN z : z[i] = d

Cut(z, i) == SubSeq(z, 1, i - 1) \o SubSeq(z, i + 1, Len(z))

Without(z, d) == IF \E i \in DOMAIN z : z[i] = d THEN Cut(z, Position(z, d)) ELSE z

\* The stacking law: a container may hold only what is stacked above it.
StackingOK(c, d, z) ==
    (\E i, j \in DOMAIN z : z[i] = c /\ z[j] = d) => Position(z, c) < Position(z, d)

Holders(d, reg, hid, geo, z) ==
    {c \in (reg \cap Complex) \ {d} :
        /\ ~ hid[c]
        /\ StackingOK(c, d, z)
        /\ ContainsRect(Inner(geo[c]), geo[d])}

\* findParentZ: the smallest container that holds d.  The candidates come out
\* of a map, so of two equals either may be met first.
BestParents(d, reg, hid, geo, z) ==
    LET hs == Holders(d, reg, hid, geo, z)
    IN IF hs = {} THEN {None}
       ELSE {c \in hs : \A e \in hs : Area(Inner(geo[c])) <= Area(Inner(geo[e]))}

\* Mutant: the old parent keeps the child.
RelinkedTwice(d, p) == [c \in Device |-> IF c = p THEN children[c] \cup {d} ELSE children[c]]

\* removeChild on the old parent and appendChild on the new one, if it is there.
Relinked(d, p) ==
    [c \in Device |-> IF c = p /\ c \in nodes THEN children[c] \cup {d}
                      ELSE IF c = parent[d] THEN children[c] \ {d}
                      ELSE children[c]]

\* flattenDescendants: the least set that holds the children of d and of its
\* own elements.
Descendants(d) ==
    LET closed == {S \in SUBSET Device : children[d] \subseteq S
                                           /\ \A k \in S : children[k] \subseteq S}
    IN {e \in Device : \A S \in closed : e \in S}

----------------------------------------------------------------------------
(* The phases of a Sequence.                                               *)

Inside(h, d, geo) == ContainsRect(Inner(geo[h]), geo[d])

Known(ms) == UNION {ms[p] : p \in Phase}

\* Mutant: a device that another phase holds is adopted again.
MaintainedTwice(h, ms, sel, reg, par, kids, geo) ==
    LET strays == {d \in reg \ {h} : par[d] = None /\ Inside(h, d, geo)}
        Keep(d) == \/ d \in kids[h]
                   \/ d \in reg /\ par[d] \in {None, h} /\ Inside(h, d, geo)
    IN [p \in Phase |-> {d \in IF p = sel THEN ms[p] \cup kids[h] \cup strays ELSE ms[p] : Keep(d)}]

\* Mutant: what lies in the host stays its member, whoever contains it.
MaintainedByPlace(h, ms, sel, reg, par, kids, geo) ==
    LET strays == {d \in reg \ {h} : par[d] = None /\ Inside(h, d, geo)}
        adopted == (kids[h] \cup strays) \ Known(ms)
        Keep(d) == d \in kids[h] \/ (d \in reg /\ Inside(h, d, geo))
    IN [p \in Phase |-> {d \in IF p = sel THEN ms[p] \cup adopted ELSE ms[p] : Keep(d)}]

\* maintainCaseMembership: adopt what the host contains and what lies in it
\* without a parent, then drop what is really gone.  sel is None while the
\* selected phase is the one just removed.
Maintained(h, ms, sel, reg, par, kids, geo) ==
    LET strays == {d \in reg \ {h} : par[d] = None /\ Inside(h, d, geo)}
        adopted == (kids[h] \cup strays) \ Known(ms)
        Keep(d) == \/ d \in kids[h]
                   \/ d \in reg /\ par[d] \in {None, h} /\ Inside(h, d, geo)
    IN [p \in Phase |-> {d \in IF p = sel THEN ms[p] \cup adopted ELSE ms[p] : Keep(d)}]

\* applyVisibility: the members of the selected phase are shown, the other
\* members are hidden, and nobody else is touched.
Shown(hid, ms, sel) ==
    [d \in Device |-> CASE d \in ms[sel] -> FALSE
                        [] d \notin ms[sel] /\ d \in Known(ms) -> TRUE
                        [] OTHER -> hid[d]]

\* RefreshMembership of the hosts hs.  The action gives parent', children'
\* and nodes' first; geo is where the devices are when it happens.
Refreshed(hs, geo) ==
    [h \in Host |-> IF h \in hs
                    THEN Maintained(h, members[h], selected[h], nodes', parent', children', geo)
                    ELSE members[h]]

\* ... and what they show, one after another.
Applied(h, hid, mem, sel) == IF h \in Host THEN Shown(hid, mem[h], sel[h]) ELSE hid

----------------------------------------------------------------------------
Init ==
    /\ fresh = Device
    /\ nodes = {}
    /\ order = <<>>
    /\ box = [d \in Device |-> Nowhere]
    /\ outer = [d \in Device |-> Nowhere]
    /\ parent = [d \in Device |-> None]
    /\ children = [d \in Device |-> {}]
    /\ marks = [d \in Device |-> {}]
    /\ hidden = [d \in Device |-> FALSE]
    /\ zorder = <<>>
    /\ phases = [h \in Host |-> <<First, Second>>]
    /\ members = [h \in Host |-> [p \in Phase |-> {}]]
    /\ selected = [h \in Host |-> First]
    /\ gesture = NoGesture
    /\ sweep = <<>>
    /\ doomed = <<>>
    /\ leaving = None
    /\ heirs = {}

\* No handler is running; a gesture may be under way.
Quiet == sweep = <<>> /\ doomed = <<>>

Idle == Quiet /\ gesture = NoGesture

\* A pointer reaches only what is shown.
Touchable(d) == d \in nodes /\ ~ hidden[d]

\* NotifyChange calls RefreshAll, which reads every device's geometry and
\* renews every mark before its re-parenting pass starts; the export that
\* follows the pass is the None at its end.
Notify ==
    /\ outer' = box'
    /\ marks' = Marks(nodes', hidden', outer')
    /\ sweep' = Append(order', None)

----------------------------------------------------------------------------
(* The re-parenting pass of RefreshAll, one device at a time.              *)

\* Mutant: a device that has a parent keeps it.
KeepParentOnceFound ==
    /\ sweep # <<>>
    /\ Head(sweep) # None
    /\ \/ marks[Head(sweep)] # {} \/ parent[Head(sweep)] # None
       \/ parent[Head(sweep)] \in BestParents(Head(sweep), nodes, hidden, outer, zorder)
    /\ sweep' = Tail(sweep)
    /\ UNCHANGED <<stage, box, outer, tree, marks, view, zorder, gesture, fall>>

KeepParent ==
    /\ sweep # <<>>
    /\ Head(sweep) # None
    /\ \/ marks[Head(sweep)] # {}
       \/ parent[Head(sweep)] \in BestParents(Head(sweep), nodes, hidden, outer, zorder)
    /\ sweep' = Tail(sweep)
    /\ UNCHANGED <<stage, box, outer, tree, marks, view, zorder, gesture, fall>>

\* Mutant: the pass does not look at the conflicts.
ReparentAnyway ==
    LET d == Head(sweep) IN
    /\ sweep # <<>>
    /\ d # None
    /\ \E p \in BestParents(d, nodes, hidden, outer, zorder) \ {parent[d]} :
        /\ parent' = [parent EXCEPT ![d] = p]
        /\ children' = Relinked(d, p)
        /\ UNCHANGED <<stage, phases, selected>>
        /\ members' = Refreshed({parent[d], p}, box)
        /\ hidden' = Applied(p, Applied(parent[d], hidden, members', selected), members', selected)
    /\ marks' = Marks(nodes, hidden', outer)
    /\ sweep' = Tail(sweep)
    /\ UNCHANGED <<box, outer, zorder, gesture, fall>>

\* A clean device moves to its best container, and the containers it leaves
\* and enters renew their phases (the observer's OnParentChanged).
Reparent ==
    LET d == Head(sweep) IN
    /\ sweep # <<>>
    /\ d # None
    /\ marks[d] = {}
    /\ \E p \in BestParents(d, nodes, hidden, outer, zorder) \ {parent[d]} :
        /\ parent' = [parent EXCEPT ![d] = p]
        /\ children' = Relinked(d, p)
        /\ UNCHANGED <<stage, phases, selected>>
        /\ members' = Refreshed({parent[d], p}, box)
        /\ hidden' = Applied(p, Applied(parent[d], hidden, members', selected), members', selected)
    /\ marks' = Marks(nodes, hidden', outer)
    /\ sweep' = Tail(sweep)
    /\ UNCHANGED <<box, outer, zorder, gesture, fall>>

\* Export reads each device's properties, and a Sequence renews its members
\* (not what is shown) before it answers.
Export ==
    /\ sweep = <<None>>
    /\ sweep' = <<>>
    /\ UNCHANGED <<stage, box, outer, tree, marks, phases, selected, hidden, zorder, gesture, fall>>
    /\ members' = Refreshed(nodes \cap Host, box)

\* Camera moves, wires, and the pass 300 ms after a placement notify at any
\* time, in the middle of a gesture too.
Refresh ==
    /\ Quiet
    /\ UNCHANGED <<stage, box, tree, view, zorder, gesture, fall>>
    /\ Notify

----------------------------------------------------------------------------
(* Placing a device, and its gestures.                                     *)

At(d, x) == [x |-> x, w |-> Width[d]]

\* CreateXxx of the factory: the device registers at the corner, where the
\* graph gives it a parent, and is moved to the point of the click after it.
Place(d, x) ==
    /\ Idle
    /\ d \in fresh
    /\ fresh' = fresh \ {d}
    /\ nodes' = nodes \cup {d}
    /\ order' = Append(order, d)
    /\ zorder' = IF d \in Complex THEN Append(zorder, d) ELSE zorder
    /\ UNCHANGED <<phases, selected, gesture, fall>>
    /\ \E p \in BestParents(d, nodes', hidden, [outer EXCEPT ![d] = At(d, Corner)], zorder') :
        /\ parent' = [parent EXCEPT ![d] = p]
        /\ children' = Relinked(d, p)
        /\ members' = Refreshed({p}, [box EXCEPT ![d] = At(d, Corner)])
        /\ hidden' = Applied(p, hidden, members', selected)
    /\ box' = [box EXCEPT ![d] = At(d, x)]
    /\ Notify

\* BeginDrag: a container takes along what it contains now.
DragStart(d) ==
    /\ Idle
    /\ Touchable(d)
    /\ gesture' = [NoGesture EXCEPT !.kind = "drag", !.dev = d, !.from = box[d],
                                   !.cargo = IF d \in Complex THEN Descendants(d) ELSE {}]
    /\ UNCHANGED <<stage, box, outer, tree, marks, view, zorder, sweep, fall>>

Moved(k, dx) == [box[k] EXCEPT !.x = @ + dx]

InReach(d, x) ==
    \A k \in gesture.cargo : box[k].x + x - gesture.from.x \in (-Limit)..Limit

\* Mutant: the graph does not hear of a container's frames.
DragMoveUnseen(d, x) ==
    /\ Quiet
    /\ gesture.kind = "drag"
    /\ gesture.dev = d
    /\ x # box[d].x
    /\ InReach(d, x)
    /\ box' = [box EXCEPT ![d].x = x]
    /\ UNCHANGED <<stage, tree, view, zorder, gesture, fall>>
    /\ IF d \in Complex THEN UNCHANGED <<outer, marks, sweep>> ELSE Notify

\* A frame of a drag.  A container has the graph renew the marks (UpdateDrag);
\* a simple device notifies the whole scene.
DragMove(d, x) ==
    /\ Quiet
    /\ gesture.kind = "drag"
    /\ gesture.dev = d
    /\ x # box[d].x
    /\ InReach(d, x)
    /\ box' = [box EXCEPT ![d].x = x]
    /\ UNCHANGED <<stage, tree, view, zorder, gesture, fall>>
    /\ \/ /\ d \in Complex
          /\ outer' = [outer EXCEPT ![d] = box'[d]]
          /\ marks' = Marks(nodes, hidden, outer')
          /\ UNCHANGED sweep
       \/ /\ d \notin Complex
          /\ Notify

\* EndDrag moves the cargo and, if the device is clean where it landed, gives
\* it a new parent; then a Sequence renews its phases, and all notify.
DragEnd ==
    LET d == gesture.dev
        landed == [k \in Device |-> IF k \in gesture.cargo
                                    THEN Moved(k, box[d].x - gesture.from.x) ELSE box[k]]
        geo == [k \in Device |-> IF k \in gesture.cargo \cup {d} THEN landed[k] ELSE outer[k]]
    IN /\ Quiet
       /\ gesture.kind = "drag"
       /\ box' = landed
       /\ UNCHANGED <<stage, phases, selected, zorder, fall>>
       /\ \E p \in IF Marks(nodes, hidden, geo)[d] = {}
                   THEN BestParents(d, nodes, hidden, geo, zorder) ELSE {parent[d]} :
           LET told == IF p = parent[d] THEN <<None, None>> ELSE <<parent[d], p>>
           IN /\ parent' = [parent EXCEPT ![d] = p]
              /\ children' = Relinked(d, p)
              /\ members' = Refreshed({told[1], told[2], d}, landed)
              /\ hidden' = Applied(d, Applied(told[2], Applied(told[1],
                              hidden, members', selected), members', selected), members', selected)
       /\ gesture' = NoGesture
       /\ Notify

\* The handler asks the graph for both limits once, when the resize starts.
ResizeStart(d) ==
    /\ Idle
    /\ d \in Complex
    /\ Shapes[d] # {}
    /\ Touchable(d)
    /\ gesture' = [NoGesture EXCEPT !.kind = "resize", !.dev = d, !.from = box[d],
            !.floor = IF children[d] = {} THEN NoRect ELSE Bounds({outer[k] : k \in children[d]}),
            !.ceiling = IF parent[d] = None THEN NoRect ELSE Inner(outer[parent[d]])]
    /\ UNCHANGED <<stage, box, outer, tree, marks, view, zorder, sweep, fall>>

\* One edge is pulled; only the floor holds it back.
ResizeMove(d, r) ==
    /\ Quiet
    /\ gesture.kind = "resize"
    /\ gesture.dev = d
    /\ r.x = gesture.from.x \/ End(r) = End(gesture.from)
    /\ box' = [box EXCEPT ![d] = IF gesture.floor = NoRect THEN r ELSE ClampResize(r, gesture.floor)]
    /\ UNCHANGED <<stage, outer, tree, marks, view, zorder, gesture, sweep, fall>>

\* sceneNotify of a device.  That of a Sequence first renews its phases.
SceneNotify(d) ==
    /\ members' = Refreshed({d}, box')
    /\ hidden' = Applied(d, hidden, members', selected')
    /\ Notify

ResizeEnd ==
    LET d == gesture.dev IN
    /\ Quiet
    /\ gesture.kind = "resize"
    /\ box' = [box EXCEPT ![d] = Resized(box[d], gesture.floor, gesture.ceiling)]
    /\ gesture' = NoGesture
    /\ UNCHANGED <<stage, tree, phases, selected, zorder, fall>>
    /\ SceneNotify(d)

----------------------------------------------------------------------------
(* The menus of a container.                                               *)

Swapped(z, i, j) == [z EXCEPT ![i] = z[j], ![j] = z[i]]

\* MoveForward and MoveBackward; at either end nothing moves, but all notify.
Restack(d, step) ==
    /\ Idle
    /\ d \in Complex
    /\ Touchable(d)
    /\ LET i == Position(zorder, d)
       IN zorder' = IF {i, i + step} \subseteq DOMAIN zorder THEN Swapped(zorder, i, i + step) ELSE zorder
    /\ UNCHANGED <<stage, box, tree, phases, selected, gesture, fall>>
    /\ SceneNotify(d)

\* Mutant: what is shown is settled before the phase is switched.
SelectPhaseLate(h, p) ==
    /\ Idle
    /\ Touchable(h)
    /\ \E i \in DOMAIN phases[h] : phases[h][i] = p
    /\ p # selected[h]
    /\ UNCHANGED <<stage, box, outer, tree, phases, zorder, gesture, sweep, fall>>
    /\ selected' = [selected EXCEPT ![h] = p]
    /\ members' = Refreshed({h}, box)
    /\ hidden' = Applied(h, hidden, members', selected)
    /\ marks' = Marks(nodes, hidden', outer)

\* Mutant: hiding and showing leaves the marks alone.
SelectPhaseUnmarked(h, p) ==
    /\ Idle
    /\ Touchable(h)
    /\ \E i \in DOMAIN phases[h] : phases[h][i] = p
    /\ p # selected[h]
    /\ UNCHANGED <<stage, box, outer, tree, phases, zorder, gesture, sweep, fall, marks>>
    /\ selected' = [selected EXCEPT ![h] = p]
    /\ members' = Refreshed({h}, box)
    /\ hidden' = Applied(h, hidden, members', selected')

\* Strays join the phase that was on the screen, then the other one is shown.
SelectPhase(h, p) ==
    /\ Idle
    /\ Touchable(h)
    /\ \E i \in DOMAIN phases[h] : phases[h][i] = p
    /\ p # selected[h]
    /\ UNCHANGED <<stage, box, outer, tree, phases, zorder, gesture, sweep, fall>>
    /\ selected' = [selected EXCEPT ![h] = p]
    /\ members' = Refreshed({h}, box)
    /\ hidden' = Applied(h, hidden, members', selected')
    /\ marks' = Marks(nodes, hidden', outer)

\* addPhase and insertPhaseAt: before or after the phase on the screen, or last.
InsertPhase(h, i, p) ==
    /\ Idle
    /\ Touchable(h)
    /\ i \in {Position(phases[h], selected[h]) - 1, Position(phases[h], selected[h]), Len(phases[h])}
    /\ \A j \in DOMAIN phases[h] : phases[h][j] # p
    /\ phases' = [phases EXCEPT ![h] = SubSeq(@, 1, i) \o <<p>> \o SubSeq(@, i + 1, Len(@))]
    /\ selected' = [selected EXCEPT ![h] = p]
    /\ UNCHANGED <<stage, box, tree, zorder, gesture, fall>>
    /\ SceneNotify(h)

\* removePhaseAt the phase on the screen, whose members join a neighbour.
RemovePhase(h) ==
    LET gone == selected[h]
        i == Position(phases[h], gone)
        heir == phases[h][IF i = 1 THEN 2 ELSE i - 1]
        ms == Maintained(h, members[h], gone, nodes, parent, children, box)
    IN /\ Idle
       /\ Touchable(h)
       /\ Len(phases[h]) >= 2
       /\ phases' = [phases EXCEPT ![h] = Cut(@, i)]
       /\ selected' = [selected EXCEPT ![h] = heir]
       /\ UNCHANGED <<stage, box, tree, zorder, gesture, fall>>
       /\ members' = [members EXCEPT ![h] = [ms EXCEPT ![heir] = @ \cup ms[gone], ![gone] = {}]]
       /\ hidden' = Applied(h, hidden, members', selected')
       /\ Notify

----------------------------------------------------------------------------
(* Deleting a device deletes what it contains (makeOnRemove).              *)

Doom(d) == [dev |-> d, kids |-> children[d]]

Delete(d) ==
    /\ Idle
    /\ Touchable(d)
    /\ doomed' = <<Doom(d)>>
    /\ UNCHANGED <<stage, box, outer, tree, marks, view, zorder, gesture, sweep, leaving, heirs>>

\* The next of the photographed children, if it is still there.
FellKid ==
    /\ sweep = <<>>
    /\ doomed # <<>>
    /\ leaving = None
    /\ \E k \in Head(doomed).kids :
        doomed' = (IF k \in nodes THEN <<Doom(k)>> ELSE <<>>)
                    \o <<[Head(doomed) EXCEPT !.kids = @ \ {k}]>> \o Tail(doomed)
    /\ UNCHANGED <<stage, box, outer, tree, marks, view, zorder, gesture, sweep, leaving, heirs>>

\* Mutant: what the container gained during the cascade is forgotten.
BeginUnregisterForgetting ==
    /\ sweep = <<>>
    /\ doomed # <<>>
    /\ leaving = None
    /\ Head(doomed).kids = {}
    /\ leaving' = Head(doomed).dev
    /\ UNCHANGED <<stage, box, outer, tree, marks, view, zorder, gesture, sweep, doomed, heirs>>

BeginUnregister ==
    /\ sweep = <<>>
    /\ doomed # <<>>
    /\ leaving = None
    /\ Head(doomed).kids = {}
    /\ leaving' = Head(doomed).dev
    /\ heirs' = children[leaving']
    /\ UNCHANGED <<stage, box, outer, tree, marks, view, zorder, gesture, sweep, doomed>>

\* A child the container gained during the cascade goes to the grandparent.
\* The list of the container itself is not touched.
Bequeath(k) ==
    LET p == parent[leaving] IN
    /\ leaving # None
    /\ k \in heirs
    /\ heirs' = heirs \ {k}
    /\ parent' = [parent EXCEPT ![k] = p]
    /\ children' = [c \in Device |-> IF c = p /\ c \in nodes THEN children[c] \cup {k} ELSE children[c]]
    /\ UNCHANGED <<stage, box, outer, phases, selected, zorder, gesture, sweep, doomed, leaving>>
    /\ members' = Refreshed({leaving, p}, box)
    /\ hidden' = Applied(p, Applied(leaving, hidden, members', selected), members', selected)
    /\ marks' = Marks(nodes, hidden', outer)

Unregister ==
    /\ leaving # None
    /\ heirs = {}
    /\ nodes' = nodes \ {leaving}
    /\ order' = Without(order, leaving)
    /\ zorder' = Without(zorder, leaving)
    /\ box' = [box EXCEPT ![leaving] = Nowhere]
    /\ hidden' = [hidden EXCEPT ![leaving] = FALSE]
    /\ parent' = [parent EXCEPT ![leaving] = None]
    /\ children' = [Relinked(leaving, None) EXCEPT ![leaving] = {}]
    /\ doomed' = Tail(doomed)
    /\ leaving' = None
    /\ UNCHANGED <<fresh, phases, members, selected, gesture, heirs>>
    /\ Notify

----------------------------------------------------------------------------
Sweep == KeepParent \/ Reparent \/ Export

Cascade == FellKid \/ BeginUnregister \/ (\E k \in Device : Bequeath(k)) \/ Unregister

Drag == \/ \E d \in Device : DragStart(d)
        \/ \E d \in Device : \E x \in Places[d] : DragMove(d, x)
        \/ DragEnd

Resize == \/ \E d \in Device : ResizeStart(d)
          \/ \E d \in Complex : \E r \in Shapes[d] : ResizeMove(d, r)
          \/ ResizeEnd

Menu == \/ \E d \in Complex, step \in {-1, 1} : Restack(d, step)
        \/ \E h \in Host, p \in Phase : SelectPhase(h, p)
        \/ \E h \in Host, p \in Phase : \E i \in 0..Len(phases[h]) : InsertPhase(h, i, p)
        \/ \E h \in Host : RemovePhase(h)
        \/ \E d \in Device : Delete(d)

Next == \/ Sweep
        \/ Cascade
        \/ Refresh
        \/ \E d \in Device : \E x \in Places[d] : Place(d, x)
        \/ Drag
        \/ Resize
        \/ Menu

Spec == Init /\ [][Next]_vars

----------------------------------------------------------------------------
(* Correctness.                                                            *)

GestureType ==
    {NoGesture} \cup
    [kind : {"drag", "resize"}, dev : Device, from : Rect, cargo : SUBSET Device,
     floor : Rect \cup {NoRect}, ceiling : Rect \cup {NoRect}]

\* The state has the shape the code gives it; the phase a Sequence shows is one
\* of its list, whichever was added or removed last.
TypeOK ==
    /\ fresh \subseteq Device /\ nodes \subseteq Device
    /\ order \in Seq(Device) /\ zorder \in Seq(Device)
    /\ box \in [Device -> Rect] /\ outer \in [Device -> Rect]
    /\ parent \in [Device -> Device \cup {None}]
    /\ children \in [Device -> SUBSET Device]
    /\ marks \in [Device -> SUBSET Device]
    /\ hidden \in [Device -> BOOLEAN]
    /\ phases \in [Host -> Seq(Phase)]
    /\ members \in [Host -> [Phase -> SUBSET Device]]
    /\ selected \in [Host -> Phase]
    /\ \A h \in Host : \E i \in DOMAIN phases[h] : phases[h][i] = selected[h]
    /\ gesture \in GestureType
    /\ sweep \in Seq(Device \cup {None})
    /\ doomed \in Seq([dev : Device, kids : SUBSET Device])
    /\ leaving \in Device \cup {None}
    /\ leaving # None => doomed # <<>>
    /\ heirs \subseteq Device

\* The two ends of every link agree: removeChild and appendChild always come
\* in pairs.  Only a container being unregistered still lists children it has
\* handed on.
LinksAgree ==
    \A c, k \in Device :
        /\ parent[k] = c /\ c \in nodes => k \in children[c]
        /\ k \in children[c] => parent[k] = c \/ (c = leaving /\ k \notin heirs)

\* Links join registered devices, and only a container has children, so
\* nothing is left pointing at a deleted device.
LinksLive ==
    \A k \in Device : parent[k] # None => k \in nodes /\ parent[k] \in nodes \cap Complex

\* The red borders on the screen are those of the geometry the graph knows,
\* on both devices of every pair, whatever was hidden, shown or moved last.
MarksFresh == marks = Marks(nodes, hidden, outer)

\* The graph never loses a device's place: outside a resize it is exact.
MirrorTrue ==
    \A d \in nodes : outer[d] = box[d] \/ (gesture.kind = "resize" /\ gesture.dev = d)

\* A device in conflict, which is still in conflict where the step puts things,
\* keeps its parent until the parent itself is deleted.
ConflictedKeepsParent ==
    [][\A d \in nodes \cap nodes' :
        /\ marks[d] # {} /\ Marks(nodes, hidden, outer')[d] # {}
        /\ parent[d] # leaving \/ leaving = None
        => parent'[d] = parent[d]]_vars

Holds(c, d) == StackingOK(c, d, zorder) /\ ContainsRect(Inner(outer[c]), outer[d])

\* When RefreshAll is through, a device that clashes with nothing, hidden or
\* shown, has no parent or lies in it and above it, whatever the callbacks of
\* the pass hid and showed in between.
LiesInParent ==
    sweep = <<None>> => \A d \in nodes :
        (\A e \in nodes \ {d} : ~ Clash(d, e, outer)) =>
            parent[d] = None \/ Holds(parent[d], d)

\* A device is in one phase of a Sequence.
OnePhase ==
    \A h \in Host : \A p, q \in Phase : p # q => members[h][p] \cap members[h][q] = {}

\* The members of a Sequence lie in no other container, whatever moved where
\* since its own list was last renewed.
OneHost ==
    Quiet => \A h \in Host \cap nodes : \A d \in Known(members[h]) : parent[d] \in {None, h}

\* What the phases show is what is on the screen: whatever a Sequence contains
\* is in a phase of it, and is hidden exactly while another phase is selected.
PhaseView ==
    \A h \in Host : \A d \in children[h] :
        /\ d \in Known(members[h])
        /\ parent[d] = h =>
            \A p \in Phase : d \in members[h][p] => (hidden[d] <=> p # selected[h])

\* The two clamps do not fight: when a container started a resize within its
\* own parent, a child that lay in it and that the resize measured is still in
\* it at the end.
ContentKept ==
    [][LET d == gesture.dev
           ceiling == gesture.ceiling
       IN ResizeEnd /\ gesture.floor # NoRect
            /\ (ceiling # NoRect => ContainsRect(ceiling, gesture.from)) =>
          \A k \in children[d] :
            ContainsRect(gesture.floor, box[k]) /\ ContainsRect(Inner(gesture.from), box[k])
                => ContainsRect(Inner(box'[d]), box[k])]_vars

----------------------------------------------------------------------------
(* What the code says and does not keep.                                   *)

\* graph.go: the descendants of a device do not include the device itself.
Forest == Idle => \A d \in nodes : d \notin Descendants(d)

\* graph.go: the pass puts every clean device into the smallest container that
\* holds it.  It does not when a container is shown after its content's turn.
Settled ==
    sweep = <<None>> => \A d \in nodes :
        marks[d] = {} => parent[d] \in BestParents(d, nodes, hidden, outer, zorder)

\* phaseEngine.go: only the members of the selected phase stay visible.  A device
\* without a parent may be a member of two Sequences.
OnlySelectedShown ==
    Idle => \A h \in Host \cap nodes, p \in Phase : \A d \in members[h][p] \cap nodes :
        p # selected[h] => hidden[d]
=============================================================================
