-------------------------------- MODULE Wires --------------------------------
(***************************************************************************)
(* The wire manager of one stage (wire/manager.go, wire/registry.go) and   *)
(* the two places of stageWorkspace/workspace.go and ui/mainMenu that      *)
(* drive it: a connect draft is started from a menu, finished or cancelled *)
(* by a click on the canvas, while everything else the maker can reach     *)
(* with the other mouse button (menus, deletes, phase switches, another    *)
(* draft) goes on.  The draft keeps a photograph of its candidates.        *)
(*                                                                         *)
(* Phase tunnels are chameleons: a tunnel has the type of the wires that   *)
(* touch it (effectiveTypes), and what may be wired next depends on it.    *)
(*                                                                         *)
(* Abstracted: positions, routes, styles and the automatic tunnels of a    *)
(* border; Locked pins; a pin has one allowed type instead of a list.      *)
(***************************************************************************)
EXTENDS Naturals, FiniteSets

CONSTANTS Elements,     \* the devices of the stage
          Tunnels,      \* those of them that are manual phase tunnels
          Pins,         \* the connectors
          ElementOf,    \* the element of a pin
          Outputs,      \* the pins that are outputs
          Types,        \* the concrete data types
          Any,          \* "*", the wildcard of a tunnel nothing stamped yet
          NoType,       \* the empty resolved type: incompatible
          NoDraft,      \* no connect draft in progress
          Promotes,     \* DefaultCompatibility: <<output type, input type>>
          TypeAtStart,  \* the allowed type of a pin when its device is made
          Capacity,     \* MaxConnections of a pin, 0 for unlimited
          Retypable,    \* the arithmetic devices: all pins have one type
          Phases,       \* the number of phases of the Sequence on the stage
          PhaseOf,      \* the phase of an element, 0 outside the Sequence
          MaxWires      \* bound: wires ever drawn

\* The pins of a tunnel are its input and its output, both registered with
\* the wildcard; everything else has a concrete type.
ASSUME StageAssumption ==
  /\ Tunnels \subseteq Elements
  /\ Outputs \subseteq Pins
  /\ ElementOf \in [Pins -> Elements]
  /\ Capacity \in [Pins -> Nat]
  /\ TypeAtStart \in [Pins -> Types]
  /\ Promotes \subseteq Types \X Types
  /\ Phases \in Nat \ {0}
  /\ PhaseOf \in [Elements -> 0..Phases]
  /\ MaxWires \in Nat

ASSUME WildcardAssumption == Any \notin Types /\ NoType \notin Types \cup {Any}

ASSUME DraftAssumption ==
  NoDraft \notin [source : Pins, candidates : SUBSET Pins]

VARIABLES live,     \* connectors: the elements that are registered
          allowed,  \* AllowedTypes of the registered connectors
          wires,    \* the wires; the ids are in the order of the slice
          draft,    \* connectMode, connectSource and visualCandidates
          phase,    \* the phase of the Sequence on the screen
          drawn     \* the id of the last wire

vars == <<live, allowed, wires, draft, phase, drawn>>

Wire == [id : 1..MaxWires, from : Pins, to : Pins, type : Types \cup {Any}]
Draft == [source : Pins, candidates : SUBSET Pins]

TypeOK == /\ live \subseteq Elements
          /\ allowed \in [Pins -> Types]
          /\ wires \subseteq Wire
          /\ draft \in Draft \cup {NoDraft}
          /\ phase \in 1..Phases
          /\ drawn \in 0..MaxWires

Init == /\ live = Elements
        /\ allowed = TypeAtStart
        /\ wires = {}
        /\ draft = NoDraft
        /\ phase = 1
        /\ drawn = 0

------------------------------------------------------------------------------
(* Types                                                                    *)

Fits(o, i) == o = i \/ <<o, i>> \in Promotes

\* The type a wire from an output of type o to an input of type i takes.
Resolved(o, i) ==
  CASE o = Any /\ i = Any                 -> NoType
    [] o = Any /\ i # Any                 -> i
    [] o # Any /\ i = Any                 -> o
    [] Any \notin {o, i} /\ Fits(o, i)     -> i
    [] OTHER                              -> NoType

Touching(W, p) == {w \in W : p \in {w.from, w.to}}

TouchingElement(W, e) == {w \in W : e \in {ElementOf[w.from], ElementOf[w.to]}}

\* The feed of a tunnel touches its input.
Feeds(W, t) == {w \in TouchingElement(W, t) :
                  \E p \in {w.from, w.to} \ Outputs : ElementOf[p] = t}

\* The type of the oldest wire of W, Any when there is none.
OldestType(W) ==
  IF W = {} THEN Any
  ELSE (CHOOSE w \in W : \A v \in W : w.id <= v.id).type

\* A tunnel has the type of its feed, without one that of its first tap.
StampOf(W, t) ==
  LET typed == {w \in TouchingElement(W, t) : w.type # Any}
  IN  OldestType(IF Feeds(typed, t) # {} THEN Feeds(typed, t) ELSE typed)

\* effectiveTypes, with the wires W and the allowed types A.
TypeOfPin(W, A, p) ==
  IF ElementOf[p] \in Tunnels THEN StampOf(W, ElementOf[p]) ELSE A[p]

\* The type of a wire between two pins, whichever end the draft began at.
TypeBetween(W, p, q) ==
  LET Effective(r) == TypeOfPin(W, allowed, r)
  IN  IF p \in Outputs THEN Resolved(Effective(p), Effective(q))
                       ELSE Resolved(Effective(q), Effective(p))

------------------------------------------------------------------------------
(* What is on the screen                                                    *)

Registered(p) == ElementOf[p] \in live

\* The natal phase of a tunnel is its phase: before it the tunnel is hidden,
\* after it the tunnel is shown; a device is shown in its phase only.
Hidden(e) == IF e \in Tunnels THEN phase < PhaseOf[e]
                              ELSE PhaseOf[e] \notin {0, phase}

\* A tunnel offers its input in its natal phase and its output later.
Blocked(p) == /\ ElementOf[p] \in Tunnels
              /\ (p \in Outputs) = (phase = PhaseOf[ElementOf[p]])

Connected(p, q) == \E w \in wires : {w.from, w.to} = {p, q}

Full(p) == Capacity[p] > 0 /\ Cardinality(Touching(wires, p)) >= Capacity[p]

\* Plausible bugs: StartConnect forgets one of its filters.
CandidatesFull(p) ==
  {q \in Pins : /\ Registered(q) /\ ElementOf[q] # ElementOf[p]
                /\ ~Hidden(ElementOf[q]) /\ ~Blocked(q)
                /\ (p \in Outputs) # (q \in Outputs)
                /\ ~Connected(p, q)
                /\ TypeBetween(wires, p, q) # NoType}

CandidatesConnected(p) ==
  {q \in Pins : /\ Registered(q) /\ ElementOf[q] # ElementOf[p]
                /\ ~Hidden(ElementOf[q]) /\ ~Blocked(q)
                /\ (p \in Outputs) # (q \in Outputs)
                /\ ~Full(q)
                /\ TypeBetween(wires, p, q) # NoType}

\* The pins StartConnect lists for a source.
Candidates(p) ==
  {q \in Pins : /\ Registered(q)
                /\ ElementOf[q] # ElementOf[p]
                /\ ~Hidden(ElementOf[q])
                /\ ~Blocked(q)
                /\ (p \in Outputs) # (q \in Outputs)
                /\ ~Full(q)
                /\ ~Connected(p, q)
                /\ TypeBetween(wires, p, q) # NoType}

------------------------------------------------------------------------------
(* Operations                                                               *)

\* The Connect entry of the menu of a pin in sight (of a tunnel: of the port
\* its role offers).  A second draft replaces the first.
StartConnect(p) ==
  /\ Registered(p) /\ ~Hidden(ElementOf[p]) /\ ~Blocked(p)
  /\ draft' = IF Candidates(p) = {} THEN NoDraft
              ELSE [source |-> p, candidates |-> Candidates(p)]
  /\ UNCHANGED <<live, allowed, wires, phase, drawn>>

\* The wire between the ends of a draft, from the output to the input.
NewWire(p, q, type) == [id   |-> drawn + 1,
                        from |-> IF p \in Outputs THEN p ELSE q,
                        to   |-> IF p \in Outputs THEN q ELSE p,
                        type |-> type]

\* A plausible bug: the photograph is trusted.
FoundInPhotograph(p, q) == TRUE

\* Both ends of the draft are still there.
Found(p, q) == Registered(p) /\ Registered(q)

\* The click on a candidate of the photograph.  The draft ends first; then
\* only existence and types are looked at again.
FinishConnect(q) ==
  LET p    == draft.source
      type == TypeBetween(wires, p, q)
  IN  /\ draft # NoDraft
      /\ q \in draft.candidates
      /\ draft' = NoDraft
      /\ IF Found(p, q) /\ type # NoType
           THEN /\ drawn < MaxWires
                /\ drawn' = drawn + 1
                /\ wires' = wires \cup {NewWire(p, q, type)}
           ELSE UNCHANGED <<wires, drawn>>
      /\ UNCHANGED <<live, allowed, phase>>

\* Escape, or a click beside every candidate.
CancelConnect == /\ draft # NoDraft
                 /\ draft' = NoDraft
                 /\ UNCHANGED <<live, allowed, wires, phase, drawn>>

\* The second click on a wire; the interceptor is off during a draft.
DeleteWire(w) == /\ draft = NoDraft
                 /\ wires' = wires \ {w}
                 /\ UNCHANGED <<live, allowed, draft, phase, drawn>>

\* A device is deleted, with its connectors and its wires.
UnregisterElement(e) ==
  /\ live' = live \ {e}
  /\ wires' = wires \ TouchingElement(wires, e)
  /\ UNCHANGED <<allowed, draft, phase, drawn>>

\* RefreshElementWires: the wires of e in the order of the slice, each
\* resolved against the types the earlier ones have by then; one that has
\* become incompatible is left as it is.
RefreshedBy(e, A, T) ==
  LET Typed(w) == [w EXCEPT !.type = T[w]]
      Seen(w)  == {Typed(v) : v \in {x \in wires : x.id < w.id}}
                    \cup {v \in wires : v.id >= w.id}
      New(w)   == Resolved(TypeOfPin(Seen(w), A, w.from),
                           TypeOfPin(Seen(w), A, w.to))
  IN  \A w \in wires :
        T[w] = IF w \in TouchingElement(wires, e) /\ New(w) # NoType
                 THEN New(w) ELSE w.type

\* An arithmetic device takes another data type (SetDataType of its form).
SetDataType(e, t) ==
  /\ \E p \in Pins : ElementOf[p] = e /\ allowed[p] # t
  /\ allowed' = [p \in Pins |-> IF ElementOf[p] = e THEN t ELSE allowed[p]]
  /\ \E T \in [wires -> Types \cup {Any}] :
       /\ RefreshedBy(e, allowed', T)
       /\ wires' = {[w EXCEPT !.type = T[w]] : w \in wires}
  /\ UNCHANGED <<live, draft, phase, drawn>>

\* The pill of the Sequence: SetElementHidden and SetManualTunnelView.
ShowPhase(k) == /\ phase' = k
                /\ UNCHANGED <<live, allowed, wires, draft, drawn>>

Next == \/ \E p \in Pins : StartConnect(p)
        \/ draft # NoDraft /\ \E q \in draft.candidates : FinishConnect(q)
        \/ CancelConnect
        \/ \E w \in wires : DeleteWire(w)
        \/ \E e \in live : UnregisterElement(e)
        \/ \E e \in live \cap Retypable, t \in Types : SetDataType(e, t)
        \/ \E k \in 1..Phases : ShowPhase(k)

Spec == Init /\ [][Next]_vars

------------------------------------------------------------------------------
(* Save and reload                                                          *)

\* The scene file holds the wires in their order; importScene makes the
\* devices again and replays the wires through ConnectDirect, which has no
\* filter but the types.  The wires there are after the first n.
RestoredUpTo[n \in 0..MaxWires] ==
  IF n = 0 THEN {}
  ELSE LET before == RestoredUpTo[n - 1]
           next   == {w \in wires : w.id = n}
           Type(w) == TypeBetween(before, w.from, w.to)
       IN  before \cup {[w EXCEPT !.type = Type(w)] :
                          w \in {x \in next : Type(x) # NoType}}

Restored == RestoredUpTo[MaxWires]

------------------------------------------------------------------------------
(* Properties                                                               *)

\* No wire outlives a device it ends at, although a device may be deleted
\* while a draft points at it (the second look of FinishConnect, and the
\* wires UnregisterElement takes along).
NoDangling == \A w \in wires : Registered(w.from) /\ Registered(w.to)

\* Every wire runs from an output to an input, also when the draft began at
\* the input: the "inverted" storage the census of tunnel consumers
\* (wire/manager.go:1594) still guards against is not produced any more.
Directed == \A w \in wires : w.from \in Outputs /\ w.to \notin Outputs

\* Two pins are joined at most once, although the photograph of a draft may
\* be older than what has happened since.
NoTwins == \A v, w \in wires : {v.from, v.to} = {w.from, w.to} => v = w

\* No wire carries the wildcard: two tunnels without a type do not connect,
\* and no order of connecting, deleting and retyping stamps one with it.
Concrete == \A w \in wires : w.type # Any

\* MaxConnections holds for the far end of a draft: a step that makes a pin
\* hold more wires than it may only does so for the pin the draft began at
\* (StartConnect does not look at the capacity of its source).
OverfilledByOwnDraft ==
  [][\A p \in Pins :
       /\ Capacity[p] > 0
       /\ Cardinality(Touching(wires, p)) <= Capacity[p]
       /\ Cardinality(Touching(wires', p)) > Capacity[p]
       => draft # NoDraft /\ draft.source = p]_vars

\* wire/manager.go:1710 "saved wires must reconnect regardless of which phase
\* happens to be on screen": every wire of the stage comes back on a reload.
SavedWiresReconnect == \A w \in wires : \E v \in Restored : v.id = w.id

==============================================================================
