----------------------------- MODULE WiresProofs -----------------------------
(* Proofs about the wire manager: what holds of its wires for every stage. *)
EXTENDS Wires, OrderLemmas

USE StageAssumption, WildcardAssumption, DraftAssumption

\* What the photograph of a draft still says when the click comes.
DraftSound ==
  draft # NoDraft =>
    \A q \in draft.candidates :
      /\ (draft.source \in Outputs) # (q \in Outputs)
      /\ ~Connected(draft.source, q)
      /\ ~Full(q)

\* The inductive invariant.
WiresInv == /\ TypeOK
            /\ IsFiniteSet(wires)
            /\ NoDangling
            /\ Directed
            /\ NoTwins
            /\ Concrete
            /\ DraftSound

------------------------------------------------------------------------------
(* Types                                                                    *)

\* A resolved type is never the wildcard, and it is one of the two.
LEMMA ResolvedConcrete ==
  ASSUME NEW o, NEW i
  PROVE  /\ Resolved(o, i) # Any
         /\ Resolved(o, i) \in {o, i, NoType}
<1>1. CASE o = Any /\ i = Any
  BY <1>1, Zenon DEF Resolved
<1>2. CASE o = Any /\ i # Any
  BY <1>2 DEF Resolved
<1>3. CASE o # Any /\ i = Any
  BY <1>3 DEF Resolved
<1>4. CASE o # Any /\ i # Any
  BY <1>4 DEF Resolved
<1>5. QED
  BY <1>1, <1>2, <1>3, <1>4

\* The oldest of some wires is there, so its type is a type.
LEMMA OldestTyped ==
  ASSUME NEW W, IsFiniteSet(W), W \subseteq Wire
  PROVE  OldestType(W) \in Types \cup {Any}
<1>1. CASE W = {}
  BY <1>1 DEF OldestType
<1>2. CASE W # {}
  <2> DEFINE f == [w \in W |-> w.id]
  <2>1. f \in [W -> Int]
    BY DEF Wire
  <2> HIDE DEF f
  <2>2. PICK w \in W : \A v \in W : f[w] <= f[v]
    BY <2>1, <1>2, LeastOfFamily
  <2>3. \A v \in W : w.id <= v.id
    BY <2>2 DEF f
  <2>4. (CHOOSE x \in W : \A v \in W : x.id <= v.id) \in W
    BY <2>3
  <2>5. QED
    BY <2>4, <1>2 DEF OldestType, Wire
<1>3. QED
  BY <1>1, <1>2

LEMMA PinTyped ==
  ASSUME NEW W, IsFiniteSet(W), W \subseteq Wire, NEW A \in [Pins -> Types],
         NEW p \in Pins
  PROVE  TypeOfPin(W, A, p) \in Types \cup {Any}
<1> DEFINE typed(t) == {w \in TouchingElement(W, t) : w.type # Any}
<1>1. ASSUME NEW t
      PROVE  StampOf(W, t) \in Types \cup {Any}
  <2>1. /\ typed(t) \in SUBSET W
        /\ Feeds(typed(t), t) \in SUBSET W
    BY DEF TouchingElement, Feeds
  <2>2. IsFiniteSet(typed(t)) /\ IsFiniteSet(Feeds(typed(t), t))
    BY <2>1, FS_Subset
  <2> DEFINE S == IF Feeds(typed(t), t) # {} THEN Feeds(typed(t), t) ELSE typed(t)
  <2>3. IsFiniteSet(S) /\ S \subseteq Wire
    BY <2>1, <2>2
  <2>4. StampOf(W, t) = OldestType(S)
    BY DEF StampOf
  <2> HIDE DEF S
  <2>5. QED
    BY <2>3, <2>4, OldestTyped
<1>2. QED
  BY <1>1 DEF TypeOfPin

\* A wire that can be drawn has a concrete type.
LEMMA BetweenTyped ==
  ASSUME TypeOK, IsFiniteSet(wires), NEW p \in Pins, NEW q \in Pins,
         TypeBetween(wires, p, q) # NoType
  PROVE  TypeBetween(wires, p, q) \in Types
<1>1. /\ TypeOfPin(wires, allowed, p) \in Types \cup {Any}
      /\ TypeOfPin(wires, allowed, q) \in Types \cup {Any}
  BY PinTyped DEF TypeOK
<1>2. QED
  BY <1>1, ResolvedConcrete DEF TypeBetween

------------------------------------------------------------------------------
(* The steps                                                                *)

\* Fewer wires fill no pin and join no pins.
LEMMA Fewer ==
  ASSUME NEW W, NEW V \in SUBSET W, IsFiniteSet(W), NEW p
  PROVE  /\ IsFiniteSet(Touching(V, p))
         /\ IsFiniteSet(Touching(W, p))
         /\ Cardinality(Touching(V, p)) \in Nat
         /\ Cardinality(Touching(W, p)) \in Nat
         /\ Cardinality(Touching(V, p)) <= Cardinality(Touching(W, p))
<1>1. Touching(W, p) \in SUBSET W /\ Touching(V, p) \in SUBSET Touching(W, p)
  BY DEF Touching
<1>2. QED
  BY <1>1, FS_Subset, FS_CardinalityType

\* The steps that take wires away, or touch none, and begin no draft.
LEMMA ThinnerStep ==
  ASSUME WiresInv, TypeOK', wires' \subseteq wires, draft' \in {draft, NoDraft},
         \A w \in wires' : ElementOf[w.from] \in live' /\ ElementOf[w.to] \in live'
  PROVE  WiresInv'
<1> USE DEF WiresInv
<1>1. IsFiniteSet(wires')
  BY FS_Subset
<1>2. NoDangling'
  BY DEF NoDangling, Registered
<1>3. Directed' /\ NoTwins' /\ Concrete'
  BY DEF Directed, NoTwins, Concrete
<1>4. DraftSound'
  <2>1. SUFFICES ASSUME draft' # NoDraft, draft' = draft, NEW q \in draft.candidates
        PROVE  /\ (draft.source \in Outputs) # (q \in Outputs)
               /\ ~ \E w \in wires' : {w.from, w.to} = {draft.source, q}
               /\ ~ (Capacity[q] > 0 /\ Cardinality(Touching(wires', q)) >= Capacity[q])
    BY DEF DraftSound, Connected, Full, Touching
  <2>2. q \in Pins
    BY <2>1 DEF TypeOK, Draft
  <2>3. Capacity[q] \in Nat
    BY <2>2
  <2>4. /\ (draft.source \in Outputs) # (q \in Outputs)
        /\ ~Connected(draft.source, q)
        /\ ~Full(q)
    BY <2>1 DEF DraftSound
  <2>5. ~ \E w \in wires' : {w.from, w.to} = {draft.source, q}
    BY <2>4 DEF Connected
  <2>6. /\ Cardinality(Touching(wires', q)) \in Nat
        /\ Cardinality(Touching(wires, q)) \in Nat
        /\ Cardinality(Touching(wires', q)) <= Cardinality(Touching(wires, q))
    BY Fewer
  <2>7. ~ (Capacity[q] > 0 /\ Cardinality(Touching(wires', q)) >= Capacity[q])
    BY <2>3, <2>4, <2>6 DEF Full
  <2>8. QED
    BY <2>4, <2>5, <2>7
<1>5. QED
  BY <1>1, <1>2, <1>3, <1>4

LEMMA StartStep ==
  ASSUME WiresInv, NEW p \in Pins, StartConnect(p)
  PROVE  WiresInv'
<1> USE DEF WiresInv, StartConnect
<1> DEFINE d == [source |-> p, candidates |-> Candidates(p)]
<1>1. d \in Draft
  BY DEF Draft, Candidates
<1>2. draft' \in {d, NoDraft}
  OBVIOUS
<1> HIDE DEF d
<1>3. TypeOK' /\ IsFiniteSet(wires)'
  BY <1>1, <1>2 DEF TypeOK
<1>4. NoDangling' /\ Directed' /\ NoTwins' /\ Concrete'
  BY DEF NoDangling, Registered, Directed, NoTwins, Concrete
<1>5. DraftSound'
  <2>1. SUFFICES ASSUME draft' = d, NEW q \in Candidates(p)
        PROVE  /\ (p \in Outputs) # (q \in Outputs)
               /\ ~ \E w \in wires' : {w.from, w.to} = {p, q}
               /\ ~ (Capacity[q] > 0 /\ Cardinality(Touching(wires', q)) >= Capacity[q])
    BY <1>2 DEF DraftSound, Connected, Full, Touching, d
  <2>2. QED
    BY <2>1 DEF Candidates, Connected, Full
<1>6. QED
  BY <1>3, <1>4, <1>5

\* A finished draft adds one wire at most, and it joins what was not joined.
LEMMA FinishAdds ==
  ASSUME WiresInv, draft # NoDraft, NEW q \in draft.candidates, FinishConnect(q)
  PROVE  \/ wires' = wires /\ drawn' = drawn
         \/ \E w \in Wire :
              /\ wires' = wires \cup {w}
              /\ {w.from, w.to} = {draft.source, q}
              /\ w.from \in Outputs /\ w.to \notin Outputs
              /\ w.type # Any
              /\ ElementOf[w.from] \in live /\ ElementOf[w.to] \in live
              /\ drawn' \in 0..MaxWires
<1> DEFINE p == draft.source
           type == TypeBetween(wires, p, q)
           w == NewWire(p, q, type)
<1>1. p \in Pins /\ q \in Pins
  BY DEF WiresInv, TypeOK, Draft
<1>2. (p \in Outputs) # (q \in Outputs)
  BY DEF WiresInv, DraftSound
<1>3. CASE Found(p, q) /\ type # NoType
  <2>1. drawn < MaxWires /\ drawn' = drawn + 1 /\ wires' = wires \cup {w}
    BY <1>3 DEF FinishConnect
  <2>2. drawn \in 0..MaxWires /\ drawn + 1 \in 1..MaxWires
    BY <2>1 DEF WiresInv, TypeOK
  <2>3. type \in Types
    BY <1>1, <1>3, BetweenTyped DEF WiresInv
  <2> HIDE DEF type, p
  <2>4. w \in Wire
    BY <1>1, <2>2, <2>3 DEF NewWire, Wire
  <2>5. /\ {w.from, w.to} = {p, q}
        /\ w.from \in Outputs /\ w.to \notin Outputs
        /\ w.type # Any
    BY <1>2, <2>3 DEF NewWire
  <2>6. ElementOf[w.from] \in live /\ ElementOf[w.to] \in live
    BY <1>3 DEF NewWire, Found, Registered
  <2>7. drawn' \in 0..MaxWires
    BY <2>1, <2>2
  <2> USE DEF p
  <2>8. QED
    BY <2>1, <2>4, <2>5, <2>6, <2>7
<1>4. CASE ~(Found(p, q) /\ type # NoType)
  BY <1>4 DEF FinishConnect
<1>5. QED
  BY <1>3, <1>4

LEMMA FinishStep ==
  ASSUME WiresInv, draft # NoDraft, NEW q \in draft.candidates, FinishConnect(q)
  PROVE  WiresInv'
<1>1. draft' = NoDraft /\ live' = live /\ allowed' = allowed /\ phase' = phase
  BY DEF FinishConnect
<1>2. CASE wires' = wires /\ drawn' = drawn
  <2>1. TypeOK'
    BY <1>1, <1>2 DEF WiresInv, TypeOK
  <2>2. \A w \in wires' : ElementOf[w.from] \in live' /\ ElementOf[w.to] \in live'
    BY <1>1, <1>2 DEF WiresInv, NoDangling, Registered
  <2>3. QED
    BY <1>1, <1>2, <2>1, <2>2, ThinnerStep
<1>3. CASE ~(wires' = wires /\ drawn' = drawn)
  <2>1. PICK w \in Wire :
          /\ wires' = wires \cup {w}
          /\ {w.from, w.to} = {draft.source, q}
          /\ w.from \in Outputs /\ w.to \notin Outputs
          /\ w.type # Any
          /\ ElementOf[w.from] \in live /\ ElementOf[w.to] \in live
          /\ drawn' \in 0..MaxWires
    BY <1>3, FinishAdds
  <2>2. TypeOK'
    BY <1>1, <2>1 DEF WiresInv, TypeOK
  <2>3. IsFiniteSet(wires')
    BY <2>1, FS_AddElement DEF WiresInv
  <2>4. NoDangling'
    BY <1>1, <2>1 DEF WiresInv, NoDangling, Registered
  <2>5. Directed' /\ Concrete'
    BY <2>1 DEF WiresInv, Directed, Concrete
  <2>6. NoTwins'
    <3>1. \A v \in wires : {v.from, v.to} # {w.from, w.to}
      BY <2>1 DEF WiresInv, DraftSound, Connected
    <3>2. QED
      BY <2>1, <3>1 DEF WiresInv, NoTwins
  <2>7. DraftSound'
    BY <1>1 DEF DraftSound
  <2>8. QED
    BY <2>2, <2>3, <2>4, <2>5, <2>6, <2>7 DEF WiresInv
<1>4. QED
  BY <1>2, <1>3

\* A change of data type moves no wire: what touches a pin is as much.
LEMMA RetypedCount ==
  ASSUME IsFiniteSet(wires), wires \subseteq Wire,
         NEW T \in [wires -> Types \cup {Any}],
         NEW W, W = {[w EXCEPT !.type = T[w]] : w \in wires}, NEW p
  PROVE  /\ IsFiniteSet(W)
         /\ Cardinality(Touching(W, p)) \in Nat
         /\ Cardinality(Touching(wires, p)) \in Nat
         /\ Cardinality(Touching(W, p)) <= Cardinality(Touching(wires, p))
<1> DEFINE f == [w \in wires |-> [w EXCEPT !.type = T[w]]]
           g == [w \in Touching(wires, p) |-> [w EXCEPT !.type = T[w]]]
<1>1. \A w \in wires : /\ [w EXCEPT !.type = T[w]].from = w.from
                       /\ [w EXCEPT !.type = T[w]].to = w.to
  BY DEF Wire
<1>2. f \in Surjection(wires, W)
  BY DEF Surjection
<1>3. Touching(wires, p) \subseteq wires
  BY DEF Touching
<1>4. \A v \in Touching(W, p) : \E w \in Touching(wires, p) : v = [w EXCEPT !.type = T[w]]
  <2>1. TAKE v \in Touching(W, p)
  <2>2. PICK w \in wires : v = [w EXCEPT !.type = T[w]]
    BY DEF Touching
  <2>3. p \in {v.from, v.to}
    BY DEF Touching
  <2>4. w \in Touching(wires, p)
    BY <1>1, <2>2, <2>3 DEF Touching
  <2>5. QED
    BY <2>2, <2>4
<1>5. \A w \in Touching(wires, p) : [w EXCEPT !.type = T[w]] \in Touching(W, p)
  BY <1>1 DEF Touching
<1>6. g \in Surjection(Touching(wires, p), Touching(W, p))
  BY <1>4, <1>5 DEF Surjection
<1>7. IsFiniteSet(Touching(wires, p))
  BY <1>3, FS_Subset
<1> HIDE DEF f, g
<1>8. IsFiniteSet(W)
  BY <1>2, FS_Surjection
<1>9. /\ IsFiniteSet(Touching(W, p))
      /\ Cardinality(Touching(W, p)) <= Cardinality(Touching(wires, p))
  BY <1>6, <1>7, FS_Surjection
<1>10. QED
  BY <1>7, <1>8, <1>9, FS_CardinalityType

\* The retyped wires, one by one.
LEMMA Retyped ==
  ASSUME WiresInv, NEW e, NEW t, SetDataType(e, t)
  PROVE  \E T \in [wires -> Types \cup {Any}] :
           /\ wires' = {[w EXCEPT !.type = T[w]] : w \in wires}
           /\ \A w \in wires : T[w] # Any
<1>1. PICK T \in [wires -> Types \cup {Any}] :
        /\ RefreshedBy(e, allowed', T)
        /\ wires' = {[w EXCEPT !.type = T[w]] : w \in wires}
  BY DEF SetDataType
<1>2. \A w \in wires : T[w] # Any
  <2>1. TAKE w \in wires
  <2>2. w.type # Any
    BY DEF WiresInv, Concrete
  <2>3. PICK o, i : T[w] \in {Resolved(o, i), w.type}
    BY <1>1 DEF RefreshedBy
  <2>4. QED
    BY <2>2, <2>3, ResolvedConcrete
<1>3. QED
  BY <1>1, <1>2

LEMMA RetypeStep ==
  ASSUME WiresInv, NEW e, NEW t \in Types, SetDataType(e, t)
  PROVE  WiresInv'
<1>1. PICK T \in [wires -> Types \cup {Any}] :
        /\ wires' = {[w EXCEPT !.type = T[w]] : w \in wires}
        /\ \A w \in wires : T[w] # Any
  BY Retyped
<1>2. /\ live' = live /\ draft' = draft /\ phase' = phase /\ drawn' = drawn
      /\ allowed' = [p \in Pins |-> IF ElementOf[p] = e THEN t ELSE allowed[p]]
  BY DEF SetDataType
<1>3. \A v \in wires' : \E w \in wires :
        /\ v = [w EXCEPT !.type = T[w]]
        /\ v \in Wire /\ v.id = w.id /\ v.from = w.from /\ v.to = w.to
        /\ v.type = T[w]
  <2>1. TAKE v \in wires'
  <2>2. PICK w \in wires : v = [w EXCEPT !.type = T[w]]
    BY <1>1
  <2>3. w \in Wire /\ T[w] \in Types \cup {Any}
    BY DEF WiresInv, TypeOK
  <2>4. QED
    BY <2>2, <2>3 DEF Wire
<1>4. TypeOK'
  <2>1. wires' \subseteq Wire
    BY <1>3
  <2>2. allowed' \in [Pins -> Types]
    BY <1>2 DEF WiresInv, TypeOK
  <2>3. QED
    BY <1>2, <2>1, <2>2 DEF WiresInv, TypeOK
<1>5. IsFiniteSet(wires')
  BY <1>1, RetypedCount DEF WiresInv, TypeOK
<1>6. NoDangling'
  BY <1>2, <1>3 DEF WiresInv, NoDangling, Registered
<1>7. Directed'
  BY <1>3 DEF WiresInv, Directed
<1>8. Concrete'
  BY <1>1, <1>3 DEF Concrete
<1>9. NoTwins'
  <2>1. SUFFICES ASSUME NEW v \in wires', NEW w \in wires',
                        {v.from, v.to} = {w.from, w.to}
                 PROVE  v = w
    BY DEF NoTwins
  <2>2. PICK x \in wires : v = [x EXCEPT !.type = T[x]] /\ v.from = x.from /\ v.to = x.to
    BY <1>3
  <2>3. PICK y \in wires : w = [y EXCEPT !.type = T[y]] /\ w.from = y.from /\ w.to = y.to
    BY <1>3
  <2>4. x = y
    BY <2>1, <2>2, <2>3 DEF WiresInv, NoTwins
  <2>5. QED
    BY <2>2, <2>3, <2>4
<1>10. DraftSound'
  <2>1. SUFFICES ASSUME draft # NoDraft, NEW q \in draft.candidates
        PROVE  /\ (draft.source \in Outputs) # (q \in Outputs)
               /\ ~ \E w \in wires' : {w.from, w.to} = {draft.source, q}
               /\ ~ (Capacity[q] > 0 /\ Cardinality(Touching(wires', q)) >= Capacity[q])
    BY <1>2 DEF DraftSound, Connected, Full, Touching
  <2>2. Capacity[q] \in Nat
    BY <2>1 DEF WiresInv, TypeOK, Draft
  <2>3. /\ (draft.source \in Outputs) # (q \in Outputs)
        /\ ~Connected(draft.source, q)
        /\ ~Full(q)
    BY <2>1 DEF WiresInv, DraftSound
  <2>4. ~ \E w \in wires' : {w.from, w.to} = {draft.source, q}
    BY <1>3, <2>3 DEF Connected
  <2>5. /\ Cardinality(Touching(wires', q)) \in Nat
        /\ Cardinality(Touching(wires, q)) \in Nat
        /\ Cardinality(Touching(wires', q)) <= Cardinality(Touching(wires, q))
    BY <1>1, RetypedCount DEF WiresInv, TypeOK
  <2>6. QED
    BY <2>2, <2>3, <2>4, <2>5 DEF Full
<1>11. QED
  BY <1>4, <1>5, <1>6, <1>7, <1>8, <1>9, <1>10 DEF WiresInv

\* The rest: cancel, delete, unregister, another phase.
LEMMA OtherSteps ==
  ASSUME WiresInv,
         \/ CancelConnect
         \/ \E w \in wires : DeleteWire(w)
         \/ \E e \in live : UnregisterElement(e)
         \/ \E k \in 1..Phases : ShowPhase(k)
         \/ UNCHANGED vars
  PROVE  WiresInv' /\ wires' \subseteq wires
<1> USE DEF WiresInv, TypeOK
<1>1. wires' \subseteq wires /\ draft' \in {draft, NoDraft}
  BY DEF CancelConnect, DeleteWire, UnregisterElement, ShowPhase, vars
<1>2. TypeOK'
  BY <1>1 DEF CancelConnect, DeleteWire, UnregisterElement, ShowPhase, vars
<1>3. \A w \in wires' : ElementOf[w.from] \in live' /\ ElementOf[w.to] \in live'
  <2>1. CASE \E e \in live : UnregisterElement(e)
    BY <2>1 DEF UnregisterElement, TouchingElement, NoDangling, Registered
  <2>2. CASE live' = live
    BY <1>1, <2>2 DEF NoDangling, Registered
  <2>3. QED
    BY <2>1, <2>2 DEF CancelConnect, DeleteWire, ShowPhase, vars
<1>4. QED
  BY <1>1, <1>2, <1>3, ThinnerStep

------------------------------------------------------------------------------
(* Theorems                                                                 *)

\* The inductive invariant holds in every reachable state: to what the
\* checked properties say it adds what the photograph of a draft still says
\* of its candidates while the rest of the stage moves.
THEOREM WiresInvariant == Spec => []WiresInv
<1>1. Init => WiresInv
  <2>1. ASSUME Init PROVE WiresInv
    <3>1. 1 \in 1..Phases /\ 0 \in 0..MaxWires
      OBVIOUS
    <3>2. TypeOK
      BY <2>1, <3>1 DEF Init, TypeOK
    <3>3. IsFiniteSet(wires)
      BY <2>1, FS_EmptySet DEF Init
    <3>4. NoDangling /\ Directed /\ NoTwins /\ Concrete
      BY <2>1 DEF Init, NoDangling, Directed, NoTwins, Concrete
    <3>5. DraftSound
      BY <2>1 DEF Init, DraftSound
    <3>6. QED
      BY <3>2, <3>3, <3>4, <3>5 DEF WiresInv
  <2>2. QED
    BY <2>1
<1>2. WiresInv /\ [Next]_vars => WiresInv'
  BY StartStep, FinishStep, RetypeStep, OtherSteps DEF Next
<1>3. QED
  BY <1>1, <1>2, PTL DEF Spec

\* No wire ends at a device that is gone.
THEOREM NoDanglingCorrect == Spec => []NoDangling
BY WiresInvariant, PTL DEF WiresInv

\* Every wire runs from an output to an input.
THEOREM DirectedCorrect == Spec => []Directed
BY WiresInvariant, PTL DEF WiresInv

\* Two pins are joined at most once.
THEOREM NoTwinsCorrect == Spec => []NoTwins
BY WiresInvariant, PTL DEF WiresInv

\* No wire carries the wildcard.
THEOREM ConcreteCorrect == Spec => []Concrete
BY WiresInvariant, PTL DEF WiresInv

\* A pin is overfilled by a draft of its own only.
THEOREM OverfilledCorrect == Spec => OverfilledByOwnDraft
<1> DEFINE Own == \A p \in Pins :
                    /\ Capacity[p] > 0
                    /\ Cardinality(Touching(wires, p)) <= Capacity[p]
                    /\ Cardinality(Touching(wires', p)) > Capacity[p]
                    => draft # NoDraft /\ draft.source = p
<1>1. ASSUME WiresInv, [Next]_vars PROVE Own
  <2>1. SUFFICES ASSUME NEW p \in Pins, Capacity[p] > 0,
                        Cardinality(Touching(wires, p)) <= Capacity[p],
                        Cardinality(Touching(wires', p)) > Capacity[p]
                 PROVE  draft # NoDraft /\ draft.source = p
    OBVIOUS
  <2>2. Capacity[p] \in Nat
    OBVIOUS
  <2>3. IsFiniteSet(wires) /\ wires \subseteq Wire
    BY <1>1 DEF WiresInv, TypeOK
  <2>4. CASE wires' \subseteq wires
    BY <2>1, <2>2, <2>3, <2>4, Fewer
  <2>5. CASE \E e \in live \cap Retypable, t \in Types : SetDataType(e, t)
    <3>1. PICK T \in [wires -> Types \cup {Any}] :
            wires' = {[w EXCEPT !.type = T[w]] : w \in wires}
      BY <1>1, <2>5, Retyped
    <3>2. /\ Cardinality(Touching(wires', p)) \in Nat
          /\ Cardinality(Touching(wires, p)) \in Nat
          /\ Cardinality(Touching(wires', p)) <= Cardinality(Touching(wires, p))
      BY <2>3, <3>1, RetypedCount
    <3>3. QED
      BY <2>1, <2>2, <3>2
  <2>6. CASE draft # NoDraft /\ \E q \in draft.candidates : FinishConnect(q)
    <3>1. PICK q \in draft.candidates : FinishConnect(q)
      BY <2>6
    <3>2. CASE wires' = wires
      BY <2>4, <3>2
    <3>3. CASE wires' # wires
      <4>1. PICK w \in Wire : /\ wires' = wires \cup {w}
                             /\ {w.from, w.to} = {draft.source, q}
        BY <1>1, <2>6, <3>1, <3>3, FinishAdds
      <4>2. CASE p = draft.source
        BY <2>6, <4>2
      <4>3. CASE p = q
        <5>1. ~Full(p)
          BY <1>1, <2>6, <4>3 DEF WiresInv, DraftSound
        <5>2. /\ IsFiniteSet(Touching(wires, p))
              /\ Cardinality(Touching(wires, p)) \in Nat
          BY <2>3, Fewer
        <5>3. Cardinality(Touching(wires, p)) + 1 <= Capacity[p]
          BY <2>1, <2>2, <5>1, <5>2 DEF Full
        <5>4. Touching(wires', p) = Touching(wires, p) \cup {w}
          BY <4>1, <4>3 DEF Touching
        <5>5. Cardinality(Touching(wires', p)) \in {Cardinality(Touching(wires, p)),
                                                  Cardinality(Touching(wires, p)) + 1}
          BY <5>2, <5>4, FS_AddElement
        <5>6. QED
          BY <2>1, <2>2, <5>2, <5>3, <5>5
      <4>4. CASE p \notin {draft.source, q}
        <5>1. Touching(wires', p) = Touching(wires, p)
          BY <4>1, <4>4 DEF Touching
        <5>2. QED
          BY <2>1, <2>2, <2>3, <5>1, Fewer
      <4>5. QED
        BY <4>2, <4>3, <4>4
    <3>4. QED
      BY <3>2, <3>3
  <2>7. CASE \E r \in Pins : StartConnect(r)
    BY <2>4, <2>7 DEF StartConnect
  <2>8. QED
    BY <1>1, <2>4, <2>5, <2>6, <2>7, OtherSteps DEF Next
<1>2. QED
  BY <1>1, WiresInvariant, PTL DEF Spec, OverfilledByOwnDraft
==============================================================================
