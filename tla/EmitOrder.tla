------------------------------ MODULE EmitOrder ------------------------------
(***************************************************************************)
(* The order in which the emitter of server/codegen/ir turns the devices   *)
(* of a scene into instructions: scope by scope, each scope (or branch, or *)
(* phase) sorted by Kahn's algorithm over its wires, ready devices taken   *)
(* by execution order, containers emitted in place and recursively.        *)
(*                                                                         *)
(* Devices are the numbers of their ids in lexical order.  An instruction  *)
(* is the device it comes from; registers, types and texts are left out.   *)
(* Functions, cases and tunnels are left out; there is one black-box       *)
(* instance.                                                               *)
(***************************************************************************)
EXTENDS Integers, Sequences, FiniteSets

CONSTANTS
    Node,    \* the devices
    Global,  \* the scope outside every container
    Last,    \* the effective order of a device that nothing orders, 1<<31 - 1
    Scenes   \* the scenes to emit

Kinds == {"plain", "init", "method", "loop", "ifelse", "sequence"}
Containers == {"loop", "ifelse", "sequence"}

Scene ==
    [kind    : [Node -> Kinds],
     home    : [Node -> Node \cup {Global}],  \* the scope a device is in
     part    : [Node -> 0..2],                \* its branch or phase; 0: assigned to none
     wires   : SUBSET (Node \X Node),         \* the wires that carry data
     control : SUBSET (Node \X Node),         \* those into a stop, interval or condition port
     order   : [Node -> Nat]]                 \* executionOrder; 0: none

ASSUME NodeAssumption == IsFiniteSet(Node) /\ Node \subseteq Nat
ASSUME GlobalAssumption == Global \notin Node
ASSUME SceneAssumption == Last \in Nat /\ Scenes \subseteq Scene
\* Only a container is made the parent of a device (SceneGraph!Holders).
ASSUME HomeAssumption ==
    \A s \in Scenes : \A n \in Node :
        s.home[n] # Global => s.kind[s.home[n]] \in Containers

VARIABLES
    scene,     \* the scene, fixed
    pc,        \* "start", "sort", "emit" or "done"
    job,       \* the scope and the part that is being sorted
    inDegree,  \* inDegree[n]: how many devices n still waits for
    queue,     \* the devices that are ready
    sorted,    \* the order found so far
    eff,       \* effective execution orders, memoised for one sort
    stack,     \* the scopes being emitted, innermost first, with what is left of each
    out,       \* the program: begin, do, break and end of a device
    diags,     \* errors
    warned     \* was a cycle met that only a warning tells?

vars == <<scene, pc, job, inDegree, queue, sorted, eff, stack, out, diags, warned>>
sortVars == <<job, inDegree, queue, sorted, eff>>

-----------------------------------------------------------------------------
(* The scope tree.                                                          *)

Upward(home, S) == \A x \in S : home[x] \in S \cup {Global}

\* The scopes passed on the way up from each device: what every set holds that
\* holds its home and, with a scope, the home of that.
Ancestors(home) ==
    [n \in Node |-> {a \in Node : \A S \in SUBSET Node :
        home[n] \in S \cup {Global} /\ Upward(home, S) => a \in S}]

Above == Ancestors(scene.home)

Halved(c) == c # Global /\ scene.kind[c] \in {"ifelse", "sequence"}

Parts(c) == IF Halved(c) THEN {1, 2} ELSE {1}

\* Mutation: a device that no branch or phase lists is in none.
PartOfListed(n) == IF Halved(scene.home[n]) THEN scene.part[n] ELSE 1

\* A device no branch or phase lists goes with the first.
PartOf(n) == IF Halved(scene.home[n]) /\ scene.part[n] = 2 THEN 2 ELSE 1

Members(c, p) == {n \in Node : scene.home[n] = c /\ PartOf(n) = p}

\* Control ports of a loop that a device outside it feeds.
OutsideControl ==
    {w \in scene.control : scene.kind[w[2]] # "ifelse" /\ w[2] \notin Above[w[1]]}

\* Wires that run backwards between two phases of a Sequence.
Backward(c) ==
    {w \in scene.wires \cup scene.control :
        scene.home[w[1]] = c /\ scene.home[w[2]] = c /\ PartOf(w[1]) > PartOf(w[2])}

-----------------------------------------------------------------------------
(* One topological sort of a set S of devices.                              *)

\* Mutation: a producer nested deeper than one container is not found.
ClimbOnce(n, S) == IF n \in S THEN {n} ELSE {scene.home[n]} \cap S

\* n, or the container in S that n is somewhere inside of.
Climb(n, S) == IF n \in S THEN {n} ELSE Above[n] \cap S

\* What the Init of an instance must precede: its methods, and the loops and
\* branches that directly contain one.
NeedsInit(m) ==
    \/ scene.kind[m] = "method"
    \/ /\ scene.kind[m] \in {"loop", "ifelse"}
       /\ \E k \in Node : scene.home[k] = m /\ scene.kind[k] = "method"

Before(b, S) ==
    {a \in S :
        \/ \E w \in scene.wires :
              w[2] = b /\ a \in Climb(w[1], S) /\ (a = b => w[1] = b)
        \/ scene.kind[a] = "init" /\ NeedsInit(b)}

\* The devices n reaches through devices without an order of their own.
Feeds(n, S) ==
    {m \in S : \A R \in SUBSET S :
        /\ n \in R
        /\ \A a \in R : scene.order[a] = 0 => \A b \in S \ R : a \notin Before(b, S)
        => m \in R}

Effective(n, S) ==
    LET orders == {scene.order[m] : m \in Feeds(n, S)} \ {0}
    IN  IF scene.order[n] > 0 THEN scene.order[n]
        ELSE IF orders = {} THEN Last
        ELSE CHOOSE o \in orders : \A p \in orders : o <= p

\* On a cycle the guard of the recursion may leave a device a later order,
\* depending on where the traversal of the map of edges enters the cycle.
EffectiveOrders(S) ==
    LET exact == [n \in S |-> Effective(n, S)]
        unordered == {n \in S : scene.order[n] = 0}
        circling == {m \in unordered : \E a \in Feeds(m, S) \cap unordered : a \in Before(m, S)}
        misled == {n \in unordered : Feeds(n, S) \cap circling # {}}
        late == {f \in [misled -> {scene.order[m] : m \in S} \cup {Last}] :
                    \A n \in misled : f[n] >= exact[n]}
    IN  {[n \in S |-> IF n \in misled THEN f[n] ELSE exact[n]] : f \in late}

\* Mutation: ids alone decide.
AheadById(a, b) == a < b

\* The order of the queue.
Ahead(a, b) == eff[a] < eff[b] \/ (eff[a] = eff[b] /\ a < b)

First(Q) == CHOOSE a \in Q : \A b \in Q \ {a} : Ahead(a, b)

Placed(i) == {sorted[k] : k \in 1..i}
Found == Placed(Len(sorted))

Sorting == Members(job.scope, job.part)

\* Mutation: in-degrees count wires, while each pair of devices is released once.
BeginSortPerWire(c, p) ==
    LET S == Members(c, p) IN
    /\ pc' = "sort"
    /\ job' = [scope |-> c, part |-> p]
    /\ inDegree' = [n \in S |-> Cardinality({w \in scene.wires :
                                    w[2] = n /\ Climb(w[1], S) # {}})]
    /\ queue' = {n \in S : Before(n, S) = {}}
    /\ sorted' = <<>>
    /\ eff' \in EffectiveOrders(S)

BeginSort(c, p) ==
    LET S == Members(c, p) IN
    /\ pc' = "sort"
    /\ job' = [scope |-> c, part |-> p]
    /\ inDegree' = [n \in S |-> Cardinality(Before(n, S))]
    /\ queue' = {n \in S : Before(n, S) = {}}
    /\ sorted' = <<>>
    /\ eff' \in EffectiveOrders(S)

\* Mutation: the first input that is there releases a device.
PopEager ==
    /\ pc = "sort" /\ queue # {}
    /\ LET current == First(queue)
           fed == {n \in Sorting : current \in Before(n, Sorting)}
       IN  /\ sorted' = Append(sorted, current)
           /\ inDegree' = [n \in Sorting |->
                              IF n \in fed THEN inDegree[n] - 1 ELSE inDegree[n]]
           /\ queue' = (queue \cup fed) \ (Found \cup {current})
    /\ UNCHANGED <<scene, pc, job, eff, stack, out, diags, warned>>

\* The head of the queue is next, and releases what waited only for it.
Pop ==
    /\ pc = "sort" /\ queue # {}
    /\ LET current == First(queue)
           fed == {n \in Sorting : current \in Before(n, Sorting)}
       IN  /\ sorted' = Append(sorted, current)
           /\ inDegree' = [n \in Sorting |->
                              IF n \in fed THEN inDegree[n] - 1 ELSE inDegree[n]]
           /\ queue' = (queue \ {current}) \cup {n \in fed : inDegree[n] = 1}
    /\ UNCHANGED <<scene, pc, job, eff, stack, out, diags, warned>>

Stuck == Len(sorted) # Cardinality(Sorting)

-----------------------------------------------------------------------------
(* Emission of a scope.                                                     *)

Emitted == {out[i].node : i \in 1..Len(out)}

Instr(op, n) == <<[op |-> op, node |-> n]>>

\* A scope, or a half of it, is sorted: its devices are emitted next.  Halves
\* are emitted as far as they could be sorted.
Enter ==
    /\ pc = "sort" /\ queue = {}
    /\ Stuck => Halved(job.scope)
    /\ warned' = (warned \/ Stuck)
    /\ out' = IF job.scope # Global /\ job.part = 1
              THEN out \o Instr("begin", job.scope) ELSE out
    /\ diags' = IF /\ job.scope # Global
                   /\ scene.kind[job.scope] = "sequence"
                   /\ Backward(job.scope) # {}
                THEN diags \cup {"backward"} ELSE diags
    /\ stack' = <<[scope |-> job.scope, part |-> job.part,
                   rest  |-> sorted]>> \o stack
    /\ pc' = "emit"
    /\ UNCHANGED <<scene, job, inDegree, queue, sorted, eff>>

\* The global scope has a cycle: an error, and nothing is emitted.
RefuseScene ==
    /\ pc = "sort" /\ queue = {} /\ Stuck /\ job.scope = Global
    /\ diags' = diags \cup {"cycle"}
    /\ pc' = "done"
    /\ UNCHANGED <<scene, sortVars, stack, out, warned>>

\* A loop has a cycle: emitNode drops the error that emitScope returns.
DropLoop ==
    /\ pc = "sort" /\ queue = {} /\ Stuck
    /\ job.scope # Global /\ ~Halved(job.scope)
    /\ pc' = "emit"
    /\ UNCHANGED <<scene, sortVars, stack, out, diags, warned>>

Top == Head(stack)

\* The next device of the innermost scope; a container is sorted at once.
EmitNode ==
    /\ pc = "emit" /\ Top.rest # <<>>
    /\ LET n == Head(Top.rest) IN
       /\ stack' = <<[Top EXCEPT !.rest = Tail(@)]>> \o Tail(stack)
       /\ IF n \notin Emitted /\ scene.kind[n] \in Containers
          THEN BeginSort(n, 1) /\ UNCHANGED out
          ELSE /\ out' = IF n \in Emitted THEN out ELSE out \o Instr("do", n)
               /\ UNCHANGED <<pc, sortVars>>
    /\ UNCHANGED <<scene, diags, warned>>

\* The first half of a branch or Sequence is out: now the second.
NextPart ==
    /\ pc = "emit" /\ Top.rest = <<>> /\ Top.part + 1 \in Parts(Top.scope)
    /\ BeginSort(Top.scope, Top.part + 1)
    /\ stack' = Tail(stack)
    /\ UNCHANGED <<scene, out, diags, warned>>

Fed(c) == \E w \in scene.control : w[2] = c

\* Mutation: the loop is closed, and its break follows.
CloseScopeEarly ==
    /\ pc = "emit" /\ Top.rest = <<>> /\ Top.part + 1 \notin Parts(Top.scope)
    /\ Top.scope # Global
    /\ out' = out \o Instr("end", Top.scope)
                  \o (IF scene.kind[Top.scope] = "loop" /\ Fed(Top.scope)
                      THEN Instr("break", Top.scope) ELSE <<>>)
    /\ stack' = Tail(stack)
    /\ UNCHANGED <<scene, pc, sortVars, diags, warned>>

\* A container ends; a loop tests its stop port there.
CloseScope ==
    /\ pc = "emit" /\ Top.rest = <<>> /\ Top.part + 1 \notin Parts(Top.scope)
    /\ Top.scope # Global
    /\ out' = out \o (IF scene.kind[Top.scope] = "loop" /\ Fed(Top.scope)
                      THEN Instr("break", Top.scope) ELSE <<>>)
                  \o Instr("end", Top.scope)
    /\ stack' = Tail(stack)
    /\ UNCHANGED <<scene, pc, sortVars, diags, warned>>

Finish ==
    /\ pc = "emit" /\ Top.rest = <<>> /\ Top.scope = Global
    /\ pc' = "done"
    /\ stack' = Tail(stack)
    /\ UNCHANGED <<scene, sortVars, out, diags, warned>>

-----------------------------------------------------------------------------
Init ==
    /\ scene \in Scenes
    /\ pc = "start"
    /\ job = [scope |-> Global, part |-> 1]
    /\ inDegree = [n \in {} |-> 0] /\ eff = [n \in {} |-> 0]
    /\ queue = {} /\ sorted = <<>> /\ stack = <<>> /\ out = <<>>
    /\ diags = {} /\ warned = FALSE

\* Mutation: loops accept a stop from anywhere.
StartUnchecked ==
    /\ pc = "start"
    /\ BeginSort(Global, 1)
    /\ UNCHANGED <<scene, stack, out, diags, warned>>

\* The checks before the first instruction.
Start ==
    /\ pc = "start"
    /\ IF OutsideControl # {}
       THEN diags' = {"controlPort"} /\ pc' = "done" /\ UNCHANGED sortVars
       ELSE BeginSort(Global, 1) /\ UNCHANGED diags
    /\ UNCHANGED <<scene, stack, out, warned>>

\* The emitter has returned.
Returned == pc = "done" /\ UNCHANGED vars

Next ==
    \/ Start \/ Pop \/ Enter \/ RefuseScene \/ DropLoop
    \/ EmitNode \/ NextPart \/ CloseScope \/ Finish \/ Returned

Spec == Init /\ [][Next]_vars

-----------------------------------------------------------------------------
(* Properties.                                                              *)

\* The shape of the state; no device waits for fewer than nobody.
TypeOK ==
    /\ scene \in Scene
    /\ pc \in {"start", "sort", "emit", "done"}
    /\ job \in [scope : Node \cup {Global}, part : {1, 2}]
    /\ queue \subseteq Node
    /\ sorted \in Seq(Node)
    /\ pc = "sort" => /\ inDegree \in [Sorting -> Nat]
                      /\ eff \in [Sorting -> Nat]
    /\ stack \in Seq([scope : Node \cup {Global}, part : {1, 2}, rest : Seq(Node)])
    /\ out \in Seq([op : {"begin", "do", "break", "end"}, node : Node])
    /\ diags \subseteq {"controlPort", "cycle", "backward"}
    /\ warned \in BOOLEAN

\* Kahn's loop (emit.go 3820-3834): what a device waits for comes before it.
SortRespects ==
    pc = "sort" =>
        \A i \in 1..Len(sorted) :
            Before(sorted[i], Sorting) \subseteq Placed(i-1)

\* The queue (emit.go 3798-3811): a device with an earlier effective order, or
\* with the same and a smaller id, comes later only because of something it
\* waits for that did not come before the other.
NoJump ==
    pc = "sort" =>
        \A j \in 1..Len(sorted) : \A i \in 1..(j-1) :
            (\/ eff[sorted[j]] < eff[sorted[i]]
             \/ eff[sorted[j]] = eff[sorted[i]] /\ sorted[j] < sorted[i]) =>
                \E k \in i..(j-1) : sorted[k] \in Before(sorted[j], Sorting)

\* "cycle detected" (emit.go 3836): when the queue runs dry, every device left
\* waits for another one that is left, whatever the wires, their number between
\* two devices and the implicit edges.
StuckOnCycle ==
    pc = "sort" /\ queue = {} =>
        \A n \in Sorting \ Found : Before(n, Sorting) \ Found # {}

Begun(n) == {i \in 1..Len(out) : out[i].node = n /\ out[i].op \in {"begin", "do"}}

\* A value that leaves a container, or stays in its scope, is computed before it
\* is read, however deep its producer is nested (findContainerInScope, 3879).
OutwardFirst ==
    \A w \in scene.wires :
        LET beside == ({w[1]} \cup Above[w[1]]) \cap Members(scene.home[w[2]], PartOf(w[2]))
        IN  beside \ {w[2]} # {} =>
                \A i \in Begun(w[2]) : \A j \in Begun(w[1]) : j < i

Acyclic(S) ==
    \A C \in (SUBSET S) \ {{}} : \E n \in C : Before(n, S) \cap C = {}

\* Only a cycle inside a loop loses devices without a word.
LoopsAcyclic == \A c \in Node : scene.kind[c] = "loop" => Acyclic(Members(c, 1))

\* No container is inside itself.
Rooted == \A C \in (SUBSET Node) \ {{}} : \E n \in C : scene.home[n] \notin C

\* Without an error or a warning every device is in the program, once.
Complete ==
    pc = "done" /\ diags = {} /\ ~warned /\ LoopsAcyclic /\ Rooted =>
        \A n \in Node : Cardinality(Begun(n)) = 1

\* Blocks nest as the scopes do: whatever stands for a device is between the
\* begin and the end of its container, and a break within its own loop.
BlocksNest ==
    \A i \in 1..Len(out) :
        LET n == out[i].node
            c == IF out[i].op = "break" THEN n ELSE scene.home[n]
        IN  c # Global =>
                /\ \E j \in 1..(i-1) : out[j] = [op |-> "begin", node |-> c]
                /\ \A j \in 1..(i-1) : out[j] # [op |-> "end", node |-> c]

\* A loop tests a value that its body has computed (validateControlPortSources).
StopComputed ==
    LoopsAcyclic /\ ~warned =>
        \A i \in 1..Len(out) : out[i].op = "break" =>
            \A w \in scene.control : w[2] = out[i].node => \E j \in Begun(w[1]) : j < i

\* ir/readme.md: a device is emitted only after all its inputs have been.  The
\* stop of a loop is read at its end, the condition of a branch at its begin.
InputsFirst ==
    \A w \in scene.wires \cup {v \in scene.control : scene.kind[v[2]] = "ifelse"} :
        \A i \in Begun(w[2]) : \E j \in Begun(w[1]) : j < i
=============================================================================
