---------------------------- MODULE MCEmitOrder ----------------------------
(* Scenes of five devices: for each layout all choices of some wires between  *)
(* the devices that are not containers, and a few orders.                   *)
EXTENDS EmitOrder

Devices == 1..5
Outside == 0

\* A layout: kind, home and part of the devices 1 to 5, the control wires.
Flat   == [kind |-> <<"plain", "method", "plain", "init", "plain">>,
           home |-> <<0, 0, 0, 0, 0>>, part |-> <<0, 0, 0, 0, 0>>, control |-> {}]
Loop   == [kind |-> <<"plain", "plain", "loop", "plain", "plain">>,
           home |-> <<3, 0, 0, 3, 0>>, part |-> <<0, 0, 0, 0, 0>>, control |-> {<<4, 3>>}]
Frozen == [Loop EXCEPT !.control = {<<5, 3>>}]
Nested == [kind |-> <<"plain", "loop", "loop", "plain", "plain">>,
           home |-> <<3, 0, 2, 2, 0>>, part |-> <<0, 0, 0, 0, 0>>, control |-> {<<1, 2>>}]
Inits  == [kind |-> <<"plain", "method", "loop", "init", "plain">>,
           home |-> <<0, 3, 0, 0, 3>>, part |-> <<0, 0, 0, 0, 0>>, control |-> {}]
Branch == [kind |-> <<"plain", "plain", "ifelse", "plain", "plain">>,
           home |-> <<3, 0, 0, 3, 3>>, part |-> <<2, 0, 0, 1, 0>>, control |-> {<<2, 3>>}]
Phases == [Branch EXCEPT !.kind[3] = "sequence", !.control = {}]
Inner  == [kind |-> <<"plain", "loop", "sequence", "plain", "plain">>,
           home |-> <<2, 3, 0, 3, 0>>, part |-> <<0, 2, 0, 1, 0>>, control |-> {}]

Loose(l) == {n \in Devices : l.kind[n] \notin Containers}

Pairs(l) == {w \in Loose(l) \X Loose(l) : w[1] # w[2]}
Alone(l) == {{}} \cup {{w} : w \in Pairs(l)}
Threes(l) == {{}} \cup {{u, v, w} : u, v, w \in Pairs(l)}

Of(l, wirings, orders) ==
    {[kind |-> l.kind, home |-> l.home, part |-> l.part, control |-> l.control,
      wires |-> ws, order |-> o] : ws \in wirings, o \in orders}

Unordered == <<0, 0, 0, 0, 0>>
Some == {Unordered, <<2, 0, 0, 1, 0>>, <<0, 0, 2, 1, 1>>}

AllScenes ==
    UNION {Of(l, Threes(l), Some) : l \in {Flat, Loop, Nested, Inits, Branch, Phases, Inner}}
    \cup Of(Frozen, Alone(Frozen), {Unordered})

\* One wire, and a loop or a branch with a condition.
PlainScenes == Of(Loop, Alone(Loop), {Unordered}) \cup Of(Branch, Alone(Branch), {Unordered})
=============================================================================
