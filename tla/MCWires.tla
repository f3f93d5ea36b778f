------------------------------- MODULE MCWires -------------------------------
(* A stage for TLC: an arithmetic device and a tunnel born in phase 1, a   *)
(* second tunnel born in phase 2 beside a float consumer, and an int       *)
(* consumer in phase 3.                                                    *)
EXTENDS Wires

CONSTANTS int, float, add, t1, t2, fSink, iSink

P(e, port) == <<e, port>>

MCPins == {P(add, "in"), P(add, "out"), P(t1, "in"), P(t1, "out"),
           P(fSink, "in"), P(iSink, "in")}
            \cup (IF t2 \in Elements THEN {P(t2, "in"), P(t2, "out")} ELSE {})
MCElementOf == [p \in MCPins |-> p[1]]
MCOutputs == {p \in MCPins : p[2] = "out"}
MCTypes == {int, float}
MCPromotes == {<<int, float>>}
MCTypeAtStart == [p \in MCPins |-> IF p[1] = fSink THEN float ELSE int]
MCCapacity == [p \in MCPins |-> IF p[2] = "in" THEN 1 ELSE 0]
MCPhaseOf == [e \in Elements |-> CASE e \in {add, t1}   -> 1
                                   [] e \in {t2, fSink} -> 2
                                   [] e = iSink         -> 3]
==============================================================================
