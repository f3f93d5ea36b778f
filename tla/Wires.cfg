SPECIFICATION Spec
CONSTANTS
  int = int  float = float  add = add  t1 = t1  t2 = t2  fSink = fSink  iSink = iSink
  Any = Any  NoType = NoType  NoDraft = NoDraft
  Elements = {add, t1, t2, fSink, iSink}
  Tunnels = {t1, t2}
  Retypable = {add}
  Phases = 3
  MaxWires = 3
  Pins <- MCPins
  ElementOf <- MCElementOf
  Outputs <- MCOutputs
  Types <- MCTypes
  Promotes <- MCPromotes
  TypeAtStart <- MCTypeAtStart
  Capacity <- MCCapacity
  PhaseOf <- MCPhaseOf
INVARIANTS NoDangling NoTwins
PROPERTIES OverfilledByOwnDraft
CHECK_DEADLOCK FALSE
