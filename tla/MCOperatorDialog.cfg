SPECIFICATION Spec
CONSTANTS
  Question = {q1, q2}
  Handler = {h1, h2}
  None = None
SYMMETRY Interchangeable
INVARIANTS
  FlowBoundToDraft
  
PROPERTIES
  ActsOnBoundQuestion
  LifecycleKept
