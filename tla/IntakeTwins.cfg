SPECIFICATION Spec
CONSTANTS
  Chat = {c1}
  Message = {m1, m2}
  Text <- MCText
  Refresher = {r1}
INVARIANTS
  AdmittedOncePerWindow
