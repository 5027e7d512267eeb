SPECIFICATION FairSpec
CONSTANTS
  Chat = {c1}
  Verifier = {v1, v2}
  None = None
INVARIANTS
  EvidenceMatchesStatus
PROPERTIES
  AccessLossConfirmed
  RequestHonoured
