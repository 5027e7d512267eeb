SPECIFICATION FairSpec
CONSTANTS
  Chat = {c1}
  Message = {m1, m2, m3}
  Text <- MCText
  Refresher = {r1, r2}
INVARIANTS
  SuppressedHasTwin
  TwinsOnlyByOverlap
  StoredWhileActive
  
PROPERTIES
  AllowListCatchesUp
