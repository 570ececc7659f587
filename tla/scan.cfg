SPECIFICATION FairSpec
CONSTANTS
  Uids <- MCUids
  ByteBits = 2
  MaxDepth = 3
  Count = 3
  MaxNoise = 2
INVARIANTS
  NothingHidden
  FailsOnlyOnTwins
  DrivenAlone
  NoLinkLeft

  
CHECK_DEADLOCK TRUE
