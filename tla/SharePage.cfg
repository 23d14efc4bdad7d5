SPECIFICATION FairSpec
CONSTANTS
  Pages = {p1, p2}
  AutoHideSeconds = 2
  MaxCopies = 2
  OriginLength = 21
INVARIANTS
  TypeOK
  OpenedOnce
  ShowsTheNote
  IntactLinkWorks
  
  OneRequest
  
PROPERTIES
  ImplementsOneTimeNote
  HiddenForGood
  WorkingEnds
  AutoHide
  MarkClears
