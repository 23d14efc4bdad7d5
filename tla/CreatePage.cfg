SPECIFICATION FairSpec
CONSTANTS
  OriginLength = 21
  MaxTTLValues <- MCMaxTTLValues
  MinuteValues <- MCMinuteValues
  RequestTTLs <- MCRequestTTLs
  NoteSizes <- MCNoteSizes
INVARIANTS
  TypeOK
  FormUsable
  ShownIsStored
  SavedWithinPolicy
  
  LinkOpens
  LargeWasAccepted
PROPERTIES
  FreshFormAccepted
  SubmitEnds
