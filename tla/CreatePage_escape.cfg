SPECIFICATION Spec
CONSTANTS
  OriginLength = 21
  MaxTTLValues <- FewMaxTTLValues
  MinuteValues <- FewMinuteValues
  RequestTTLs <- FewRequestTTLs
  NoteSizes <- FewNoteSizes
PROPERTIES
  LargeNeedsConfirm
