SPECIFICATION Spec
CONSTANTS
  Pages = {p1}
  AutoHideSeconds = 2
  MaxCopies = 1
  OriginLength = 21
PROPERTIES
  MalformedNeverTouches
