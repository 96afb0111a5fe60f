SPECIFICATION Spec
INVARIANT
  EndIsSafe
PROPERTY
  ShutdownEnds
CHECK_DEADLOCK FALSE
