\* The forced cast in ImageFromPhone.swift:14 meets a message that failed.
CONSTANTS
  Nil = Nil
  Pages = 2
  MaxCalls = 2
  MaxWaits = 5
  MaxPresentations = 1

SPECIFICATION Spec
INVARIANT ImagesArrive
CHECK_DEADLOCK FALSE
