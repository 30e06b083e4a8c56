\* The future: any order of setResult, withResult and foreign blocks.
CONSTANTS
  r1 = r1
  r2 = r2
  v1 = v1
  v2 = v2
  NoOutcome = NoOutcome
  Nil = Nil
  Requests <- MCRequests
  Outcomes <- MCOutcomes
  Work = {"ui"}
  MaxCallbacks = 3
  MaxQueue = 2

SPECIFICATION Spec
INVARIANTS NoCallbackLost CalledInOrder IInv
PROPERTIES ImplementsFuture ResolvedIsAnswered
