\* The watch: two headline pages that share a request, and the way from the
\* sources to an article in three calls; the phone answers as it likes.
CONSTANTS
  Nil = Nil
  Pages = 2
  MaxCalls = 3
  MaxWaits = 6
  MaxPresentations = 1

SPECIFICATION Spec
INVARIANTS TypeOK SentInOrder UnresolvedIsUnderWay PagesAgree
PROPERTY WaitIsAnswered
CHECK_DEADLOCK FALSE
