\* The watch and the phone over a link that loses and delays: two calls of the
\* watch, and a phone that is launched twice.
CONSTANTS
  Nil = Nil
  Pages = 1
  MaxCalls = 2
  MaxWaits = 4
  MaxPresentations = 2
  Sources = {"cnn"}
  MaxLives = 2

SPECIFICATION Spec
INVARIANTS NothingDropped ControllersAreTold OneLifeOneAnswer
PROPERTY WaitIsAnswered
CHECK_DEADLOCK FALSE
