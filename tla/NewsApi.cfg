\* The cache: shared and private requests, every answer of the network, and a
\* source whose id is the name of the country.
CONSTANTS
  Nil = Nil
  Countries = {"us"}
  SourceIds = {"us", "cnn", ""}
  NoId = ""
  Work = {"ui"}
  MaxRequests = 2
  MaxCallbacks = 3
  MaxQueue = 3

SPECIFICATION Spec
INVARIANTS TypeOK UnresolvedIsUnderWay OneDownloadPerQuery AnswersItsQuery EveryoneToldTheSame
PROPERTY AskedIsAnswered
CHECK_DEADLOCK FALSE
