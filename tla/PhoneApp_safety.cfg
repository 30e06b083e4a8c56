\* Safety of the phone: two messages of the watch and one view.
CONSTANTS
  Nil = Nil
  Countries = {"us"}
  HomeCountry = "us"
  SourceIds = {"cnn", ""}
  NoId = ""
  MaxMessages = 2
  MaxOpens = 1

SPECIFICATION Spec
INVARIANT TypeOK
PROPERTY ImplementsService
CHECK_DEADLOCK FALSE
