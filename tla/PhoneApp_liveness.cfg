\* Liveness of the phone: one message of the watch and two views, so that the
\* articles of a source can be opened from the list of sources.
CONSTANTS
  Nil = Nil
  Countries = {"us"}
  HomeCountry = "us"
  SourceIds = {"cnn", ""}
  NoId = ""
  MaxMessages = 1
  MaxOpens = 2

SPECIFICATION Spec
PROPERTY MessageIsAnswered
CHECK_DEADLOCK FALSE
