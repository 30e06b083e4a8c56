\* The entry screen and the main UI: two requests to Firebase, and list views for
\* the headlines, the sources and the articles of two of them.
CONSTANTS
  Nobody = Nobody
  Nil = Nil
  Home = Home
  AllSources = AllSources
  Sources = {cnn, bbc}
  MaxRequests = 2
  MaxViews = 3

SPECIFICATION Spec
INVARIANTS TypeOK SignOutHolds OnlyHasteIsSwallowed BarFollowsTop UnwindCastsHold ShowsWhatWasChosen
PROPERTY WaitingIsAnswered
