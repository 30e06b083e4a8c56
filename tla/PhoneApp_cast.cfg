\* The forced cast in ArticleViewBase.swift:32 meets a failed download.
CONSTANTS
  Nil = Nil
  Countries = {"us"}
  HomeCountry = "us"
  SourceIds = {"cnn", ""}
  NoId = ""
  MaxMessages = 1
  MaxOpens = 1

SPECIFICATION Spec
INVARIANT ArticleViewsGetArticles
CHECK_DEADLOCK FALSE
