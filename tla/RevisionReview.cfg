CONSTANTS
  None = None
  ReqTexts <- MCTexts
  Sections <- MCSections
  ReqIds = {1}
  Files <- MCFiles
  Similarity <- MCSimilarity
  OtherRows <- MCOtherRows
  EditTexts = {"c"}
  MinLive = 3
  MaxAttempts = 2
  MaxEdits = 2
  MaxSubmits = 2
SPECIFICATION ReviewSpec
INVARIANTS FoundByItsText
PROPERTIES AppliesWhatItShowed UnchangedKeepsItsId ReviewKeepsItsVectors StagedReviewIsCurrent
