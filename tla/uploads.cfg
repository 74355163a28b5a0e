SPECIFICATION FairSpec
CONSTANTS
  OtherPlaces = {}
  MaxUploads = 3
INVARIANTS TypeOK OneInstall AnsweredIsCleanedUp ResetClearsData
PROPERTY StopReturns
