CONSTANTS
  r1 = r1
  r2 = r2
  a1 = a1
  Requests <- TwoRequests
  Sessions <- OneAgent
  Owner <- SameAgent
  MaxLosses = 1
  MaxFrames = 2
  MaxDeliveries = 3
  MaxAnswers = 2
SPECIFICATION FairSpec
CHECK_DEADLOCK FALSE
INVARIANTS
  TypeOK
  OwnedByConnection
  LockedOnlyWhileAnswering
  OneAnswerPerDelivery
  ClickAnswersWhatWasShown
  NoLostRequest
PROPERTIES
  ImplementsLedger
  OfferReachesUser
