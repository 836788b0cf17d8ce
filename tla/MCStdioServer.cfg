SPECIFICATION FairSpec
CONSTANTS
  N = 4
  InCap = 2
  OutCap = 1
  Faults = TRUE
  Scripts <- MCScripts
INVARIANT TypeOK
INVARIANT AnsweredAtMostOnce
INVARIANT NothingLost
INVARIANT InArrivalOrder
INVARIANT RejectionHoldsTheLine
PROPERTY Contract
PROPERTY EventuallyAnswered
PROPERTY StopsAfterEof
PROPERTY StdinKeepsMoving
