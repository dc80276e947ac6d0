CONSTANTS
  Length = 2
  BufferLength = 1
SPECIFICATION FairSpec
INVARIANTS TypeOK InOrder CommandAccepted TimeoutIsFresh SettledPollDone
PROPERTY Ends
