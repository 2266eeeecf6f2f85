\* Every method; every event at any time; logs of up to three frames.
CONSTANTS
  Parts = 3
  Base = 3
  MaxFrames = 3
  Frames <- MCFrames
  Char <- MCChar
  Name <- MCName
  Utf8 <- MCUtf8
SPECIFICATION FairSpec
INVARIANTS ExchangeTypeOK LogIsShown
PROPERTIES ImplementsCall CallSettles
