\* The program against what line 288 of PodmanApi.ts says of a tar that fails.
CONSTANTS
  Parts = 1
  Base = 3
  MaxFrames = 2
  Frames <- MCFrames
  Char <- MCChar
  Name <- MCName
  Utf8 <- MCUtf8
SPECIFICATION Spec
INVARIANT FailedTarRejects
