\* A builder that is killed, then a look at the directory.
CONSTANTS
  p1 = p1  p2 = p2  p3 = p3  jar = jar  extra = extra
  Builder = {p1, p2}
  Artifact = {jar}
  NoRun = NoRun
SPECIFICATION DirSpec
INVARIANT AnswerIsSure
