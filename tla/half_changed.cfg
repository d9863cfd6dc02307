SPECIFICATION InTurnSpec
CONSTANTS
  Path <- FlatPath
  Anc <- MCAnc
  Rank <- MCRank
  WalkRank <- MCWalkRank
  Sha <- MCSha
  RulesOf <- MCRulesOf
  IgnoreFile = ".sneakpackignore"
  Absent = Absent
  Dir = Dir
  Special = Special
  BadGlob = BadGlob
  Missing = Missing
  Truncated = Truncated
  Torn = Torn
  NoRun = NoRun
  Proc = {p1}
  Bundles <- KindChain
  Options <- PlainOrForced
  EditNodes <- NoEdits
  EditsWhileRunning = FALSE
  MaxEdits = 0
  MaxDeaths = 0
PROPERTIES NeverHalfChanged
