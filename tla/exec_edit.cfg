SPECIFICATION Spec
CONSTANTS
  Path <- FlatPath
  Anc <- MCAnc
  Rank <- MCRank
  WalkRank <- MCWalkRank
  Sha <- MCSha
  RulesOf <- MCRulesOf
  IgnoreFile = ".sneakpackignore"
  Absent = Absent
  Dir = Dir
  Special = Special
  BadGlob = BadGlob
  Missing = Missing
  Truncated = Truncated
  Torn = Torn
  NoRun = NoRun
  Proc = {p1}
  Bundles <- FlatChain
  Options <- PlainOnly
  EditNodes <- ChmodOnly
  EditsWhileRunning = FALSE
  MaxEdits = 1
  MaxDeaths = 0
PROPERTIES NeverOverwritesLocalEdit
