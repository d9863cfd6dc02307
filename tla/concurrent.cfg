SPECIFICATION Spec
CONSTANTS
  Path <- FlatPath
  Anc <- MCAnc
  Rank <- MCRank
  WalkRank <- MCWalkRank
  Sha <- MCSha
  RulesOf <- MCRulesOf
  IgnoreFile = ".sneakpackignore"
  Absent = Absent
  Dir = Dir
  Special = Special
  BadGlob = BadGlob
  Missing = Missing
  Truncated = Truncated
  Torn = Torn
  NoRun = NoRun
  Proc = {p1, p2}
  Bundles <- Fork
  Options <- PlainOnly
  EditNodes <- FileEdits
  EditsWhileRunning = TRUE
  MaxEdits = 1
  MaxDeaths = 0
INVARIANTS ChecksHold WalkHolds
PROPERTIES NoSilentLoss VerifiedMeansEqual
