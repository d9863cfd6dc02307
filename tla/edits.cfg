SPECIFICATION Spec
CONSTANTS
  Path <- DeepPath
  Anc <- MCAnc
  Rank <- MCRank
  WalkRank <- MCWalkRank
  Sha <- MCSha
  RulesOf <- MCRulesOf
  IgnoreFile = ".sneakpackignore"
  Absent = Absent
  Dir = Dir
  Special = Special
  BadGlob = BadGlob
  Missing = Missing
  Truncated = Truncated
  Torn = Torn
  NoRun = NoRun
  Proc = {p1}
  Bundles <- DeepChain
  Options <- PlainOrForced
  EditNodes <- SomeEdits
  EditsWhileRunning = TRUE
  MaxEdits = 2
  MaxDeaths = 1
INVARIANTS TypeOK ChecksHold WalkHolds
PROPERTIES NoSilentLoss VerifiedMeansEqual
