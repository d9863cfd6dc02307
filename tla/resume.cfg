SPECIFICATION FairSpec
CONSTANTS
  Path <- DeepPath
  Anc <- MCAnc
  Rank <- MCRank
  WalkRank <- MCWalkRank
  Sha <- MCSha
  RulesOf <- MCRulesOf
  IgnoreFile = ".sneakpackignore"
  Absent = Absent
  Dir = Dir
  Special = Special
  BadGlob = BadGlob
  Missing = Missing
  Truncated = Truncated
  Torn = Torn
  NoRun = NoRun
  Proc = {p1}
  Bundles <- DeepChain
  Options <- UnforcedOptions
  EditNodes <- NoEdits
  EditsWhileRunning = FALSE
  MaxEdits = 0
  MaxDeaths = 2
INVARIANTS RetrySafe CursorHonest
PROPERTIES InOrder ImplementsMirror Converges RunsEnd
