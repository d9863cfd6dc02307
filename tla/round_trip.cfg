SPECIFICATION FairCourierSpec
CONSTANTS
  Path <- FlatPath
  Anc <- MCAnc
  Rank <- MCRank
  WalkRank <- MCWalkRank
  Sha <- MCSha
  RulesOf <- MCRulesOf
  IgnoreFile = ".sneakpackignore"
  Absent = Absent
  Dir = Dir
  Special = Special
  BadGlob = BadGlob
  Missing = Missing
  Truncated = Truncated
  Torn = Torn
  NoRun = NoRun
  NoFile = NoFile
  Proc = {p1}
  Bundles <- AllBundles
  Options <- PlainOnly
  EditNodes <- NoEdits
  EditsWhileRunning = FALSE
  MaxEdits = 0
  MaxDeaths = 1
  SourceTrees <- TwoTrees
  AllowEmpty <- NeverEmpty
  MaxChanges = 2
INVARIANTS CourierTypeOK CursorTrue
PROPERTIES KeepsUp
