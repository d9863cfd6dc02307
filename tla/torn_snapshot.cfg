SPECIFICATION PackSpec
CONSTANTS
  Path <- FlatPath
  Anc <- MCAnc
  Rank <- MCRank
  WalkRank <- MCWalkRank
  Sha <- MCSha
  RulesOf <- MCRulesOf
  IgnoreFile = ".sneakpackignore"
  Absent = Absent
  Dir = Dir
  Special = Special
  BadGlob = BadGlob
  NoManifest = NoManifest
  NoFile = NoFile
  Unreadable = Unreadable
  Sources <- OneSource
  Limits <- SwapsOnly
PROPERTIES FromOneMoment
