SPECIFICATION InputsSpec
CONSTANTS
  Path <- DeepPath
  Anc <- MCAnc
  Rank <- MCRank
  WalkRank <- MCWalkRank
  Sha <- TwoSha
  RulesOf <- MCRulesOf
  IgnoreFile = ".sneakpackignore"
  Absent = Absent
  Dir = Dir
  Special = Special
  BadGlob = BadGlob
  NoManifest = NoManifest
  Wrong = Wrong
  Malformed = Malformed
  BadPath = BadPath
  NoEntry = NoEntry
  Seg <- MCSeg
  Nothing = ""
  Stars = "**"
  Name <- MCName
  Glob <- MCGlob
  BadSeg = {"["}
  BadPattern = BadPattern
  BoolFlag = {"full"}
  ValueFlag = {"o"}
  NoFlag = {"x"}
  Value = {yes, v}
  Truth = {yes}
  NoValue = NoValue
  Usage = Usage
  Plain <- MCPlain
  Backslash <- MCBackslash
  Sent <- MCSent
  MaxSegs <- ShortLines
  MaxArgs = 0
  MaxNames = 0
  MaxRot = 0
  MaxDepth = 2
INVARIANTS LastMatchDecides
CHECK_DEADLOCK FALSE
