SPECIFICATION InputsSpec
CONSTANTS
  Path <- DeepPath
  Anc <- MCAnc
  Rank <- MCRank
  WalkRank <- MCWalkRank
  Sha <- TwoSha
  RulesOf <- MCRulesOf
  IgnoreFile = ".sneakpackignore"
  Absent = Absent
  Dir = Dir
  Special = Special
  BadGlob = BadGlob
  NoManifest = NoManifest
  Wrong = Wrong
  Malformed = Malformed
  BadPath = BadPath
  NoEntry = NoEntry
  Seg <- MCSeg
  Nothing = ""
  Stars = "**"
  Name <- MCName
  Glob <- MCGlob
  BadSeg = {"["}
  BadPattern = BadPattern
  BoolFlag = {"full"}
  ValueFlag = {"o"}
  NoFlag = {"x"}
  Value = {yes, v}
  Truth = {yes}
  NoValue = NoValue
  Usage = Usage
  Plain <- MCPlain
  Backslash <- MCBackslash
  Sent <- MCSent
  MaxSegs <- LineSizes
  MaxArgs = 4
  MaxNames = 4
  MaxRot = 2
  MaxDepth = 3
INVARIANTS PatternsMean NothingLost StdlibAgrees ValidStays RecordedLoads VerifyProves OldOrNew
PROPERTIES LaterLineDecides
CHECK_DEADLOCK FALSE
