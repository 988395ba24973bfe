SPECIFICATION MCSpec
CONSTANTS
  MaxGiven = 4
  MaxTracked = 2
  MaxFile = 2
  MaxForce = 2
  MaxIter = 4
  MaxEvals = 2
  UpdateMax = 3
  ILetters <- MCILetters
  OLetters <- MCOLetters
  Topologies <- MCTopologies
  Corpora <- MCCorpora
  Creating <- MCCreating
  MaxWalk = 3
INVARIANTS AllTypesOK GradientsOfVector FilesCanStartSession
  NgramCountsExact LatticeIsWellFormed
  LongestHistory AcceptsWhatWasSeen AcceptsEssential FeaturesMatchHistory NoepsFeaturesMatch
PROPERTIES HalvedNotTwice SessionEnds
