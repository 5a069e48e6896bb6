SPECIFICATION FairSpec
CONSTANTS
  Jobs <- MCRepeatedJobs
  Rankings <- MCRankings
  Streams <- MCStreams
  Stride = 1
  MaxRuns = 2
INVARIANTS
  NoVectorNoRow
CHECK_DEADLOCK FALSE
