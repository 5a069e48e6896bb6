SPECIFICATION FairSpec
CONSTANTS
  Jobs <- MCJobs
  Rankings <- MCRankings
  Streams <- MCStreams
  Stride = 1
  MaxRuns = 2
INVARIANTS
  TypeOK
  AnswerIsNearest
  ThresholdIsSound
  VerdictIsDue
PROPERTY
  Answered
CHECK_DEADLOCK FALSE
