CONSTANTS
  YearDays <- MCYearDays
  LeapDay <- MCLeapDay
  LeapYears <- MCLeapYears
  EUMembers <- MCEUMembers
  BackdateTolerance <- MCBackdateTolerance
  Extractions <- MCExtractions
  Replies <- MCReplies
  Experiments <- MCExperiments
  Requests <- MCRequests
  Profiles <- MCProfiles

SPECIFICATION Spec

INVARIANTS
  TypeOK
  VerdictOrderFree
  SilenceIsNotDenial
  RulesTellTheTruth
  AnswersExplained
  ProjectionPreservesVerdict
  RaterSupportGrounded
  ReuseIsSound
