CONSTANTS
  YearDays <- MCYearDays
  LeapDay <- MCLeapDay
  LeapYears <- MCLeapYears
  EUMembers <- MCEUMembers
  BackdateTolerance <- MCBackdateTolerance
  Extractions <- MCExtractions
  Replies <- MCReplies
  Experiments <- MCExperiments
  Requests <- TrialDenials
  Profiles <- FinalOnly

SPECIFICATION Spec

INVARIANTS
  OppositeVerdicts
