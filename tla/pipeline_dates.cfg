CONSTANTS
  YearDays <- MCYearDays
  LeapDay <- MCLeapDay
  LeapYears <- MCLeapYears
  EUMembers <- MCEUMembers
  BackdateTolerance <- MCBackdateTolerance
  Extractions <- MCExtractions
  Replies <- MCReplies
  Experiments <- MCExperiments
  Requests <- GuessedSpans
  Profiles <- FinalOnly

SPECIFICATION Spec

INVARIANTS
  GuessedYearHarmless
