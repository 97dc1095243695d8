CONSTANTS
  k1 = k1
  k2 = k2
  n1 = n1
  n2 = n2
  None = None
  Blank = Blank
  Malformed = Malformed
  Ids = {1, 2, 3, 4, 5, 6, 7}
  Keys <- MCKeys
  Names <- MCNames
  IdKey <- MCIdKey
  Files <- MCFiles
  Tokens <- MCTokens
  TokensOf <- MCTokensOf
  Weight <- MCWeight
  MaxShare = 30
  MinScore = 45
  Requests <- MCRequests

SPECIFICATION Spec

INVARIANTS
  TypeOK
  IndexOrderFree
  DominantRecordWins
  AnswersTheQuestion
