SPECIFICATION FairSpec
CONSTANTS
  MAX_RECORDS = 2
  sd_index = 1
  FailLimit = 2
INVARIANT TypeOK
INVARIANT ListensUnlessLost
INVARIANT ExportIsComplete
PROPERTY RequestsAnswered
PROPERTY ExportEnds
