SPECIFICATION ReadSpec
CONSTANTS
  Code <- Codes
  Jobs <- AllJobs
  UsizeMax = 20
  DupMax = 3
INVARIANTS
  TypeOK
  ReadsBack
  RegexEndsAtDelimiter
  TranslationKeepsMeaning
  LiteralMeansPattern
CHECK_DEADLOCK FALSE
