SPECIFICATION Spec
CONSTANTS
  Blank = Blank
  Hosts <- MCHosts
  Texts <- MCTexts
  Bodies <- MCBodies
  Files <- MCFiles
  MaxUrls = 3
  SchemaMax = 4
  MaxSubmissions = 2
  LocalHosts <- MCLocalHosts
  Literals <- MCLiterals
  Answers <- MCAnswers
  Locations <- MCLocations
  Statuses = {200, 299, 300, 399, 400, 503}
  MaxRedirects = 5
  Timeout = 3
  MaxLookup = 2
  MaxBytes = 2
  MaxChunk = 2
INVARIANTS
  HealthTypeOK
  BatchIsWhatWasWritten
  SplitBatchesAreLimited
  NoUnknownBatches
  TargetsAreGuarded
  EndsInTime
  TimedOutIsRetried
  NeverThrows
PROPERTIES
  ChecksEnd
CHECK_DEADLOCK FALSE
