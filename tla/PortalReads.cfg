SPECIFICATION PortalSpec
CONSTANTS
  MaxRow = 5
  Rows <- MCRows
  ReplayOf <- MCReplayOf
  NoRow = 0
  Filters <- MCFilters
  PageSize = 2
  Cap = 4
  NumberOf <- MCNumberOf
  Unencodable = {"NaN"}
  MaxExact = 8
  IntWords <- MCIntWords
  Shortest <- MCShortest
  RedactedKeys <- MCRedactedKeys
  Depth <- MCDepth
  MaxDepth = 3
  Decoded <- MCDecoded
  CanonicalKey <- MCCanonicalKey
  MaxQueryLimit = 2
  QueryDefault = 2
  SearchCap = 2
  MaxBuckets = 2
  MaxGroups = 2
  EpochOffset = 6
  Call <- MCCall
  Queries <- MCQueries
  EventsLimit = 1
  RecentLimit = 1
  Hour = 4
  MaxWindow = 8
  Second = 2
  Minute = 4
INVARIANTS ExportComplete QuietExportExact StatusIsHonest BackendsAgree PageWithinTotal SearchIsLiteral FilterHidesSecrets DashboardAgree
CHECK_DEADLOCK FALSE
