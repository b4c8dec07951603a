SPECIFICATION MCSpec
CONSTANTS
  v1 = v1  v2 = v2
  Plain <- MCPlain
  PgDiscovery <- MCPgDiscovery
  Patroni <- MCPatroni
  Server = {v1, v2}
  Db <- MCDb
  Choices <- MCChoices
  Member <- MCMember
  Matches <- MCMatches
  NoConfig = NoConfig
  Cleared = Cleared
  NoMembers = NoMembers
  MaxChanges = 2
INVARIANTS NoForeignDatabases FailuresAreReported DistinctNames
PROPERTIES LostOnlyByAnswer HealsInOneRound
CHECK_DEADLOCK FALSE
