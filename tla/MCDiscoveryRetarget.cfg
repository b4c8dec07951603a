SPECIFICATION MCSpec
CONSTANTS
  v1 = v1  v2 = v2
  Plain <- MCPlain
  PgDiscovery <- MCPgDiscovery
  Patroni <- MCPatroni
  Server = {v1, v2}
  Db <- MCDb
  Choices <- MCChoices
  Member <- MCMember
  Matches <- MCMatches
  NoConfig = NoConfig
  Cleared = Cleared
  NoMembers = NoMembers
  MaxChanges = 1
PROPERTY MonitoredWhereConfigured
CHECK_DEADLOCK FALSE
